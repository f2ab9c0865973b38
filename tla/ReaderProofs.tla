---------------------------- MODULE ReaderProofs ----------------------------
(***************************************************************************)
(* What is read back from the tables, for all tenants, ids and times: the  *)
(* histories that are replayed, the lists that are paged and the reports   *)
(* that are put together while others write.                               *)
(***************************************************************************)
EXTENDS Queries, VoyageTimeline, WorkflowProofs, OrderingProofs

-----------------------------------------------------------------------------
(***************************************************************************)
(* The history of a slot.                                                  *)
(***************************************************************************)
ReplayStates == [status : SlotStatuses \cup {"error"}, lastTime : Int]

\* The replay of movements, place by place.
LEMMA ReplayFold ==
  ASSUME NEW n \in Nat, NEW start \in ReplayStates, NEW seq \in [1 .. n -> Movements]
  PROVE  \E g : /\ FoldLeft(Replay, start, seq) = g[1 .. n]
                /\ g[1 .. 0] = start
                /\ \A k \in 1 .. n : g[1 .. k] = Replay(g[1 .. k - 1], seq[k])
<1> DEFINE Op == [p \in ReplayStates \X Movements |-> Replay(p[1], p[2])]
           Solves(g) == g = [s \in SUBSET DOMAIN seq |->
                               IF s = {} THEN start
                               ELSE Replay(g[s \ {Max(s)}], seq[Max(s)])]
           g == CHOOSE h : Solves(h)
<1>1. ASSUME NEW a \in ReplayStates, NEW m \in Movements
      PROVE  Replay(a, m) \in ReplayStates /\ Op[<<a, m>>] = Replay(a, m)
  <2>1. m.at \in Int /\ m.status \in SlotStatuses /\ a.lastTime \in Int
    BY DEF Movements, ReplayStates
  <2>2. Replay(a, m) \in ReplayStates
    BY <2>1 DEF Replay, ReplayStates
  <2> QED
    BY <2>2
<1>2. Op \in [ReplayStates \X Movements -> ReplayStates]
  BY <1>1
<1> HIDE DEF Op
<1>3. PICK h \in [SUBSET (1 .. n) -> ReplayStates] :
        /\ h[{}] = start
        /\ \A s \in SUBSET (1 .. n) :
             s # {} => h[s] = Op[<<h[s \ {Max(s)}], seq[Max(s)]>>]
  <2>1. FoldSolved(n, ReplayStates, start, seq, Op)
    BY <1>2, FoldExists
  <2> QED
    BY <2>1 DEF FoldSolved
<1>4. ASSUME NEW s \in SUBSET (1 .. n), s # {}
      PROVE  h[s] = Replay(h[s \ {Max(s)}], seq[Max(s)])
  <2>1. Max(s) \in s
    BY <1>4, MaxOfPlaces
  <2>2. seq[Max(s)] \in Movements /\ h[s \ {Max(s)}] \in ReplayStates
    BY <2>1
  <2> QED
    BY <1>1, <1>3, <1>4, <2>2
<1>5. Solves(h)
  <2>1. DOMAIN seq = 1 .. n
    OBVIOUS
  <2> QED
    BY <1>3, <1>4, <2>1
<1>6. Solves(g)
  BY <1>5
<1>7. FoldLeft(Replay, start, seq) = g[1 .. n]
  BY DEF FoldLeft, MapThenFoldSet
<1> HIDE DEF g
<1>8. g[1 .. 0] = start
  BY <1>6
<1>9. ASSUME NEW k \in 1 .. n
      PROVE  g[1 .. k] = Replay(g[1 .. k - 1], seq[k])
  <2>1. 1 .. k \in SUBSET (1 .. n)
    OBVIOUS
  <2>2. 1 .. k # {} /\ Max(1 .. k) = k /\ (1 .. k) \ {k} = 1 .. k - 1
    <3>1. k \in Nat \ {0}
      OBVIOUS
    <3> QED
      BY <3>1, LastPlace
  <2> QED
    BY <1>6, <2>1, <2>2
<1> QED
  BY <1>7, <1>8, <1>9

MovementsOf(r) == {m \in movements : m.reservation = r}

\* The sort of the movements of a slot tells them apart: no two have a status.
LEMMA MovementOrder ==
  ASSUME TypeOK, MovementsMatchStatus, NEW r, IsFiniteSet(MovementsOf(r))
  PROVE  LET S == MovementsOf(r)
             f == Ordered(S, Before)
         IN /\ f \in [1 .. Cardinality(S) -> S]
            /\ \A x \in S : \E n \in 1 .. Cardinality(S) : f[n] = x
            /\ \A m, n \in 1 .. Cardinality(S) : m < n <=> Before(f[m], f[n])
<1> DEFINE S == MovementsOf(r)
           f == Ordered(S, Before)
           R == {p \in S \X S : Before(p[1], p[2])}
<1>1. \A s \in SlotStatuses : Rank(s) \in 1 .. 5 /\ Alphabet[Rank(s)] = s
  <2>1. DOMAIN Alphabet = 1 .. 5
    BY DEF Alphabet
  <2>2. \A s \in SlotStatuses : \E n \in 1 .. 5 : Alphabet[n] = s
    BY DEF Alphabet, SlotStatuses
  <2> QED
    BY <2>1, <2>2 DEF Rank
<1>2. \A m \in S : m.at \in Nat /\ m.status \in SlotStatuses /\ m \in movements
  BY DEF MovementsOf, TypeOK, Movements
<1>3. \A m, n \in S : m.status = n.status => m = n
  BY DEF MovementsOf, MovementsMatchStatus
<1>4. \A m, n \in S : Rank(m.status) = Rank(n.status) => m = n
  BY <1>1, <1>2, <1>3
<1> HIDE DEF S
<1>5. \A m, n \in S : <<m, n>> \in R <=> Before(m, n)
  OBVIOUS
<1>6. /\ \A x \in S : <<x, x>> \notin R
      /\ \A x, y, z \in S : <<x, y>> \in R /\ <<y, z>> \in R => <<x, z>> \in R
      /\ \A x, y \in S : x = y \/ <<x, y>> \in R \/ <<y, x>> \in R
  <2>1. \A m \in S : m.at \in Int /\ Rank(m.status) \in Int
    BY <1>1, <1>2
  <2>2. \A x \in S : ~Before(x, x)
    BY <2>1 DEF Before
  <2>3. \A x, y, z \in S : Before(x, y) /\ Before(y, z) => Before(x, z)
    BY <2>1 DEF Before
  <2>4. \A x, y \in S : x = y \/ Before(x, y) \/ Before(y, x)
    BY <1>4, <2>1 DEF Before
  <2> HIDE DEF R
  <2> QED
    BY <1>5, <2>2, <2>3, <2>4
<1>7. \A x \in S : {y \in S : <<y, x>> \in R} = {y \in S : Before(y, x)}
  BY <1>5
<1>8. /\ f = [n \in 1 .. Cardinality(S) |-> f[n]]
      /\ \A n \in 1 .. Cardinality(S) :
           f[n] = CHOOSE x \in S : Cardinality({y \in S : Before(y, x)}) = n - 1
  BY DEF Ordered
<1> HIDE DEF R, f
<1>9. ASSUME NEW n \in 1 .. Cardinality(S),
             \E x \in S : Cardinality({y \in S : <<y, x>> \in R}) = n - 1
      PROVE  f[n] \in S /\ Cardinality({y \in S : <<y, f[n]>> \in R}) = n - 1
  <2>1. \E x \in S : Cardinality({y \in S : Before(y, x)}) = n - 1
    BY <1>7, <1>9
  <2>2. f[n] \in S /\ Cardinality({y \in S : Before(y, f[n])}) = n - 1
    BY <1>8, <2>1
  <2> QED
    BY <1>7, <2>2
<1>10. IsFiniteSet(S)
  BY DEF S
<1>11. Lists(f, R, S)
  <2>1. OrdersStrictly(R, S) /\ Places(f, R, S)
    BY <1>6, <1>9 DEF OrdersStrictly, Places
  <2> QED
    BY <1>10, <2>1, PlacesList
<1>12. f \in [1 .. Cardinality(S) -> S]
  BY <1>8, <1>11 DEF Lists
<1>13. \A m, n \in 1 .. Cardinality(S) : m < n <=> Before(f[m], f[n])
  BY <1>5, <1>11 DEF Lists
<1> QED
  BY <1>11, <1>12, <1>13 DEF f, S, Lists

\* How the sort ranks an entry and an exit.
LEMMA RankOfEntry == Rank("entered") = 3 /\ Rank("exited") = 4
<1>1. DOMAIN Alphabet = 1 .. 5
  BY DEF Alphabet
<1>2. ASSUME NEW n \in 1 .. 5
      PROVE  /\ Alphabet[n] = "entered" <=> n = 3
             /\ Alphabet[n] = "exited" <=> n = 4
  BY DEF Alphabet
<1>3. Rank("entered") = 3
  <2>1. \E n \in DOMAIN Alphabet : Alphabet[n] = "entered"
    BY <1>1, <1>2
  <2> QED
    BY <1>1, <1>2, <2>1 DEF Rank
<1>4. Rank("exited") = 4
  <2>1. \E n \in DOMAIN Alphabet : Alphabet[n] = "exited"
    BY <1>1, <1>2
  <2> QED
    BY <1>1, <1>2, <2>1 DEF Rank
<1> QED
  BY <1>3, <1>4

\* The start of the replay is a state of it.
StartOf(r) == [status |-> "confirmed", lastTime |-> reservations[r].starts - EntryLead]

\* A slot that has one movement, or an entry and an exit, is replayed in order.
LEMMA ReplayOne ==
  ASSUME TypeOK, MovementsMatchStatus, NEW r \in ReservationIDs, Present(reservations[r]),
         NEW m, MovementsOf(r) = {m}
  PROVE  ValidateMovementHistory(r)
           <=> Replay(StartOf(r), m).status = reservations[r].status
<1> DEFINE S == MovementsOf(r)
           f == Ordered(S, Before)
<1>1. IsFiniteSet(S) /\ Cardinality(S) = 1
  BY FS_Singleton
<1>2. f \in [1 .. 1 -> S]
  BY <1>1, MovementOrder
<1>3. f[1] = m /\ m \in Movements
  BY <1>2 DEF MovementsOf, TypeOK
<1>4. StartOf(r) \in ReplayStates
  BY TimeAssumption DEF StartOf, ReplayStates, TypeOK, Present, NoRow, Reservations,
     SlotStatuses
<1>5. f \in [1 .. 1 -> Movements]
  BY <1>2 DEF MovementsOf, TypeOK
<1> HIDE DEF f
<1>6. FoldLeft(Replay, StartOf(r), f) = Replay(StartOf(r), m)
  <2>1. PICK g : /\ FoldLeft(Replay, StartOf(r), f) = g[1 .. 1]
                 /\ g[1 .. 0] = StartOf(r)
                 /\ \A k \in 1 .. 1 : g[1 .. k] = Replay(g[1 .. k - 1], f[k])
    BY <1>4, <1>5, ReplayFold, ZenonT(60)
  <2> QED
    BY <1>3, <2>1
<1> QED
  BY <1>6 DEF ValidateMovementHistory, f, StartOf, MovementsOf

LEMMA ReplayTwo ==
  ASSUME TypeOK, MovementsMatchStatus, NEW r \in ReservationIDs, Present(reservations[r]),
         NEW m, NEW n, m # n, MovementsOf(r) = {m, n}, Before(m, n), ~Before(n, m)
  PROVE  ValidateMovementHistory(r)
           <=> Replay(Replay(StartOf(r), m), n).status = reservations[r].status
<1> DEFINE S == MovementsOf(r)
           f == Ordered(S, Before)
<1>1. IsFiniteSet(S) /\ Cardinality(S) = 2
  <2>1. IsFiniteSet({m}) /\ Cardinality({m}) = 1
    BY FS_Singleton
  <2>2. S = {m} \cup {n} /\ n \notin {m}
    OBVIOUS
  <2> QED
    BY <2>1, <2>2, FS_AddElement
<1>2. /\ f \in [1 .. 2 -> S]
      /\ \A x \in S : \E k \in 1 .. 2 : f[k] = x
      /\ \A j, k \in 1 .. 2 : j < k <=> Before(f[j], f[k])
  BY <1>1, MovementOrder
<1>3. StartOf(r) \in ReplayStates
  BY TimeAssumption DEF StartOf, ReplayStates, TypeOK, Present, NoRow, Reservations,
     SlotStatuses
<1>4. f \in [1 .. 2 -> Movements]
  BY <1>2 DEF MovementsOf, TypeOK
<1> HIDE DEF f
<1>5. f[1] = m /\ f[2] = n
  <2>1. f[1] \in {m, n} /\ f[2] \in {m, n} /\ Before(f[1], f[2])
    BY <1>2
  <2>2. PICK j \in 1 .. 2, k \in 1 .. 2 : f[j] = m /\ f[k] = n
    BY <1>2
  <2> QED
    BY <2>1, <2>2
<1>6. FoldLeft(Replay, StartOf(r), f) = Replay(Replay(StartOf(r), m), n)
  <2>1. PICK g : /\ FoldLeft(Replay, StartOf(r), f) = g[1 .. 2]
                 /\ g[1 .. 0] = StartOf(r)
                 /\ \A k \in 1 .. 2 : g[1 .. k] = Replay(g[1 .. k - 1], f[k])
    BY <1>3, <1>4, ReplayFold, ZenonT(60)
  <2> QED
    BY <1>5, <2>1
<1> QED
  BY <1>6 DEF ValidateMovementHistory, f, StartOf, MovementsOf

LEMMA ReplayNone ==
  ASSUME TypeOK, MovementsMatchStatus, NEW r \in ReservationIDs, Present(reservations[r]),
         MovementsOf(r) = {}
  PROVE  ValidateMovementHistory(r) <=> "confirmed" = reservations[r].status
<1> DEFINE S == MovementsOf(r)
           f == Ordered(S, Before)
<1>1. IsFiniteSet(S) /\ Cardinality(S) = 0
  BY FS_EmptySet
<1>2. f \in [1 .. 0 -> S]
  BY <1>1, MovementOrder
<1>3. StartOf(r) \in ReplayStates /\ StartOf(r).status = "confirmed"
  BY TimeAssumption DEF StartOf, ReplayStates, TypeOK, Present, NoRow, Reservations,
     SlotStatuses
<1>4. f \in [1 .. 0 -> Movements]
  BY <1>2 DEF MovementsOf, TypeOK
<1> HIDE DEF f
<1>5. FoldLeft(Replay, StartOf(r), f) = StartOf(r)
  <2>1. PICK g : /\ FoldLeft(Replay, StartOf(r), f) = g[1 .. 0]
                 /\ g[1 .. 0] = StartOf(r)
                 /\ \A k \in 1 .. 0 : g[1 .. k] = Replay(g[1 .. k - 1], f[k])
    BY <1>3, <1>4, ReplayFold, ZenonT(60)
  <2> QED
    BY <2>1
<1> QED
  BY <1>3, <1>5 DEF ValidateMovementHistory, f, StartOf, MovementsOf

\* The validation of a slot's history, for each of its statuses.
LEMMA HistoryOf ==
  ASSUME RecordsInv, NEW r \in ReservationIDs, Present(reservations[r])
  PROVE  ValidateMovementHistory(r) <=>
           \A m \in movements : m.reservation = r /\ m.status = "cancelled" =>
             m.at >= reservations[r].starts - EntryLead
<1> DEFINE S == MovementsOf(r)
           status == reservations[r].status
           opens == reservations[r].starts - EntryLead
<1>1. TypeOK /\ MovementsMatchStatus /\ EntriesTimely
  BY DEF RecordsInv, TablesInv, MovementsInv
<1>2. /\ reservations[r] \in Reservations /\ opens \in Int
      /\ status \in {"confirmed", "entered", "exited", "cancelled"}
  BY <1>1, TimeAssumption
     DEF TypeOK, Present, NoRow, Reservations, SlotStatuses, RecordsInv, MovementsInv,
         SlotsConfirmed
<1>3. {m.status : m \in S} = CASE status = "exited" -> {"entered", "exited"}
                               [] status = "confirmed" -> {}
                               [] OTHER -> {status}
  BY <1>1 DEF MovementsMatchStatus, MovementsOf
<1>4. /\ S \subseteq Movements /\ \A m \in S : m \in movements /\ m.reservation = r
      /\ \A m, n \in S : m.status = n.status => m = n
      /\ \A m \in S : m.at \in Int
      /\ \A m \in S : m.status = "entered" => opens <= m.at
      /\ \A m, n \in S : m.status = "entered" /\ n.status = "exited" => m.at <= n.at
  BY <1>1 DEF MovementsOf, TypeOK, Movements, MovementsMatchStatus, EntriesTimely
<1>5. \A m \in movements : m.reservation = r => m \in S
  BY DEF MovementsOf
<1>6. StartOf(r).status = "confirmed" /\ StartOf(r).lastTime = opens
  BY DEF StartOf
<1>7. /\ <<"confirmed", "entered">> \in Follows /\ <<"confirmed", "cancelled">> \in Follows
      /\ <<"entered", "exited">> \in Follows
  BY DEF Follows
<1> HIDE DEF S, opens
<1>8. CASE status = "confirmed"
  <2>1. S = {}
    BY <1>3, <1>8
  <2> QED
    BY <1>1, <1>5, <1>8, <2>1, ReplayNone DEF S
<1>9. CASE status \in {"entered", "cancelled"}
  <2>1. {m.status : m \in S} = {status}
    BY <1>3, <1>9
  <2>2. PICK m \in S : m.status = status
    BY <2>1
  <2>3. S = {m}
    BY <1>4, <2>1, <2>2
  <2>4. ValidateMovementHistory(r) <=> Replay(StartOf(r), m).status = status
    BY <1>1, <2>3, ReplayOne DEF S
  <2>5. Replay(StartOf(r), m).status = IF m.at >= opens THEN status ELSE "error"
    BY <1>6, <1>7, <1>9, <2>2 DEF Replay
  <2> QED
    BY <1>4, <1>5, <1>9, <2>2, <2>3, <2>4, <2>5 DEF opens
<1>10. CASE status = "exited"
  <2>1. {m.status : m \in S} = {"entered", "exited"}
    BY <1>3, <1>10
  <2>2. PICK m \in S, n \in S : m.status = "entered" /\ n.status = "exited"
    BY <2>1
  <2>3. m # n /\ S = {m, n}
    BY <1>4, <2>1, <2>2
  <2>4. opens <= m.at /\ m.at <= n.at /\ m.at \in Int /\ n.at \in Int
    BY <1>4, <2>2
  <2>5. Before(m, n) /\ ~Before(n, m)
    BY <2>2, <2>4, RankOfEntry DEF Before
  <2>6. ValidateMovementHistory(r)
          <=> Replay(Replay(StartOf(r), m), n).status = status
    BY <1>1, <2>3, <2>5, ReplayTwo DEF S
  <2>7. Replay(StartOf(r), m) = [status |-> "entered", lastTime |-> m.at]
    BY <1>2, <1>6, <1>7, <2>2, <2>4 DEF Replay, opens
  <2>8. Replay([status |-> "entered", lastTime |-> m.at], n).status = "exited"
    BY <1>7, <2>2, <2>4 DEF Replay
  <2> QED
    BY <1>5, <1>10, <2>2, <2>3, <2>6, <2>7, <2>8
<1> QED
  BY <1>2, <1>8, <1>9, <1>10

\* passage.ValidateMovementHistory accepts what MovePassage recorded for a
\* slot, however the requests came, unless the slot was cancelled before a
\* vessel could have entered.
THEOREM HistoriesReplay == AtomicSpec => []HistoryReplays
<1>1. RecordsInv => HistoryReplays
  BY HistoryOf DEF HistoryReplays
<1> QED
  BY <1>1, RecordsInvAlways, PTL

-----------------------------------------------------------------------------
(***************************************************************************)
(* The timeline of a voyage.  The invariant lists the trail of a voyage:   *)
(* its events are one for each stage it has passed, in the order of the    *)
(* chain, and the row tells the last stage and how many there were.        *)
(***************************************************************************)
Stages == <<"declared", "held", "cleared", "scheduled">>

TrailIs(v, n, t) ==
  /\ Trail(v) = {t[k] : k \in 1 .. n}
  /\ \A k \in 1 .. n :
       t[k].id[1] \in DOMAIN StatusAfter /\ StatusAfter[t[k].id[1]] = Stages[k]
  /\ \A j, k \in 1 .. n : j < k => t[j].seq < t[k].seq
  /\ voyages[v].status = Stages[n] /\ voyages[v].version = n + 1
  /\ t[1].at = voyages[v].declaredAt
TrailOK(v) == \E n \in 1 .. 4 : \E t \in [1 .. n -> audit] : TrailIs(v, n, t)

TimelineInv ==
  /\ \A v \in VoyageIDs : Present(voyages[v]) => TrailOK(v)
  /\ \A e \in audit : e.at # ZeroTime

\* What an event that moves a voyage says of the rows.
LEMMA EventTells ==
  ASSUME RecordsInv, NEW e \in audit
  PROVE  /\ e.id[1] \in {"declare", "release"} =>
              /\ e.id[2] \in VoyageIDs /\ Present(voyages[e.id[2]])
              /\ e.tenant = voyages[e.id[2]].tenant
         /\ e.id[1] = "inspection-open" =>
              /\ e.id[2] \in InspectionIDs /\ Present(inspections[e.id[2]])
              /\ e.tenant = voyages[inspections[e.id[2]].voyage].tenant
         /\ e.id[1] = "reserve" =>
              /\ e.id[2] \in ReservationIDs /\ Present(reservations[e.id[2]])
              /\ e.tenant = reservations[e.id[2]].tenant
<1> DEFINE x == <<e.id, e.tenant>>
<1>1. x \in EventsDue /\ x[1] = e.id /\ x[2] = e.tenant
  BY DEF RecordsInv, AuditMatchesTables
<1>2. movements \subseteq Movements
  BY DEF RecordsInv, TablesInv, TypeOK
<1> HIDE DEF x
<1>3. x \in DeclareDue \cup ReleaseDue \cup OpenDue \cup ReserveDue \cup MoveDue
  BY <1>1 DEF EventsDue, DeclareDue, ReleaseDue, OpenDue, ReserveDue, MoveDue, Declared,
     Released, Opened, Reserved
<1>4. CASE x \in DeclareDue
  BY <1>1, <1>4 DEF DeclareDue, Declared
<1>5. CASE x \in ReleaseDue
  BY <1>1, <1>5 DEF ReleaseDue, Released, Present
<1>6. CASE x \in OpenDue
  BY <1>1, <1>6 DEF OpenDue, Opened
<1>7. CASE x \in ReserveDue
  BY <1>1, <1>7 DEF ReserveDue, Reserved
<1>8. CASE x \in MoveDue
  BY <1>1, <1>2, <1>8 DEF MoveDue, Movements, SlotStatuses
<1> QED
  BY <1>3, <1>4, <1>5, <1>6, <1>7, <1>8

\* The trail of a voyage is in the chain of its tenant.
LEMMA TrailOwned ==
  ASSUME RecordsInv, NEW v \in VoyageIDs, NEW e \in Trail(v)
  PROVE  e \in audit /\ Present(voyages[v]) /\ e.tenant = voyages[v].tenant
<1>1. e \in audit
  BY DEF Trail
<1>2. CASE e.id[1] \in {"declare", "release"} /\ e.id[2] = v
  BY <1>1, <1>2, EventTells
<1>3. CASE e.id[1] = "inspection-open" /\ inspections[e.id[2]].voyage = v
  <2>1. /\ e.id[2] \in InspectionsOf(v) /\ e.tenant = voyages[v].tenant
    BY <1>1, <1>3, EventTells DEF InspectionsOf
  <2> QED
    BY <1>1, <2>1 DEF RecordsInv, TablesInv, ReleaseGated, Present
<1>4. CASE e.id[1] = "reserve" /\ reservations[e.id[2]].voyage = v
  <2>1. /\ e.id[2] \in ReservationIDs /\ Present(reservations[e.id[2]])
        /\ e.tenant = reservations[e.id[2]].tenant
    BY <1>1, <1>4, EventTells
  <2> QED
    BY <1>1, <1>4, <2>1 DEF RecordsInv, TablesInv, OneBooking, Present
<1> QED
  BY <1>1, <1>2, <1>3, <1>4 DEF Trail

Newest(new, id, tenant, at) ==
  /\ audit' = audit \cup {new}
  /\ new.id = id /\ new.tenant = tenant /\ new.at = at /\ at # ZeroTime
  /\ \A e \in audit : e.tenant = tenant => e.seq < new.seq /\ e.at <= new.at

\* The event that a request appends is the last of its chain.
LEMMA AppendsLast ==
  ASSUME audit \subseteq Events, AuditChain, NEW tenant \in Tenants,
         NEW id \in EventIDs, NEW at \in Nat, Appends(id, tenant, at)
  PROVE  \E new \in Events : Newest(new, id, tenant, at)
<1>1. PICK previous \in LastEvent(tenant) :
        AppendOK(previous, tenant, at) /\ AppendAudit(previous, id, tenant, at)
  BY DEF Appends
<1> DEFINE new == AppendEvent(previous, id, tenant, at)
<1>2. new \in Events
  BY AppendType, LastEventIs
<1>3. audit' = audit \cup {new} /\ at # ZeroTime
  BY <1>1 DEF AppendAudit, AppendOK
<1>4. /\ new.id = id /\ new.tenant = tenant /\ new.at = at
      /\ new.seq = previous.seq + 1
  BY DEF AppendEvent
<1>5. ASSUME NEW e \in audit, e.tenant = tenant
      PROVE  e.seq < previous.seq + 1 /\ e.at <= at
  <2>1. /\ previous \in audit /\ previous.tenant = tenant
        /\ e.seq <= previous.seq
    BY <1>5, LastEventIs
  <2>2. /\ e.at \in Nat /\ previous.at \in Nat
        /\ e.seq \in Nat /\ previous.seq \in Nat
    BY <2>1 DEF Events
  <2>3. previous # NoEvent
    <3>1. previous.seq >= 1
      BY <2>1 DEF AuditChain, SequencesContiguous
    <3> QED
      BY <3>1 DEF NoEvent
  <2>4. e.at <= previous.at /\ previous.at <= at
    BY <1>1, <1>5, <2>1, <2>3 DEF AuditChain, TimesOrdered, AppendOK
  <2> QED
    BY <2>1, <2>2, <2>4
<1> HIDE DEF new
<1> QED
  BY <1>2, <1>3, <1>4, <1>5 DEF Newest

Moves(e, v) ==
  \/ e.id[1] \in {"declare", "release"} /\ e.id[2] = v
  \/ e.id[1] = "inspection-open" /\ inspections[e.id[2]].voyage = v
  \/ e.id[1] = "reserve" /\ reservations[e.id[2]].voyage = v

KeepsVoyages ==
  /\ \A i \in InspectionIDs : Present(inspections[i]) =>
       inspections'[i].voyage = inspections[i].voyage
  /\ \A r \in ReservationIDs : Present(reservations[r]) =>
       reservations'[r].voyage = reservations[r].voyage

\* No request moves an old event to another voyage.
LEMMA TrailGrows ==
  ASSUME RecordsInv, NEW new, audit' = audit \cup {new}, NEW v \in VoyageIDs,
         KeepsVoyages
  PROVE  Trail(v)' = Trail(v) \cup {e \in {new} : Moves(e, v)'}
<1>1. ASSUME NEW e \in audit
      PROVE  Moves(e, v)' <=> Moves(e, v)
  BY <1>1, EventTells DEF Moves, KeepsVoyages
<1>2. Trail(v) = {e \in audit : Moves(e, v)}
  BY DEF Trail, Moves
<1>3. Trail(v)' = {e \in audit' : Moves(e, v)'}
  BY DEF Trail, Moves
<1> QED
  BY <1>1, <1>2, <1>3

\* A request that does not move the voyage leaves its trail in order.
LEMMA TrailStays ==
  ASSUME NEW v \in VoyageIDs, TrailOK(v), audit \subseteq audit',
         Trail(v)' = Trail(v), voyages'[v] = voyages[v]
  PROVE  TrailOK(v)'
<1>1. PICK n \in 1 .. 4 : \E t \in [1 .. n -> audit] : TrailIs(v, n, t)
  BY DEF TrailOK
<1>2. PICK t \in [1 .. n -> audit] : TrailIs(v, n, t)
  BY <1>1
<1>3. t \in [1 .. n -> audit']
  OBVIOUS
<1>4. TrailIs(v, n, t)'
  BY <1>2 DEF TrailIs
<1> QED
  BY <1>3, <1>4 DEF TrailOK

\* A request that moves the voyage on appends the event of the next stage.
LEMMA TrailExtends ==
  ASSUME RecordsInv, NEW v \in VoyageIDs, TrailOK(v), NEW new \in Events,
         audit' = audit \cup {new}, Trail(v)' = Trail(v) \cup {new},
         \A e \in audit : e.tenant = voyages[v].tenant => e.seq < new.seq,
         NEW k \in 1 .. 3, voyages[v].status = Stages[k],
         new.id[1] \in DOMAIN StatusAfter, StatusAfter[new.id[1]] = Stages[k + 1],
         voyages'[v].status = Stages[k + 1],
         voyages'[v].version = voyages[v].version + 1,
         voyages'[v].declaredAt = voyages[v].declaredAt
  PROVE  TrailOK(v)'
<1>1. PICK n \in 1 .. 4 : \E t \in [1 .. n -> audit] : TrailIs(v, n, t)
  BY DEF TrailOK
<1>2. PICK t \in [1 .. n -> audit] : TrailIs(v, n, t)
  BY <1>1
<1>3. n = k
  BY <1>2 DEF TrailIs, Stages
<1> DEFINE u == [j \in 1 .. n + 1 |-> IF j = n + 1 THEN new ELSE t[j]]
<1>4. /\ u \in [1 .. n + 1 -> audit'] /\ n + 1 \in 1 .. 4
      /\ u[n + 1] = new /\ \A j \in 1 .. n : j \in 1 .. n + 1 /\ u[j] = t[j]
  BY <1>3
<1> HIDE DEF u
<1>5. \A j \in 1 .. n : t[j] \in Trail(v) /\ t[j].seq < new.seq
  BY <1>2, TrailOwned DEF TrailIs
<1>6. \A j \in 1 .. n + 1 : j \in 1 .. n \/ j = n + 1
  OBVIOUS
<1>7. Trail(v)' = {u[j] : j \in 1 .. n + 1}
  <2>1. Trail(v) = {t[j] : j \in 1 .. n}
    BY <1>2 DEF TrailIs
  <2> QED
    BY <1>4, <1>6, <2>1
<1>8. \A j \in 1 .. n + 1 :
        u[j].id[1] \in DOMAIN StatusAfter /\ StatusAfter[u[j].id[1]] = Stages[j]
  BY <1>2, <1>3, <1>4, <1>6 DEF TrailIs
<1>9. ASSUME NEW i \in 1 .. n + 1, NEW j \in 1 .. n + 1, i < j
      PROVE  u[i].seq < u[j].seq
  <2>1. i \in 1 .. n
    BY <1>9
  <2>2. CASE j = n + 1
    BY <1>4, <1>5, <2>1, <2>2
  <2>3. CASE j \in 1 .. n
    <3>1. t[i].seq < t[j].seq
      BY <1>2, <1>9, <2>1, <2>3 DEF TrailIs
    <3> QED
      BY <1>4, <2>1, <2>3, <3>1
  <2> QED
    BY <1>6, <2>2, <2>3
<1>10. /\ voyages'[v].status = Stages[n + 1] /\ voyages'[v].version = n + 1 + 1
       /\ u[1].at = voyages'[v].declaredAt
  BY <1>2, <1>3, <1>4 DEF TrailIs
<1>11. TrailIs(v, n + 1, u)'
  BY <1>7, <1>8, <1>9, <1>10 DEF TrailIs
<1> QED
  BY <1>4, <1>11 DEF TrailOK

\* A declaration begins the trail.
LEMMA TrailBegins ==
  ASSUME RecordsInv, NEW v \in VoyageIDs, ~Present(voyages[v]), NEW new \in Events,
         audit' = audit \cup {new}, Trail(v)' = Trail(v) \cup {new},
         new.id[1] = "declare", voyages'[v].status = "declared",
         voyages'[v].version = 2, voyages'[v].declaredAt = new.at
  PROVE  TrailOK(v)'
<1>1. Trail(v) = {}
  BY TrailOwned
<1> DEFINE u == [j \in 1 .. 1 |-> new]
<1>2. u \in [1 .. 1 -> audit'] /\ u[1] = new /\ 1 \in 1 .. 4 /\ 1 .. 1 = {1}
  OBVIOUS
<1> HIDE DEF u
<1>3. Trail(v)' = {u[j] : j \in 1 .. 1}
  BY <1>1, <1>2
<1>4. \A j \in 1 .. 1 :
        u[j].id[1] \in DOMAIN StatusAfter /\ StatusAfter[u[j].id[1]] = Stages[j]
  BY <1>2 DEF StatusAfter, Stages
<1>5. TrailIs(v, 1, u)'
  BY <1>2, <1>3, <1>4 DEF TrailIs, Stages
<1> QED
  BY <1>2, <1>5 DEF TrailOK

MovesOnly(new, W) ==
  \A w \in VoyageIDs :
    /\ Moves(new, w)' <=> w \in W
    /\ w \in W => (Trail(w)' = Trail(w) \cup {new} => TrailOK(w)')
    /\ w \notin W => voyages'[w] = voyages[w]

\* A request whose event moves the voyages of W, one or none.
LEMMA TrailsStep ==
  ASSUME RecordsInv, TimelineInv, NEW new \in Events, audit' = audit \cup {new},
         KeepsVoyages, NEW W, MovesOnly(new, W), new.at # ZeroTime
  PROVE  TimelineInv'
<1>1. ASSUME NEW w \in VoyageIDs, Present(voyages'[w])
      PROVE  TrailOK(w)'
  <2>1. Trail(w)' = Trail(w) \cup {e \in {new} : Moves(e, w)'}
    BY TrailGrows
  <2>2. CASE w \in W
    <3>1. Trail(w)' = Trail(w) \cup {new}
      BY <2>1, <2>2 DEF MovesOnly
    <3> QED
      BY <2>2, <3>1 DEF MovesOnly
  <2>3. CASE w \notin W
    <3>1. Trail(w)' = Trail(w) /\ voyages'[w] = voyages[w]
      BY <2>1, <2>3 DEF MovesOnly
    <3>2. TrailOK(w)
      BY <1>1, <3>1 DEF TimelineInv
    <3> QED
      BY <3>1, <3>2, TrailStays
  <2> QED
    BY <2>2, <2>3
<1>2. \A e \in audit' : e.at # ZeroTime
  BY DEF TimelineInv
<1> QED
  BY <1>1, <1>2 DEF TimelineInv, Present

LEMMA TimelineInvStep ==
  ASSUME RecordsInv, TimelineInv, [AtomicNext]_tables
  PROVE  TimelineInv'
<1>1. /\ TypeOK /\ audit \subseteq Events /\ AuditChain /\ ReleaseGated
  BY DEF RecordsInv, TablesInv, TypeOK
<1>2. CASE UNCHANGED tables
  BY <1>2 DEF tables, TimelineInv, TrailOK, TrailIs, Trail, Present
<1>3. CASE AtomicNext
  <2>1. PICK user \in Users, at \in Nat : RequestOf(user, at)
    BY <1>3, AtomicCases
  <2>2. user.tenant \in Tenants
    BY DEF Users
  <2>3. \A v \in VoyageIDs : Present(voyages[v]) => TrailOK(v)
    BY DEF TimelineInv
  <2>4. ASSUME NEW v \in VoyageIDs, DeclareVoyage(user, v, at)
        PROVE  TimelineInv'
    <3>1. PICK new \in Events : Newest(new, <<"declare", v>>, user.tenant, at)
      <4>1. Appends(<<"declare", v>>, user.tenant, at) /\ <<"declare", v>> \in EventIDs
        BY <2>4, RequestAppends, EventIDsOf
      <4> QED
        BY <1>1, <2>2, <4>1, AppendsLast
    <3>2. /\ voyages[v].status = "absent"
          /\ voyages'[v].status = "declared"
          /\ voyages'[v].declaredAt = at /\ voyages'[v].version = 2
          /\ \A w \in VoyageIDs \ {v} : voyages'[w] = voyages[w]
          /\ UNCHANGED <<inspections, reservations>>
      BY <1>1, <2>4, DeclareEffect
    <3>3. \A w \in VoyageIDs : Moves(new, w)' <=> w \in {v}
      BY <3>1 DEF Newest, Moves
    <3>4. Trail(v)' = Trail(v) \cup {new} => TrailOK(v)'
      BY <3>1, <3>2, TrailBegins DEF Newest, Present
    <3>10. KeepsVoyages
      BY <3>2, <3>4 DEF KeepsVoyages
    <3>11. MovesOnly(new, {v})
      BY <3>2, <3>3, <3>4 DEF MovesOnly
    <3> QED
      BY <3>1, <3>10, <3>11, TrailsStep DEF Newest
  <2>5. ASSUME NEW v \in VoyageIDs, NEW i \in InspectionIDs, NEW kind \in Kinds,
               OpenInspection(user, v, i, kind, at)
        PROVE  TimelineInv'
    <3>1. PICK new \in Events : Newest(new, <<"inspection-open", i>>, user.tenant, at)
      <4>1. Appends(<<"inspection-open", i>>, user.tenant, at) /\ <<"inspection-open", i>> \in EventIDs
        BY <2>5, RequestAppends, EventIDsOf
      <4> QED
        BY <1>1, <2>2, <4>1, AppendsLast
    <3>2. /\ voyages[v].status = "declared" /\ voyages[v].tenant = user.tenant
          /\ inspections[i].status = "absent"
          /\ voyages'[v].status = "held"
          /\ voyages'[v].declaredAt = voyages[v].declaredAt
          /\ voyages'[v].version = voyages[v].version + 1
          /\ inspections'[i].voyage = v
          /\ \A w \in VoyageIDs \ {v} : voyages'[w] = voyages[w]
          /\ \A j \in InspectionIDs \ {i} : inspections'[j] = inspections[j]
          /\ UNCHANGED reservations
      BY <1>1, <2>5, OpenEffect
    <3>3. \A w \in VoyageIDs : Moves(new, w)' <=> w \in {v}
      BY <3>1, <3>2 DEF Newest, Moves
    <3>4. \A j \in InspectionIDs : Present(inspections[j]) =>
            inspections'[j].voyage = inspections[j].voyage
      BY <3>2 DEF Present
    <3>5. TrailOK(v)
      BY <2>3, <3>2 DEF Present
    <3>6. /\ new.id[1] \in DOMAIN StatusAfter /\ StatusAfter[new.id[1]] = Stages[1 + 1]
          /\ Stages[1] = "declared" /\ Stages[1 + 1] = "held"
      BY <3>1 DEF Newest, StatusAfter, Stages
    <3>7. Trail(v)' = Trail(v) \cup {new} => TrailOK(v)'
      BY <3>1, <3>2, <3>5, <3>6, TrailExtends DEF Newest
    <3>10. KeepsVoyages
      BY <3>2, <3>4 DEF KeepsVoyages
    <3>11. MovesOnly(new, {v})
      BY <3>2, <3>3, <3>4, <3>7 DEF MovesOnly
    <3> QED
      BY <3>1, <3>10, <3>11, TrailsStep DEF Newest
  <2>6. ASSUME NEW v \in VoyageIDs, NEW i \in InspectionIDs,
               PassInspectionAndRelease(user, v, i, at)
        PROVE  TimelineInv'
    <3>1. PICK new \in Events : Newest(new, <<"release", v>>, user.tenant, at)
      <4>1. Appends(<<"release", v>>, user.tenant, at) /\ <<"release", v>> \in EventIDs
        BY <2>6, RequestAppends, EventIDsOf
      <4> QED
        BY <1>1, <2>2, <4>1, AppendsLast
    <3>2. /\ voyages[v].status \in {"declared", "held"}
          /\ voyages[v].tenant = user.tenant
          /\ inspections[i].status = "open" /\ inspections[i].voyage = v
          /\ voyages'[v].status = "cleared"
          /\ voyages'[v].declaredAt = voyages[v].declaredAt
          /\ voyages'[v].version = voyages[v].version + 1
          /\ inspections'[i].voyage = v
          /\ \A w \in VoyageIDs \ {v} : voyages'[w] = voyages[w]
          /\ \A j \in InspectionIDs \ {i} : inspections'[j] = inspections[j]
          /\ UNCHANGED reservations
      BY <1>1, <2>6, ReleaseEffect
    <3>3. \A w \in VoyageIDs : Moves(new, w)' <=> w \in {v}
      BY <3>1, <3>2 DEF Newest, Moves
    <3>4. \A j \in InspectionIDs : Present(inspections[j]) =>
            inspections'[j].voyage = inspections[j].voyage
      BY <3>2 DEF Present
    <3>5. TrailOK(v)
      BY <2>3, <3>2 DEF Present
    <3>6. /\ new.id[1] \in DOMAIN StatusAfter /\ StatusAfter[new.id[1]] = Stages[2 + 1]
          /\ Stages[2] = "held" /\ Stages[2 + 1] = "cleared"
      BY <3>1 DEF Newest, StatusAfter, Stages
    <3>7. voyages[v].status = "held"
      <4>1. i \in InspectionsOf(v)
        BY <3>2 DEF InspectionsOf, Present
      <4> QED
        BY <1>1, <3>2, <4>1 DEF ReleaseGated
    <3>8. Trail(v)' = Trail(v) \cup {new} => TrailOK(v)'
      BY <3>1, <3>2, <3>5, <3>6, <3>7, TrailExtends DEF Newest
    <3>10. KeepsVoyages
      BY <3>2, <3>4 DEF KeepsVoyages
    <3>11. MovesOnly(new, {v})
      BY <3>2, <3>3, <3>4, <3>8 DEF MovesOnly
    <3> QED
      BY <3>1, <3>10, <3>11, TrailsStep DEF Newest
  <2>7. ASSUME NEW v \in VoyageIDs, NEW r \in ReservationIDs, NEW chamber \in Chambers,
               NEW starts \in Nat, NEW ends \in Nat,
               ReservePassage(user, v, r, chamber, starts, ends, at)
        PROVE  TimelineInv'
    <3>1. PICK new \in Events : Newest(new, <<"reserve", r>>, user.tenant, at)
      <4>1. Appends(<<"reserve", r>>, user.tenant, at) /\ <<"reserve", r>> \in EventIDs
        BY <2>7, RequestAppends, EventIDsOf
      <4> QED
        BY <1>1, <2>2, <4>1, AppendsLast
    <3>2. /\ voyages[v].status = "cleared" /\ voyages[v].tenant = user.tenant
          /\ reservations[r].status = "absent"
          /\ voyages'[v].status = "scheduled"
          /\ voyages'[v].declaredAt = voyages[v].declaredAt
          /\ voyages'[v].version = voyages[v].version + 1
          /\ reservations'[r].voyage = v
          /\ \A w \in VoyageIDs \ {v} : voyages'[w] = voyages[w]
          /\ \A s \in ReservationIDs \ {r} : reservations'[s] = reservations[s]
          /\ UNCHANGED inspections
      BY <1>1, <2>7, ReserveEffect
    <3>3. \A w \in VoyageIDs : Moves(new, w)' <=> w \in {v}
      BY <3>1, <3>2 DEF Newest, Moves
    <3>4. \A s \in ReservationIDs : Present(reservations[s]) =>
            reservations'[s].voyage = reservations[s].voyage
      BY <3>2 DEF Present
    <3>5. TrailOK(v)
      BY <2>3, <3>2 DEF Present
    <3>6. /\ new.id[1] \in DOMAIN StatusAfter /\ StatusAfter[new.id[1]] = Stages[3 + 1]
          /\ Stages[3] = "cleared" /\ Stages[3 + 1] = "scheduled"
      BY <3>1 DEF Newest, StatusAfter, Stages
    <3>7. Trail(v)' = Trail(v) \cup {new} => TrailOK(v)'
      BY <3>1, <3>2, <3>5, <3>6, TrailExtends DEF Newest
    <3>10. KeepsVoyages
      BY <3>2, <3>4 DEF KeepsVoyages
    <3>11. MovesOnly(new, {v})
      BY <3>2, <3>3, <3>4, <3>7 DEF MovesOnly
    <3> QED
      BY <3>1, <3>10, <3>11, TrailsStep DEF Newest
  <2>8. ASSUME NEW r \in ReservationIDs, NEW next \in SlotStatuses,
               MovePassage(user, r, next, at)
        PROVE  TimelineInv'
    <3>1. PICK new \in Events : Newest(new, <<next, r>>, user.tenant, at)
      <4>1. Appends(<<next, r>>, user.tenant, at) /\ <<next, r>> \in EventIDs
        BY <2>8, RequestAppends, EventIDsOf
      <4> QED
        BY <1>1, <2>2, <4>1, AppendsLast
    <3>2. /\ reservations'[r].voyage = reservations[r].voyage
          /\ \A s \in ReservationIDs \ {r} : reservations'[s] = reservations[s]
          /\ UNCHANGED <<voyages, inspections>>
      BY <1>1, <2>8, MoveEffect
    <3>3. \A w \in VoyageIDs : Moves(new, w)' <=> w \in {}
      BY <3>1 DEF Newest, Moves, SlotStatuses
    <3>4. \A s \in ReservationIDs : reservations'[s].voyage = reservations[s].voyage
      BY <3>2
    <3>10. KeepsVoyages
      BY <3>2, <3>4 DEF KeepsVoyages
    <3>11. MovesOnly(new, {})
      BY <3>2, <3>3, <3>4 DEF MovesOnly
    <3> QED
      BY <3>1, <3>10, <3>11, TrailsStep DEF Newest
  <2> QED
    BY <2>1, <2>4, <2>5, <2>6, <2>7, <2>8 DEF RequestOf
<1> QED
  BY <1>2, <1>3

LEMMA TimelineInvAlways == AtomicSpec => []TimelineInv
<1>1. AtomicInit => TimelineInv
  BY DEF AtomicInit, TimelineInv, Present, NoRow
<1> QED
  BY <1>1, TimelineInvStep, RecordsInvAlways, PTL DEF AtomicSpec

TimelineStates == [current : VoyageStatuses \cup {"error"}, version : Nat, at : Nat]
TimelineEvents == [status : VoyageStatuses, version : Nat, at : Nat]
AppendsInTurn(h, seq, n) ==
  \A k \in 1 .. n : h[k] = AppendTimeline(h[k - 1], seq[k])

\* A replay that comes to h[k] after k events comes to h[n] in the end.
LEMMA TimelineFold ==
  ASSUME NEW n \in Nat, NEW start \in TimelineStates,
         NEW seq \in [1 .. n -> TimelineEvents], NEW h, h[0] = start,
         AppendsInTurn(h, seq, n)
  PROVE  FoldLeft(AppendTimeline, start, seq) = h[n]
<1> DEFINE Op == [p \in TimelineStates \X TimelineEvents |-> AppendTimeline(p[1], p[2])]
           Solves(g) == g = [s \in SUBSET DOMAIN seq |->
                               IF s = {} THEN start
                               ELSE AppendTimeline(g[s \ {Max(s)}], seq[Max(s)])]
           g == CHOOSE f : Solves(f)
<1>1. ASSUME NEW a \in TimelineStates, NEW e \in TimelineEvents
      PROVE  AppendTimeline(a, e) \in TimelineStates /\ Op[<<a, e>>] = AppendTimeline(a, e)
  <2>1. /\ e.at \in Nat /\ e.status \in VoyageStatuses /\ a.version \in Nat
        /\ a.version + 1 \in Nat
    BY DEF TimelineEvents, TimelineStates
  <2>2. AppendTimeline(a, e) \in TimelineStates
    BY <2>1 DEF AppendTimeline, TimelineStates
  <2> QED
    BY <2>2
<1>2. Op \in [TimelineStates \X TimelineEvents -> TimelineStates]
  BY <1>1
<1> HIDE DEF Op
<1>3. PICK f \in [SUBSET (1 .. n) -> TimelineStates] :
        /\ f[{}] = start
        /\ \A s \in SUBSET (1 .. n) :
             s # {} => f[s] = Op[<<f[s \ {Max(s)}], seq[Max(s)]>>]
  <2>1. FoldSolved(n, TimelineStates, start, seq, Op)
    BY <1>2, FoldExists
  <2> QED
    BY <2>1 DEF FoldSolved
<1>4. ASSUME NEW s \in SUBSET (1 .. n), s # {}
      PROVE  f[s] = AppendTimeline(f[s \ {Max(s)}], seq[Max(s)])
  <2>1. Max(s) \in s
    BY <1>4, MaxOfPlaces
  <2>2. seq[Max(s)] \in TimelineEvents /\ f[s \ {Max(s)}] \in TimelineStates
    BY <2>1
  <2> QED
    BY <1>1, <1>3, <1>4, <2>2
<1>5. Solves(f)
  <2>1. DOMAIN seq = 1 .. n
    OBVIOUS
  <2> QED
    BY <1>3, <1>4, <2>1
<1>6. Solves(g)
  BY <1>5
<1>7. FoldLeft(AppendTimeline, start, seq) = g[1 .. n]
  BY DEF FoldLeft, MapThenFoldSet
<1> HIDE DEF g
<1>8. g[{}] = h[0]
  BY <1>6
<1>9. ASSUME NEW k \in 1 .. n, g[1 .. k - 1] = h[k - 1]
      PROVE  g[1 .. k] = h[k]
  <2>1. 1 .. k \in SUBSET (1 .. n)
    OBVIOUS
  <2>2. 1 .. k # {} /\ Max(1 .. k) = k /\ (1 .. k) \ {k} = 1 .. k - 1
    <3>1. k \in Nat \ {0}
      OBVIOUS
    <3> QED
      BY <3>1, LastPlace
  <2>3. g[1 .. k] = AppendTimeline(g[1 .. k - 1], seq[k])
    BY <1>6, <2>1, <2>2
  <2> QED
    BY <1>9, <2>3 DEF AppendsInTurn
<1>10. g[1 .. n] = h[n]
  BY <1>8, <1>9, FoldPrefix
<1> QED
  BY <1>7, <1>10

EventOf(v, t, m) ==
  IF m = 1 THEN [status |-> "draft", version |-> 1, at |-> voyages[v].declaredAt]
  ELSE [status |-> Stages[m - 1], version |-> m, at |-> t[m - 1].at]

\* The events that are read off the trail, numbered along it.
LEMMA EventsNumbered ==
  ASSUME NEW v \in VoyageIDs, NEW n \in 1 .. 4, NEW t \in [1 .. n -> audit],
         audit \subseteq Events, TrailIs(v, n, t)
  PROVE  VoyageEvents(v) = {EventOf(v, t, m) : m \in 1 .. n + 1}
<1>1. \A k \in 1 .. n : t[k].seq \in Nat
  BY DEF Events
<1> DEFINE R == {p \in audit \X audit : p[1].seq < p[2].seq}
<1>2. InListOrder(t, n, R)
  <2>1. \A i, j \in 1 .. n : <<t[i], t[j]>> \in R <=> t[i].seq < t[j].seq
    OBVIOUS
  <2> HIDE DEF R
  <2> QED
    BY <1>1, <2>1 DEF TrailIs, InListOrder
<1>3. Trail(v) = MembersOf(t, n)
  BY DEF TrailIs, MembersOf
<1>4. ASSUME NEW k \in 1 .. n
      PROVE  Cardinality({f \in Trail(v) : f.seq <= t[k].seq}) = k
  <2>1. k \in Nat /\ \A i \in 1 .. k : i \in 1 .. n
    OBVIOUS
  <2>2. \A j \in 1 .. n : t[j].seq <= t[k].seq <=> j <= k
    BY <1>1 DEF TrailIs
  <2>3. {f \in Trail(v) : f.seq <= t[k].seq} = MembersOf(t, k)
    BY <1>3, <2>2 DEF MembersOf
  <2>4. Distinct(t, k)
    BY <1>1, <2>1 DEF TrailIs, Distinct
  <2> QED
    BY <2>1, <2>3, <2>4, ListCard
<1>5. ASSUME NEW k \in 1 .. n
      PROVE  [status |-> StatusAfter[t[k].id[1]], at |-> t[k].at,
              version |-> 1 + Cardinality({f \in Trail(v) : f.seq <= t[k].seq})]
             = EventOf(v, t, k + 1)
  BY <1>4 DEF EventOf, TrailIs
<1>6. \A m \in 1 .. n + 1 : m = 1 \/ \E k \in 1 .. n : m = k + 1
  <2> SUFFICES ASSUME NEW m \in 1 .. n + 1, m # 1 PROVE m - 1 \in 1 .. n /\ m = (m - 1) + 1
    OBVIOUS
  <2> QED
    OBVIOUS
<1>7. \A k \in 1 .. n : k + 1 \in 1 .. n + 1
  OBVIOUS
<1>8. EventOf(v, t, 1) = [status |-> "draft", version |-> 1, at |-> voyages[v].declaredAt]
  BY DEF EventOf
<1>9. VoyageEvents(v) = {EventOf(v, t, 1)} \cup {EventOf(v, t, k + 1) : k \in 1 .. n}
  <2> DEFINE ReadOff(e) ==
               [status |-> StatusAfter[e.id[1]], at |-> e.at,
                version |-> 1 + Cardinality({f \in Trail(v) : f.seq <= e.seq})]
  <2>1. VoyageEvents(v) = {EventOf(v, t, 1)} \cup {ReadOff(e) : e \in Trail(v)}
    BY <1>8 DEF VoyageEvents
  <2>2. \A k \in 1 .. n : ReadOff(t[k]) = EventOf(v, t, k + 1)
    BY <1>5
  <2> HIDE DEF ReadOff
  <2> QED
    BY <1>3, <2>1, <2>2 DEF MembersOf
<1>10. 1 \in 1 .. n + 1
  OBVIOUS
<1> QED
  BY <1>6, <1>7, <1>9, <1>10


\* They are replayed in the order of the trail.
LEMMA EventsOrdered ==
  ASSUME NEW v \in VoyageIDs, NEW n \in 1 .. 4, NEW t \in [1 .. n -> audit],
         audit \subseteq Events, TrailIs(v, n, t)
  PROVE  Ordered(VoyageEvents(v), LAMBDA e, f : e.version < f.version)
           = [m \in 1 .. n + 1 |-> EventOf(v, t, m)]
<1> DEFINE s == [m \in 1 .. n + 1 |-> EventOf(v, t, m)]
           E == VoyageEvents(v)
           R == {p \in E \X E : p[1].version < p[2].version}
<1>1. E = MembersOf(s, n + 1)
  <2>1. E = {EventOf(v, t, m) : m \in 1 .. n + 1}
    BY EventsNumbered
  <2>2. \A m \in 1 .. n + 1 : s[m] = EventOf(v, t, m)
    OBVIOUS
  <2> HIDE DEF s, E
  <2> QED
    BY <2>1, <2>2 DEF MembersOf
<1>2. \A m \in 1 .. n + 1 : s[m].version = m /\ s[m] \in E
  <2>1. \A m \in 1 .. n + 1 : s[m].version = m
    BY DEF EventOf
  <2> HIDE DEF s, E
  <2> QED
    BY <1>1, <2>1 DEF MembersOf
<1>3. n + 1 \in Nat /\ DOMAIN s = 1 .. n + 1
  OBVIOUS
<1> HIDE DEF s, E
<1>4. \A x, y \in E : <<x, y>> \in R <=> x.version < y.version
  OBVIOUS
<1> HIDE DEF R
<1>5. InListOrder(s, n + 1, R)
  BY <1>2, <1>4 DEF InListOrder
<1>6. /\ Cardinality(E) = n + 1
      /\ \A j, k \in 1 .. n + 1 :
           Cardinality({y \in E : <<y, s[j]>> \in R}) = k - 1 <=> j = k
  BY <1>1, <1>3, <1>5, ListPlaces
<1>7. \A x \in E : {y \in E : <<y, x>> \in R} = {y \in E : y.version < x.version}
  BY <1>4
<1>8. ASSUME NEW k \in 1 .. n + 1
      PROVE  s[k] = CHOOSE x \in E : Cardinality({y \in E : y.version < x.version}) = k - 1
  <2>1. Cardinality({y \in E : y.version < s[k].version}) = k - 1
    BY <1>2, <1>6, <1>7
  <2>2. ASSUME NEW x \in E, Cardinality({y \in E : y.version < x.version}) = k - 1
        PROVE  x = s[k]
    <3>1. PICK j \in 1 .. n + 1 : x = s[j]
      BY <1>1 DEF MembersOf
    <3> QED
      BY <1>6, <1>7, <2>2, <3>1
  <2> QED
    BY <1>2, <2>1, <2>2
<1>9. Ordered(E, LAMBDA e, f : e.version < f.version) = s
  <2>1. Ordered(E, LAMBDA e, f : e.version < f.version)
          = [k \in 1 .. n + 1 |->
               CHOOSE x \in E : Cardinality({y \in E : y.version < x.version}) = k - 1]
    BY <1>6 DEF Ordered
  <2>2. s = [k \in 1 .. n + 1 |-> s[k]]
    BY DEF s
  <2> QED
    BY <1>8, <2>1, <2>2
<1> QED
  BY <1>9 DEF s, E


StandsAt(v, t, k) ==
  [current |-> IF k = 0 THEN "draft" ELSE Stages[k], version |-> k + 1,
   at |-> IF k = 0 THEN voyages[v].declaredAt ELSE t[k].at]

\* Replayed, the events end where the row stands.
LEMMA TimelineEnds ==
  ASSUME RecordsInv, TimelineInv, NEW v \in VoyageIDs, NEW n \in 1 .. 4,
         NEW t \in [1 .. n -> audit], TrailIs(v, n, t)
  PROVE  ReconstructTimeline(VoyageEvents(v)) = StandsAt(v, t, n)
<1> DEFINE s == [m \in 1 .. n + 1 |-> EventOf(v, t, m)]
           u == [k \in 1 .. n |-> EventOf(v, t, k + 1)]
           h == [k \in 0 .. n |-> StandsAt(v, t, k)]
<1>1. audit \subseteq Events /\ TimesOrdered
  BY DEF RecordsInv, TablesInv, TypeOK, AuditChain
<1>2. \A k \in 1 .. n : t[k].at \in Nat /\ t[k].at # ZeroTime /\ t[k].tenant = voyages[v].tenant
  <2>1. \A k \in 1 .. n : t[k] \in Trail(v)
    BY DEF TrailIs
  <2> QED
    BY <1>1, <2>1, TrailOwned DEF Events, TimelineInv
<1>3. \A k \in 1 .. n : k > 1 => t[k - 1].at <= t[k].at
  <2> SUFFICES ASSUME NEW k \in 1 .. n, k > 1 PROVE t[k - 1].at <= t[k].at
    OBVIOUS
  <2>1. k - 1 \in 1 .. n /\ t[k - 1].seq < t[k].seq
    BY DEF TrailIs
  <2>2. t[k - 1].seq <= t[k].seq
    BY <1>1, <2>1 DEF Events
  <2> QED
    BY <1>1, <1>2, <2>1, <2>2 DEF TimesOrdered
<1>4. voyages[v].declaredAt = t[1].at /\ 1 \in 1 .. n
  BY DEF TrailIs
<1>5. \A k \in 1 .. n : Stages[k] \in VoyageStatuses
  BY DEF Stages, VoyageStatuses
<1>6. u \in [1 .. n -> TimelineEvents]
  <2> SUFFICES ASSUME NEW k \in 1 .. n PROVE EventOf(v, t, k + 1) \in TimelineEvents
    OBVIOUS
  <2> QED
    BY <1>2, <1>5 DEF EventOf, TimelineEvents
<1>7. StandsAt(v, t, 0) \in TimelineStates
  BY <1>2, <1>4 DEF StandsAt, TimelineStates, VoyageStatuses
<1>8. ASSUME NEW k \in 1 .. n
      PROVE  StandsAt(v, t, k) = AppendTimeline(StandsAt(v, t, k - 1), EventOf(v, t, k + 1))
  <2>1. EventOf(v, t, k + 1) = [status |-> Stages[k], version |-> k + 1, at |-> t[k].at]
    BY DEF EventOf
  <2>2. StandsAt(v, t, k) = [current |-> Stages[k], version |-> k + 1, at |-> t[k].at]
    BY DEF StandsAt
  <2>3. CASE k = 1
    <3>1. StandsAt(v, t, k - 1) = [current |-> "draft", version |-> 1, at |-> t[1].at]
      BY <1>4, <2>3 DEF StandsAt
    <3>2. TransitionOK([status |-> "draft"], Stages[1], t[1].at)
      BY <1>2, <1>4 DEF TransitionOK, Allowed, Stages
    <3> QED
      BY <1>2, <2>1, <2>2, <2>3, <3>1, <3>2 DEF AppendTimeline
  <2>4. CASE k > 1
    <3>1. StandsAt(v, t, k - 1)
            = [current |-> Stages[k - 1], version |-> k, at |-> t[k - 1].at]
      BY <2>4 DEF StandsAt
    <3>2. TransitionOK([status |-> Stages[k - 1]], Stages[k], t[k].at)
      BY <1>2, <2>4 DEF TransitionOK, Allowed, Stages
    <3>3. k - 1 \in 1 .. n /\ t[k].at >= t[k - 1].at
      BY <1>2, <1>3, <2>4
    <3> QED
      BY <2>1, <2>2, <3>1, <3>2, <3>3 DEF AppendTimeline
  <2> QED
    BY <2>3, <2>4
<1>9. AppendsInTurn(h, u, n) /\ h[0] = StandsAt(v, t, 0) /\ h[n] = StandsAt(v, t, n)
  <2>1. /\ \A k \in 1 .. n : h[k] = StandsAt(v, t, k) /\ h[k - 1] = StandsAt(v, t, k - 1)
                             /\ u[k] = EventOf(v, t, k + 1)
        /\ h[0] = StandsAt(v, t, 0) /\ h[n] = StandsAt(v, t, n)
    OBVIOUS
  <2> HIDE DEF h, u
  <2> QED
    BY <1>8, <2>1 DEF AppendsInTurn
<1>10. s[1] = [status |-> "draft", version |-> 1, at |-> voyages[v].declaredAt]
  BY DEF EventOf
<1>11. Tail(s) = u
  OBVIOUS
<1>12. Ordered(VoyageEvents(v), LAMBDA e, f : e.version < f.version) = s
  BY <1>1, EventsOrdered
<1> HIDE DEF s, u, h
<1>13. FoldLeft(AppendTimeline, StandsAt(v, t, 0), u) = StandsAt(v, t, n)
  BY <1>6, <1>7, <1>9, TimelineFold
<1>14. [current |-> IF s[1].version = 1 /\ s[1].status = "draft" THEN "draft" ELSE "error",
        version |-> 1, at |-> s[1].at] = StandsAt(v, t, 0)
  BY <1>10 DEF StandsAt
<1> QED
  BY <1>11, <1>12, <1>13, <1>14 DEF ReconstructTimeline

\* clearance.ReconstructTimeline ends in the row of the voyage, whatever the
\* requests and whatever their times: the audit trail tells every move.
THEOREM TimelinesReplay == AtomicSpec => []TimelineReplays
<1>1. ASSUME RecordsInv, TimelineInv
      PROVE  TimelineReplays
  <2> SUFFICES ASSUME NEW v \in VoyageIDs, Present(voyages[v])
               PROVE  LET timeline == ReconstructTimeline(VoyageEvents(v)) IN
                      /\ timeline.current = voyages[v].status
                      /\ timeline.version = voyages[v].version
    BY DEF TimelineReplays
  <2>1. PICK n \in 1 .. 4 : \E t \in [1 .. n -> audit] : TrailIs(v, n, t)
    BY <1>1 DEF TimelineInv, TrailOK
  <2>2. PICK t \in [1 .. n -> audit] : TrailIs(v, n, t)
    BY <2>1
  <2>3. ReconstructTimeline(VoyageEvents(v)) = StandsAt(v, t, n)
    BY <1>1, <2>2, TimelineEnds
  <2> QED
    BY <2>2, <2>3 DEF StandsAt, TrailIs
<1> QED
  BY <1>1, RecordsInvAlways, TimelineInvAlways, PTL


-----------------------------------------------------------------------------
(***************************************************************************)
(* Readers while others write.  What they need of the tables.              *)
(***************************************************************************)
TablesRead == RecordsInv /\ IsFiniteSet(audit)

\* What a request appends to the audit trail.
LEMMA AuditGrows ==
  ASSUME RecordsInv, AtomicNext
  PROVE  \E new \in Events : Newest(new, new.id, new.tenant, new.at)
<1>1. /\ TypeOK /\ audit \subseteq Events /\ AuditChain
  BY DEF RecordsInv, TablesInv, TypeOK
<1>2. PICK user \in Users, at \in Nat : RequestOf(user, at)
  BY AtomicCases
<1>3. user.tenant \in Tenants
  BY DEF Users
<1>4. \E id \in EventIDs : Appends(id, user.tenant, at)
  BY <1>2, RequestAppends, EventIDsOf DEF RequestOf
<1>5. PICK id \in EventIDs : Appends(id, user.tenant, at)
  BY <1>4
<1>6. PICK new \in Events : Newest(new, id, user.tenant, at)
  BY <1>1, <1>3, <1>5, AppendsLast
<1> QED
  BY <1>6 DEF Newest

\* A step of the readers is a request or leaves the tables alone.
LEMMA ReaderTables ==
  ASSUME [ReaderNext]_readerVars
  PROVE  [AtomicNext]_tables
BY DEF ReaderNext, Request, FirstPage, NextPage, FindVoyage, ListInspections,
   ListReservationsOf, VerifyAuditChain, readerVars

LEMMA TablesReadAlways == ReaderSpec => []TablesRead
<1>1. ReaderInit => TablesRead
  <2> SUFFICES ASSUME AtomicInit PROVE TablesRead
    BY DEF ReaderInit
  <2>1. audit = {}
    BY DEF AtomicInit
  <2> QED
    BY <2>1, RecordsInvInit, FS_EmptySet DEF TablesRead
<1>2. TablesRead /\ [ReaderNext]_readerVars => TablesRead'
  <2> SUFFICES ASSUME TablesRead, [ReaderNext]_readerVars PROVE TablesRead'
    OBVIOUS
  <2>1. RecordsInv'
    BY ReaderTables, RecordsInvStep DEF TablesRead
  <2>2. CASE AtomicNext
    <3>1. PICK new \in Events : audit' = audit \cup {new}
      BY <2>2, AuditGrows DEF TablesRead, Newest
    <3> QED
      BY <2>1, <3>1, FS_AddElement DEF TablesRead
  <2>3. CASE UNCHANGED tables
    BY <2>1, <2>3 DEF TablesRead, tables
  <2> QED
    BY <2>2, <2>3, ReaderTables
<1> QED
  BY <1>1, <1>2, PTL DEF ReaderSpec

-----------------------------------------------------------------------------
(***************************************************************************)
(* The verification of the audit chain.                                    *)
(***************************************************************************)
\* The events of a tenant, listed by their sequences, are numbered from one.
LEMMA EventsListed ==
  ASSUME TablesRead, NEW tenant
  PROVE  LET S == EventRows(tenant)
             f == EventsOf(tenant)
         IN /\ f \in [1 .. Cardinality(S) -> S] /\ Cardinality(S) \in Nat
            /\ \A n \in 1 .. Cardinality(S) : f[n].seq = n
            /\ \A e \in S : \E n \in 1 .. Cardinality(S) : f[n] = e
<1> DEFINE S == EventRows(tenant)
           f == EventsOf(tenant)
           R == {p \in S \X S : p[1].seq < p[2].seq}
           N == Cardinality(S)
<1>1. /\ audit \subseteq Events /\ SequencesUnique /\ SequencesContiguous
  BY DEF TablesRead, RecordsInv, TablesInv, TypeOK, AuditChain
<1>2. IsFiniteSet(S) /\ N \in Nat
  <2>1. S \subseteq audit
    BY DEF EventRows
  <2> HIDE DEF S
  <2> QED
    BY <2>1, FS_Subset, FS_CardinalityType DEF TablesRead
<1>3. /\ \A e \in S : e \in audit /\ e.tenant = tenant /\ e.seq \in Nat
      /\ \A e \in audit : e.tenant = tenant => e \in S
  BY <1>1 DEF EventRows, Events
<1> HIDE DEF S
<1>4. \A x, y \in S : <<x, y>> \in R <=> x.seq < y.seq
  OBVIOUS
<1> DEFINE Choice(n) == CHOOSE x \in S : Cardinality({y \in S : y.seq < x.seq}) = n - 1
<1>5. f = [n \in 1 .. N |-> Choice(n)]
  BY DEF EventsOf, Ordered, S
<1>6. f = [n \in 1 .. N |-> f[n]] /\ \A n \in 1 .. N : f[n] = Choice(n)
  <2> HIDE DEF f, Choice, N
  <2> QED
    BY <1>5
<1>7. \A x \in S : {y \in S : <<y, x>> \in R} = {y \in S : y.seq < x.seq}
  BY <1>4
<1> HIDE DEF R, f
<1>8. OrdersStrictly(R, S)
  <2>1. \A x, y \in S : x.seq = y.seq => x = y
    BY <1>1, <1>3 DEF SequencesUnique
  <2> QED
    BY <1>3, <1>4, <2>1 DEF OrdersStrictly
<1>9. Places(f, R, S)
  BY <1>6, <1>7 DEF Places
<1>10. Lists(f, R, S)
  BY <1>2, <1>8, <1>9, PlacesList
<1>11. f \in [1 .. N -> S]
  BY <1>6, <1>10 DEF Lists
<1>12. \A m, n \in 1 .. N : m < n <=> f[m].seq < f[n].seq
  BY <1>4, <1>10 DEF Lists
<1> DEFINE P == {k \in Nat : k <= N => \A j \in 1 .. k : f[j].seq = j}
<1>13. 0 \in P
  OBVIOUS
<1> HIDE DEF N
<1>14. ASSUME NEW k \in Nat, k \in P
       PROVE  k + 1 \in P
  <2> SUFFICES ASSUME k + 1 <= N PROVE f[k + 1].seq = k + 1
    BY <1>2, <1>14
  <2>1. k + 1 \in 1 .. N /\ f[k + 1] \in S /\ f[k + 1].seq \in Nat
    BY <1>2, <1>3, <1>11
  <2>2. f[k + 1].seq >= k + 1
    <3>1. CASE k = 0
      BY <1>1, <1>3, <2>1, <3>1 DEF SequencesContiguous
    <3>2. CASE k > 0
      <4>1. k \in 1 .. N /\ f[k].seq = k
        BY <1>2, <1>14, <3>2
      <4>2. f[k].seq < f[k + 1].seq
        BY <1>12, <2>1, <4>1
      <4> QED
        BY <2>1, <4>1, <4>2
    <3> QED
      BY <3>1, <3>2
  <2>3. PICK g \in S : g.seq = k + 1
    <3>1. k + 1 \in 1 .. f[k + 1].seq
      BY <2>1, <2>2
    <3> QED
      BY <1>1, <1>3, <2>1, <3>1 DEF SequencesContiguous
  <2>4. PICK m \in 1 .. N : f[m] = g
    BY <1>10 DEF Lists, N
  <2>5. ~(k + 1 < m)
    BY <1>12, <2>1, <2>2, <2>3, <2>4
  <2>6. CASE m = k + 1
    BY <2>3, <2>4, <2>6
  <2>7. CASE m \in 1 .. k
    BY <1>2, <1>14, <2>3, <2>4, <2>7
  <2> QED
    BY <2>5, <2>6, <2>7
<1>15. N \in P
  <2> HIDE DEF P
  <2> QED
    BY <1>2, <1>13, <1>14, Induction
<1>16. \A n \in 1 .. N : f[n].seq = n
  BY <1>2, <1>15
<1>17. \A e \in S : \E n \in 1 .. N : f[n] = e
  BY <1>10 DEF Lists, N
<1> QED
  BY <1>2, <1>11, <1>16, <1>17 DEF S, f, N


\* The chain that the workflow wrote verifies, but for digits cut off.
LEMMA ChainVerifies ==
  ASSUME TablesRead, NEW tenant, NEW cut \in SUBSET {e.id : e \in EventRows(tenant)}
  PROVE  Verify(EventsOf(tenant), cut) <=> cut = {}
<1> DEFINE S == EventRows(tenant)
           N == Cardinality(S)
<1>1. PICK f : f = EventsOf(tenant)
  OBVIOUS
<1>2. /\ f \in [1 .. N -> S] /\ N \in Nat /\ \A n \in 1 .. N : f[n].seq = n
      /\ \A e \in S : \E n \in 1 .. N : f[n] = e
  BY <1>1, EventsListed
<1>3. /\ SequencesUnique /\ SequencesContiguous /\ EventsLinked
  BY DEF TablesRead, RecordsInv, TablesInv, AuditChain
<1>4. \A e \in S : e \in audit /\ e.tenant = tenant
  BY DEF EventRows
<1> HIDE DEF S, N
<1>5. ASSUME NEW n \in 1 .. N
      PROVE  f[n].prev = IF n = 1 THEN NoID ELSE f[n - 1].id
  <2>1. f[n] \in audit /\ f[n].tenant = tenant /\ f[n].seq = n
    BY <1>2, <1>4
  <2>2. CASE n = 1 /\ f[n].prev = NoID
    BY <2>2
  <2>3. ASSUME NEW g \in audit, g.tenant = tenant, g.seq = n - 1, g.id = f[n].prev
        PROVE  f[n].prev = IF n = 1 THEN NoID ELSE f[n - 1].id
    <3>1. n - 1 \in 1 .. N
      BY <1>2, <1>3, <2>3 DEF SequencesContiguous
    <3>2. f[n - 1] \in audit /\ f[n - 1].tenant = tenant /\ f[n - 1].seq = n - 1
      BY <1>2, <1>4, <3>1
    <3>3. g = f[n - 1]
      BY <1>3, <2>3, <3>2 DEF SequencesUnique
    <3> QED
      BY <2>3, <3>1, <3>3
  <2> QED
    BY <1>3, <2>1, <2>2, <2>3 DEF EventsLinked
<1>6. Verify(f, cut) <=> \A n \in 1 .. N : f[n].id \notin cut
  BY <1>2, <1>5 DEF Verify
<1>7. (\A n \in 1 .. N : f[n].id \notin cut) <=> cut = {}
  BY <1>2 DEF S
<1> QED
  BY <1>1, <1>6, <1>7

-----------------------------------------------------------------------------
(***************************************************************************)
(* The reports.  What is true now was noted; a voyage that was found       *)
(* cleared has since at most been scheduled, and its inspections are what  *)
(* they were.                                                              *)
(***************************************************************************)
Questions == {"eligibility", "overview"}
Finding == {"inspections", "reservations"}
Found == [doing : Finding, question : Questions, tenant : Tenants, voyage : VoyageIDs,
          status : VoyageStatuses, list : SUBSET Inspections, truths : SUBSET BOOLEAN]

\* The report of a cleared voyage with these inspections and no reservation.
Unbooked(question, list) == Verdict(question, "cleared", list, {})

ReportInv ==
  /\ reader.doing = "inspections" /\ reader.status = "cleared" =>
       Unbooked(reader.question, InspectionRows(reader.voyage)) \in reader.truths
  /\ reader.doing = "reservations" /\ reader.status = "cleared" =>
       Unbooked(reader.question, reader.list) \in reader.truths
  /\ reader.doing \in Finding =>
       /\ reader \in Found
       /\ Truth(reader.question, reader.voyage) \in reader.truths
       /\ reader.status = "cleared" =>
            voyages[reader.voyage].status \in {"cleared", "scheduled"}
       /\ reader.status # "cleared" => FALSE \in reader.truths
  /\ AnswerWasTrue /\ VerifiesUnlessCut
  /\ "doing" \in DOMAIN reader

\* A released voyage is at most scheduled, and not inspected again.
LEMMA ReleasedStays ==
  ASSUME RecordsInv, AtomicNext, NEW v \in VoyageIDs,
         voyages[v].status \in {"cleared", "scheduled"}
  PROVE  /\ voyages'[v].status \in {"cleared", "scheduled"}
         /\ InspectionRows(v)' = InspectionRows(v)
<1>1. TypeOK
  BY DEF RecordsInv, TablesInv
<1>2. PICK user \in Users, at \in Nat : RequestOf(user, at)
  BY AtomicCases
<1>3. ASSUME UNCHANGED inspections
      PROVE  InspectionRows(v)' = InspectionRows(v)
  BY <1>3 DEF InspectionRows, InspectionsOf
<1>4. ASSUME NEW w \in VoyageIDs, DeclareVoyage(user, w, at)
      PROVE  /\ voyages'[v].status \in {"cleared", "scheduled"}
             /\ InspectionRows(v)' = InspectionRows(v)
  BY <1>1, <1>3, <1>4, DeclareEffect
<1>5. ASSUME NEW w \in VoyageIDs, NEW i \in InspectionIDs, NEW kind \in Kinds,
             OpenInspection(user, w, i, kind, at)
      PROVE  /\ voyages'[v].status \in {"cleared", "scheduled"}
             /\ InspectionRows(v)' = InspectionRows(v)
  <2>1. /\ voyages[w].status = "declared" /\ inspections[i].status = "absent"
        /\ inspections'[i].voyage = w
        /\ \A x \in VoyageIDs \ {w} : voyages'[x] = voyages[x]
        /\ \A j \in InspectionIDs \ {i} : inspections'[j] = inspections[j]
    BY <1>1, <1>5, OpenEffect
  <2>2. v # w
    BY <2>1
  <2>3. InspectionsOf(v)' = InspectionsOf(v) /\ i \notin InspectionsOf(v)
    BY <2>1, <2>2 DEF InspectionsOf, Present
  <2>4. \A j \in InspectionsOf(v) : inspections'[j] = inspections[j]
    BY <2>1, <2>3 DEF InspectionsOf
  <2> QED
    BY <2>1, <2>2, <2>3, <2>4 DEF InspectionRows
<1>6. ASSUME NEW w \in VoyageIDs, NEW i \in InspectionIDs,
             PassInspectionAndRelease(user, w, i, at)
      PROVE  /\ voyages'[v].status \in {"cleared", "scheduled"}
             /\ InspectionRows(v)' = InspectionRows(v)
  <2>1. /\ voyages[w].status \in {"declared", "held"}
        /\ inspections[i].voyage = w /\ inspections'[i].voyage = w
        /\ \A x \in VoyageIDs \ {w} : voyages'[x] = voyages[x]
        /\ \A j \in InspectionIDs \ {i} : inspections'[j] = inspections[j]
    BY <1>1, <1>6, ReleaseEffect
  <2>2. v # w
    BY <2>1
  <2>3. InspectionsOf(v)' = InspectionsOf(v) /\ i \notin InspectionsOf(v)
    BY <2>1, <2>2 DEF InspectionsOf, Present
  <2>4. \A j \in InspectionsOf(v) : inspections'[j] = inspections[j]
    BY <2>1, <2>3 DEF InspectionsOf
  <2> QED
    BY <2>1, <2>2, <2>3, <2>4 DEF InspectionRows
<1>7. ASSUME NEW w \in VoyageIDs, NEW r \in ReservationIDs, NEW chamber \in Chambers,
             NEW starts \in Nat, NEW ends \in Nat,
             ReservePassage(user, w, r, chamber, starts, ends, at)
      PROVE  /\ voyages'[v].status \in {"cleared", "scheduled"}
             /\ InspectionRows(v)' = InspectionRows(v)
  <2>1. /\ voyages'[w].status = "scheduled" /\ UNCHANGED inspections
        /\ \A x \in VoyageIDs \ {w} : voyages'[x] = voyages[x]
    BY <1>1, <1>7, ReserveEffect
  <2> QED
    BY <1>3, <2>1
<1>8. ASSUME NEW r \in ReservationIDs, NEW next \in SlotStatuses,
             MovePassage(user, r, next, at)
      PROVE  /\ voyages'[v].status \in {"cleared", "scheduled"}
             /\ InspectionRows(v)' = InspectionRows(v)
  BY <1>1, <1>3, <1>8, MoveEffect
<1> QED
  BY <1>2, <1>4, <1>5, <1>6, <1>7, <1>8 DEF RequestOf


\* What the ghosts note when a request commits.
LEMMA ReportWatch ==
  ASSUME TablesRead, ReportInv, Request
  PROVE  ReportInv'
<1>1. PICK r \in {reader} : reader' = Watch(r)'
  BY DEF Request
<1>2. r = reader /\ r.doing \notin {"walked", "answered", "verified"} /\ AtomicNext
  BY DEF Request
<1>4. CASE r.doing \in Finding
  <2>1. /\ r \in Found
        /\ r.status = "cleared" => voyages[r.voyage].status \in {"cleared", "scheduled"}
    BY <1>2, <1>4 DEF ReportInv, Finding
  <2>2. reader' = [r EXCEPT !.truths = @ \cup {Truth(r.question, r.voyage)'}]
    BY <1>1, <1>4 DEF Watch, Finding
  <2>3. Truth(r.question, r.voyage)' \in BOOLEAN
    BY DEF Truth
  <2> DEFINE truths == r.truths \cup {Truth(r.question, r.voyage)'}
  <2>4. /\ reader'.doing = r.doing /\ reader'.question = r.question
        /\ reader'.voyage = r.voyage /\ reader'.status = r.status
        /\ reader'.truths = truths /\ "doing" \in DOMAIN reader'
        /\ reader'.list = r.list /\ reader' \in Found
    BY <2>1, <2>2, <2>3 DEF Found
  <2>5. r.status = "cleared" =>
          /\ voyages'[r.voyage].status \in {"cleared", "scheduled"}
          /\ InspectionRows(r.voyage)' = InspectionRows(r.voyage)
    <3>1. r.voyage \in VoyageIDs
      BY <2>1 DEF Found
    <3> QED
      BY <1>2, <2>1, <3>1, ReleasedStays DEF TablesRead
  <2>6. Truth(reader.question, reader.voyage)' = Truth(r.question, r.voyage)'
    BY <2>4 DEF Truth, InspectionsOf
  <2>8. /\ reader'.doing \in Finding
        /\ Truth(reader.question, reader.voyage)' \in reader'.truths
        /\ reader'.status # "cleared" => FALSE \in reader'.truths
    BY <1>2, <1>4, <2>4, <2>6 DEF ReportInv
  <2>9. ASSUME r.doing = "inspections", r.status = "cleared"
        PROVE  Unbooked(reader.question, InspectionRows(reader.voyage))' \in reader'.truths
    <3>1. InspectionRows(reader.voyage)' = InspectionRows(r.voyage)'
      BY <2>4 DEF InspectionRows, InspectionsOf
    <3>2. Unbooked(reader.question, InspectionRows(reader.voyage))'
            = Unbooked(r.question, InspectionRows(r.voyage))
      BY <2>4, <2>5, <2>9, <3>1 DEF Unbooked, Verdict, Eligible, Ready
    <3> QED
      BY <1>2, <2>4, <2>9, <3>2 DEF ReportInv
  <2>10. ASSUME r.doing = "reservations", r.status = "cleared"
         PROVE  Unbooked(reader.question, reader.list)' \in reader'.truths
    <3>1. Unbooked(reader.question, reader.list)' = Unbooked(r.question, r.list)
      BY <2>4, <2>10 DEF Unbooked, Verdict, Eligible, Ready
    <3> QED
      BY <1>2, <2>4, <2>10, <3>1 DEF ReportInv
  <2>11. AnswerWasTrue' /\ VerifiesUnlessCut'
    BY <2>8 DEF AnswerWasTrue, VerifiesUnlessCut, Finding
  <2> QED
    BY <2>4, <2>5, <2>8, <2>9, <2>10, <2>11 DEF ReportInv
<1>5. CASE r.doing \notin Finding
  <2>1. reader'.doing = r.doing /\ "doing" \in DOMAIN reader'
    BY <1>1, <1>2, <1>5 DEF Watch, Finding, ReportInv
  <2> QED
    BY <1>2, <1>5, <2>1 DEF ReportInv, Finding, AnswerWasTrue, VerifiesUnlessCut
<1> QED
  BY <1>4, <1>5

\* The walks and what they have answered are not reports.
LEMMA TurnDoes ==
  ASSUME NEW walk, "doing" \in DOMAIN walk
  PROVE  Turn(walk).doing \in {"walk", "walked"} /\ "doing" \in DOMAIN Turn(walk)
BY DEF Turn

LEMMA ReportStep ==
  ASSUME TablesRead, ReportInv, [ReaderNext]_readerVars
  PROVE  ReportInv'
<1>1. CASE UNCHANGED readerVars
  <2>1. /\ Truth(reader.question, reader.voyage)' = Truth(reader.question, reader.voyage)
        /\ InspectionRows(reader.voyage)' = InspectionRows(reader.voyage)
    BY <1>1 DEF readerVars, tables, Truth, InspectionRows, InspectionsOf
  <2>2. /\ Unbooked(reader.question, InspectionRows(reader.voyage))'
             = Unbooked(reader.question, InspectionRows(reader.voyage))
        /\ Unbooked(reader.question, reader.list)' = Unbooked(reader.question, reader.list)
    BY <1>1, <2>1 DEF readerVars, Unbooked, Verdict, Eligible, Ready
  <2>3. UNCHANGED <<reader, voyages>>
    BY <1>1 DEF readerVars, tables
  <2> QED
    BY <2>1, <2>2, <2>3 DEF ReportInv, AnswerWasTrue, VerifiesUnlessCut
<1>2. CASE Request
  BY <1>2, ReportWatch
<1>3. ASSUME NEW walk, "doing" \in DOMAIN walk, reader' = Turn(walk)
      PROVE  ReportInv'
  <2>1. reader'.doing \in {"walk", "walked"} /\ "doing" \in DOMAIN reader'
    BY <1>3, TurnDoes
  <2> QED
    BY <1>3, <2>1 DEF ReportInv, Finding, AnswerWasTrue, VerifiesUnlessCut
<1>4. ASSUME NEW user, NEW list, NEW statuses, NEW limit,
             FirstPage(user, list, statuses, limit)
      PROVE  ReportInv'
  BY <1>3, <1>4 DEF FirstPage
<1>5. CASE NextPage
  BY <1>3, <1>5 DEF NextPage, ReportInv
<1>6. ASSUME NEW user \in Users, NEW question \in Questions, NEW v \in VoyageIDs,
             FindVoyage(user, question, v)
      PROVE  ReportInv'
  <2>1. /\ reader' = [doing |-> "inspections", question |-> question,
                      tenant |-> user.tenant, voyage |-> v,
                      status |-> voyages[v].status, list |-> {},
                      truths |-> {Truth(question, v)}]
        /\ VoyageFound(user.tenant, v) /\ UNCHANGED tables
    BY <1>6 DEF FindVoyage
  <2>2. user.tenant \in Tenants /\ voyages[v].status \in VoyageStatuses
    BY <2>1 DEF Users, VoyageFound, Present, TablesRead, RecordsInv, TablesInv, TypeOK,
       Voyages, NoRow
  <2>3. Truth(question, v) \in BOOLEAN
    BY DEF Truth
  <2>4. reader' \in Found /\ "doing" \in DOMAIN reader' /\ reader'.doing = "inspections"
    BY <2>1, <2>2, <2>3 DEF Found, Finding
  <2>5. Truth(reader.question, reader.voyage)' = Truth(question, v)
    BY <2>1 DEF Truth, InspectionsOf, tables
  <2>6. InspectionRows(reader.voyage)' = InspectionRows(v)
    BY <2>1 DEF InspectionRows, InspectionsOf, tables
  <2>7. ASSUME voyages[v].status = "cleared"
        PROVE  Unbooked(question, InspectionRows(v)) = Truth(question, v)
    <3>1. /\ InspectionsOf(v) # {}
          /\ \A i \in InspectionsOf(v) : inspections[i].status = "passed"
      BY <2>7 DEF TablesRead, RecordsInv, TablesInv, ReleaseGated
    <3>2. CASE question = "eligibility"
      BY <2>7, <3>1, <3>2 DEF Unbooked, Verdict, Eligible, Truth, InspectionRows
    <3>3. CASE question = "overview"
      BY <2>7, <3>1, <3>3 DEF Unbooked, Verdict, Ready, Truth, InspectionRows
    <3> QED
      BY <3>2, <3>3 DEF Questions
  <2>8. Unbooked(reader.question, InspectionRows(reader.voyage))'
          = Unbooked(question, InspectionRows(v))
    BY <2>1, <2>6 DEF Unbooked, Verdict, Eligible, Ready
  <2>9. voyages[v].status # "cleared" => Truth(question, v) = FALSE
    BY DEF Truth
  <2>10. /\ reader'.status = voyages[v].status /\ reader'.truths = {Truth(question, v)}
         /\ reader'.voyage = v /\ voyages' = voyages
    BY <2>1 DEF tables
  <2> QED
    BY <2>4, <2>5, <2>7, <2>8, <2>9, <2>10 DEF ReportInv, AnswerWasTrue, VerifiesUnlessCut, Finding
<1>7. CASE ListInspections
  <2>1. /\ reader' = [reader EXCEPT !.doing = "reservations",
                                   !.list = InspectionRows(reader.voyage)]
        /\ reader.doing = "inspections" /\ UNCHANGED tables
    BY <1>7 DEF ListInspections
  <2>2. reader \in Found
    BY <2>1 DEF ReportInv, Finding
  <2>3. InspectionRows(reader.voyage) \in SUBSET Inspections
    BY DEF InspectionRows, InspectionsOf, Present, TablesRead, RecordsInv, TablesInv, TypeOK,
       NoRow
  <2>4. /\ reader'.doing = "reservations" /\ reader'.question = reader.question
        /\ reader'.voyage = reader.voyage /\ reader'.status = reader.status
        /\ reader'.truths = reader.truths
        /\ reader'.list = InspectionRows(reader.voyage)
    BY <2>1, <2>2 DEF Found
  <2>5. reader' \in Found /\ "doing" \in DOMAIN reader'
    BY <2>1, <2>2, <2>3 DEF Found, Finding
  <2>6. Truth(reader.question, reader.voyage)' = Truth(reader.question, reader.voyage)
    BY <2>1, <2>4 DEF Truth, InspectionsOf, tables
  <2>7. Unbooked(reader.question, reader.list)'
          = Unbooked(reader.question, InspectionRows(reader.voyage))
    BY <2>4 DEF Unbooked, Verdict, Eligible, Ready
  <2>8. voyages' = voyages
    BY <2>1 DEF tables
  <2> QED
    BY <2>1, <2>4, <2>5, <2>6, <2>7, <2>8 DEF ReportInv, AnswerWasTrue, VerifiesUnlessCut, Finding
<1>8. CASE ListReservationsOf
  <2> DEFINE booked == ReservationsOf(reader.tenant, reader.voyage)
             answer == Verdict(reader.question, reader.status, reader.list, booked)
  <2>1. /\ reader' = [doing |-> "answered", truths |-> reader.truths, answer |-> answer]
        /\ reader.doing = "reservations"
    BY <1>8 DEF ListReservationsOf
  <2>2. /\ reader.voyage \in VoyageIDs /\ reader.question \in Questions
        /\ reader.truths \subseteq BOOLEAN
    BY <2>1 DEF ReportInv, Found, Finding
  <2>3. CASE reader.status # "cleared"
    <3>1. answer = FALSE
      BY <2>3 DEF Verdict, Eligible, Ready
    <3> QED
      BY <2>1, <2>3, <3>1 DEF ReportInv, Finding, AnswerWasTrue, VerifiesUnlessCut
  <2>4. CASE reader.status = "cleared"
    <3>1. Unbooked(reader.question, reader.list) \in reader.truths
      BY <2>1, <2>4 DEF ReportInv
    <3>2. CASE \E r \in booked : r.status \in {"reserved", "confirmed", "entered"}
      <4>1. PICK r \in ReservationIDs :
              Present(reservations[r]) /\ reservations[r].voyage = reader.voyage
        BY <3>2 DEF ReservationsOf, ReservationFound
      <4>2. voyages[reader.voyage].status = "scheduled"
        BY <4>1 DEF TablesRead, RecordsInv, TablesInv, OneBooking
      <4>3. FALSE \in reader.truths
        <5>1. Truth(reader.question, reader.voyage) = FALSE
          BY <4>2 DEF Truth
        <5> QED
          BY <2>1, <5>1 DEF ReportInv, Finding
      <4>4. reader.question = "eligibility" => answer = FALSE
        BY <3>2 DEF Verdict, Eligible
      <4>5. reader.question # "eligibility" =>
              answer = Unbooked(reader.question, reader.list)
        BY <2>4 DEF Verdict, Unbooked
      <4> HIDE DEF answer
      <4> QED
        BY <2>1, <3>1, <4>3, <4>4, <4>5 DEF ReportInv, Finding, AnswerWasTrue, VerifiesUnlessCut
    <3>3. CASE ~\E r \in booked : r.status \in {"reserved", "confirmed", "entered"}
      <4>1. answer = Unbooked(reader.question, reader.list)
        BY <2>4, <3>3 DEF Verdict, Unbooked, Eligible
      <4> HIDE DEF answer
      <4> QED
        BY <2>1, <3>1, <4>1 DEF ReportInv, Finding, AnswerWasTrue, VerifiesUnlessCut
    <3> QED
      BY <3>2, <3>3
  <2> QED
    BY <2>3, <2>4
<1>9. ASSUME NEW user, VerifyAuditChain(user)
      PROVE  ReportInv'
  <2>1. PICK cut \in SUBSET {e.id : e \in EventRows(user.tenant)} :
          reader' = [doing |-> "verified", cut |-> cut,
                     answer |-> Verify(EventsOf(user.tenant), cut)]
    BY <1>9 DEF VerifyAuditChain
  <2>2. Verify(EventsOf(user.tenant), cut) <=> cut = {}
    BY ChainVerifies
  <2>3. /\ reader'.doing = "verified" /\ "doing" \in DOMAIN reader'
        /\ reader'.answer = Verify(EventsOf(user.tenant), cut) /\ reader'.cut = cut
    BY <2>1
  <2> QED
    BY <2>2, <2>3 DEF ReportInv, Finding, AnswerWasTrue, VerifiesUnlessCut
<1> QED
  BY <1>1, <1>2, <1>4, <1>5, <1>6, <1>7, <1>8, <1>9 DEF ReaderNext, Questions

LEMMA ReportInvAlways == ReaderSpec => []ReportInv
<1>1. ReaderInit => ReportInv
  BY DEF ReaderInit, IdleReader, ReportInv, Finding, AnswerWasTrue, VerifiesUnlessCut
<1>2. TablesRead /\ ReportInv /\ [ReaderNext]_readerVars => ReportInv'
  BY ReportStep
<1> QED
  BY <1>1, <1>2, TablesReadAlways, PTL DEF ReaderSpec

\* An answer that is put together from several statements was true at some
\* instant of the request.
THEOREM AnswersWereTrue == ReaderSpec => []AnswerWasTrue
<1>1. ReportInv => AnswerWasTrue
  BY DEF ReportInv
<1> QED
  BY <1>1, ReportInvAlways, PTL

\* The chain that the workflow wrote verifies at any moment exactly if no event
\* lost digits to its column: nothing else breaks it.
THEOREM ChainsVerify == ReaderSpec => []VerifiesUnlessCut
<1>1. ReportInv => VerifiesUnlessCut
  BY DEF ReportInv
<1> QED
  BY <1>1, ReportInvAlways, PTL

-----------------------------------------------------------------------------
(***************************************************************************)
(* The lists.  Places are pairs, or triples for the audit trail, and are   *)
(* compared like the row values of SQL.                                    *)
(***************************************************************************)
Keys(list) == IF list = "voyages" THEN Nat \X Nat ELSE Nat \X Nat \X Nat

LEMMA LessPairs ==
  ASSUME NEW k \in Nat \X Nat, NEW l \in Nat \X Nat
  PROVE  Less(k, l) <=> k[1] < l[1] \/ (k[1] = l[1] /\ k[2] < l[2])
<1>1. DOMAIN k = {1, 2} /\ 1 .. 1 - 1 = {} /\ 1 .. 2 - 1 = {1}
  OBVIOUS
<1> QED
  BY <1>1 DEF Less

LEMMA LessTriples ==
  ASSUME NEW k \in Nat \X Nat \X Nat, NEW l \in Nat \X Nat \X Nat
  PROVE  Less(k, l) <=> \/ k[1] < l[1]
                        \/ k[1] = l[1] /\ k[2] < l[2]
                        \/ k[1] = l[1] /\ k[2] = l[2] /\ k[3] < l[3]
<1>1. /\ DOMAIN k = {1, 2, 3} /\ 1 .. 1 - 1 = {} /\ 1 .. 2 - 1 = {1}
      /\ 1 .. 3 - 1 = {1, 2}
  OBVIOUS
<1> QED
  BY <1>1 DEF Less

\* The order of a list is strict and total.
LEMMA LessOrders ==
  ASSUME NEW list
  PROVE  /\ \A x \in Keys(list) : ~Less(x, x)
         /\ \A x, y, z \in Keys(list) : Less(x, y) /\ Less(y, z) => Less(x, z)
         /\ \A x, y \in Keys(list) : x = y \/ Less(x, y) \/ Less(y, x)
<1>1. CASE list = "voyages"
  <2>1. Keys(list) = Nat \X Nat
    BY <1>1 DEF Keys
  <2>2. \A x \in Keys(list) : x[1] \in Nat /\ x[2] \in Nat
    BY <2>1
  <2>3. \A x, y \in Keys(list) : x[1] = y[1] /\ x[2] = y[2] => x = y
    BY <2>1
  <2>4. \A x, y \in Keys(list) :
          Less(x, y) <=> x[1] < y[1] \/ (x[1] = y[1] /\ x[2] < y[2])
    BY <2>1, LessPairs
  <2> QED
    BY <2>2, <2>3, <2>4
<1>2. CASE list # "voyages"
  <2>1. Keys(list) = Nat \X Nat \X Nat
    BY <1>2 DEF Keys
  <2>2. \A x \in Keys(list) : x[1] \in Nat /\ x[2] \in Nat /\ x[3] \in Nat
    BY <2>1
  <2>3. \A x, y \in Keys(list) : x[1] = y[1] /\ x[2] = y[2] /\ x[3] = y[3] => x = y
    BY <2>1
  <2>4. \A x, y \in Keys(list) :
          Less(x, y) <=> \/ x[1] < y[1]
                         \/ x[1] = y[1] /\ x[2] < y[2]
                         \/ x[1] = y[1] /\ x[2] = y[2] /\ x[3] < y[3]
    BY <2>1, LessTriples
  <2> QED
    BY <2>2, <2>3, <2>4
<1> QED
  BY <1>1, <1>2

\* Time comes first.
LEMMA LaterIsMore ==
  ASSUME NEW list, NEW x \in Keys(list), NEW y \in Keys(list), x[1] < y[1]
  PROVE  Less(x, y)
BY LessPairs, LessTriples DEF Keys

\* The rows of a list have places in its order.
LEMMA MatchesKeys ==
  ASSUME TablesRead, NEW list, NEW tenant, NEW statuses
  PROVE  /\ Matches(list, tenant, statuses) \subseteq Keys(list)
         /\ IsFiniteSet(Matches(list, tenant, statuses))
<1>1. /\ audit \subseteq Events /\ IsFiniteSet(audit) /\ AuditMatchesTables
      /\ MovementsMatchStatus /\ TypeOK
  BY DEF TablesRead, RecordsInv, TablesInv, TypeOK, MovementsInv
<1>2. CASE list = "voyages"
  <2>1. Matches(list, tenant, statuses) = {VoyageKey(v) : v \in VoyageRows(tenant, statuses)}
    BY <1>2 DEF Matches
  <2>2. \A v \in VoyageIDs : VoyageKey(v) \in Nat \X Nat
    BY QueriesAssumption DEF VoyageKey
  <2>3. VoyageRows(tenant, statuses) \subseteq VoyageIDs
    BY DEF VoyageRows
  <2>4. IsFiniteSet(VoyageRows(tenant, statuses))
    <3>1. \A v \in VoyageRows(tenant, statuses) : \E e \in audit : e.id[2] = v
      <4> SUFFICES ASSUME NEW v \in VoyageRows(tenant, statuses)
                   PROVE  \E e \in audit : e.id[2] = v
        OBVIOUS
      <4>1. v \in VoyageIDs /\ Present(voyages[v])
        BY DEF VoyageRows, VoyageFound
      <4>2. <<<<"declare", v>>, voyages[v].tenant>> \in EventsDue
        BY <4>1 DEF EventsDue
      <4>3. PICK e \in audit : <<e.id, e.tenant>> = <<<<"declare", v>>, voyages[v].tenant>>
        BY <1>1, <4>2 DEF AuditMatchesTables
      <4>4. e.id = <<"declare", v>>
        BY <4>3
      <4> QED
        BY <4>4
    <3>2. VoyageRows(tenant, statuses) \subseteq {e.id[2] : e \in audit}
      BY <3>1
    <3>3. IsFiniteSet({e.id[2] : e \in audit})
      <4> DEFINE f == [e \in audit |-> e.id[2]]
      <4>1. {e.id[2] : e \in audit} = {f[e] : e \in audit}
        OBVIOUS
      <4>2. f \in Surjection(audit, {f[e] : e \in audit})
        BY DEF Surjection
      <4> HIDE DEF f
      <4> QED
        BY <1>1, <4>1, <4>2, FS_Surjection
    <3> QED
      BY <3>2, <3>3, FS_Subset
  <2>5. IsFiniteSet({VoyageKey(v) : v \in VoyageRows(tenant, statuses)})
    <3> DEFINE D == VoyageRows(tenant, statuses)
               f == [v \in D |-> VoyageKey(v)]
    <3>1. {VoyageKey(v) : v \in D} = {f[v] : v \in D}
      OBVIOUS
    <3>2. f \in Surjection(D, {f[v] : v \in D})
      BY DEF Surjection
    <3> HIDE DEF f
    <3> QED
      BY <2>4, <3>1, <3>2, FS_Surjection
  <2> QED
    BY <1>2, <2>1, <2>2, <2>3, <2>5 DEF Keys
<1>3. CASE list # "voyages"
  <2> DEFINE D == EventRows(tenant)
             f == [e \in D |-> EventKey(e)]
  <2>1. Matches(list, tenant, statuses) = {EventKey(e) : e \in D}
    BY <1>3 DEF Matches
  <2>2. ASSUME NEW e \in audit
        PROVE  EventKey(e) \in Nat \X Nat \X Nat
    <3>1. e \in Events /\ e.at \in Nat /\ e.id \in EventIDs
      BY <1>1 DEF Events
    <3>2. e.id[2] \in Nat
      BY <3>1, QueriesAssumption DEF EventIDs
    <3>3. \E n \in DOMAIN Actions : Actions[n] = e.id[1]
      <4>1. e.id[1] \in {"declare", "inspection-open", "cancelled", "entered", "exited",
                         "release", "reserve"}
        <5>1. <<e.id, e.tenant>> \in EventsDue
          BY <1>1 DEF AuditMatchesTables
        <5>2. \A m \in movements : m.status \in {"entered", "exited", "cancelled"}
          <6> SUFFICES ASSUME NEW m \in movements
                       PROVE  m.status \in {"entered", "exited", "cancelled"}
            OBVIOUS
          <6> DEFINE r == m.reservation
          <6>1. r \in ReservationIDs /\ Present(reservations[r]) /\ m \in MovementsOf(r)
            BY <1>1 DEF TypeOK, Movements, MovementsMatchStatus, MovementsOf
          <6>2. reservations[r].status \in {"confirmed", "entered", "exited", "cancelled"}
            BY <1>1, <6>1 DEF TypeOK, Present, NoRow, Reservations, SlotStatuses, TablesRead,
               RecordsInv, MovementsInv, SlotsConfirmed
          <6>3. {x.status : x \in MovementsOf(r)}
                  = CASE reservations[r].status = "exited" -> {"entered", "exited"}
                      [] reservations[r].status = "confirmed" -> {}
                      [] OTHER -> {reservations[r].status}
            BY <1>1, <6>1 DEF MovementsMatchStatus, MovementsOf
          <6> HIDE DEF r
          <6> QED
            BY <6>1, <6>2, <6>3
        <5> QED
          BY <5>1, <5>2 DEF EventsDue
      <4>2. DOMAIN Actions = 1 .. 7
        BY DEF Actions
      <4> QED
        BY <4>1, <4>2 DEF Actions
    <3>4. DOMAIN Actions = 1 .. 7
      BY DEF Actions
    <3>5. (CHOOSE n \in DOMAIN Actions : Actions[n] = e.id[1]) \in Nat
      BY <3>3, <3>4
    <3> QED
      BY <3>1, <3>2, <3>5 DEF EventKey
  <2>3. D \subseteq audit
    BY DEF EventRows
  <2>4. {EventKey(e) : e \in D} = {f[e] : e \in D}
    OBVIOUS
  <2>5. f \in Surjection(D, {f[e] : e \in D})
    BY DEF Surjection
  <2>6. IsFiniteSet(D)
    BY <1>1, <2>3, FS_Subset
  <2>7. IsFiniteSet({EventKey(e) : e \in D})
    <3> HIDE DEF f, D
    <3> QED
      BY <2>4, <2>5, <2>6, FS_Surjection
  <2> QED
    BY <1>3, <2>1, <2>2, <2>3, <2>7 DEF Keys
<1> QED
  BY <1>2, <1>3


\* ORDER BY lists the rows once and in order.
LEMMA KeysListed ==
  ASSUME NEW list, NEW S \in SUBSET Keys(list), IsFiniteSet(S)
  PROVE  LET f == Ordered(S, Less)
             N == Cardinality(S)
         IN /\ N \in Nat /\ f \in [1 .. N -> S]
            /\ \A x \in S : \E n \in 1 .. N : f[n] = x
            /\ \A m, n \in 1 .. N : m < n <=> Less(f[m], f[n])
<1> DEFINE f == Ordered(S, Less)
           N == Cardinality(S)
           R == {p \in S \X S : Less(p[1], p[2])}
           Choice(n) == CHOOSE x \in S : Cardinality({y \in S : Less(y, x)}) = n - 1
<1>1. N \in Nat
  BY FS_CardinalityType
<1>2. \A x, y \in S : <<x, y>> \in R <=> Less(x, y)
  OBVIOUS
<1>3. f = [n \in 1 .. N |-> Choice(n)]
  BY DEF Ordered
<1>4. f = [n \in 1 .. N |-> f[n]] /\ \A n \in 1 .. N : f[n] = Choice(n)
  <2> HIDE DEF f, Choice, N
  <2> QED
    BY <1>3
<1>5. \A x \in S : {y \in S : <<y, x>> \in R} = {y \in S : Less(y, x)}
  BY <1>2
<1> HIDE DEF R, f
<1>6. OrdersStrictly(R, S)
  BY <1>2, LessOrders DEF OrdersStrictly
<1>7. Places(f, R, S)
  BY <1>4, <1>5 DEF Places
<1>8. Lists(f, R, S)
  BY <1>6, <1>7, PlacesList
<1>9. f \in [1 .. N -> S]
  BY <1>4, <1>8 DEF Lists
<1>10. \A m, n \in 1 .. N : m < n <=> Less(f[m], f[n])
  BY <1>2, <1>8 DEF Lists
<1> QED
  BY <1>1, <1>8, <1>9, <1>10 DEF f, Lists

Shows(page, f, N, limit) ==
  \/ /\ N > limit /\ page.items = [i \in 1 .. limit |-> f[i]]
     /\ page.next = f[limit]
  \/ /\ N <= limit /\ page.items = [i \in 1 .. N |-> f[i]]
     /\ page.next = NoCursor

\* A page is the first rows behind the cursor, and names the last of them if
\* there are more.
LEMMA PageShows ==
  ASSUME NEW limit \in Nat \ {0}, NEW N \in Nat, NEW S, NEW f \in [1 .. N -> S]
  PROVE  Shows(BuildPage(SubSeq(f, 1, Min({limit + 1, N})), limit), f, N, limit)
<1> DEFINE m == Min({limit + 1, N})
           rows == SubSeq(f, 1, m)
<1>1. m \in {limit + 1, N} /\ m <= limit + 1 /\ m <= N
  <2>1. \E x \in {limit + 1, N} : \A y \in {limit + 1, N} : x <= y
    BY DEF Min
  <2>2. m \in {limit + 1, N} /\ \A y \in {limit + 1, N} : m <= y
    BY <2>1 DEF Min
  <2> QED
    BY <2>2
<1> HIDE DEF m
<1>2. m \in Nat
  BY <1>1
<1>3. rows = [i \in 1 .. m |-> f[i]] /\ Len(rows) = m
  <2>1. rows = [i \in 1 .. m |-> f[i]]
    BY <1>2
  <2> QED
    BY <1>2, <2>1
<1>4. ASSUME N > limit PROVE Shows(BuildPage(rows, limit), f, N, limit)
  <2>1. m = limit + 1
    BY <1>1, <1>4
  <2>2. rows[limit] = f[limit] /\ SubSeq(rows, 1, limit) = [i \in 1 .. limit |-> f[i]]
    BY <1>3, <2>1
  <2> HIDE DEF rows
  <2>3. BuildPage(rows, limit) = [items |-> SubSeq(rows, 1, limit), next |-> rows[limit]]
    BY <1>3, <2>1 DEF BuildPage
  <2> QED
    BY <1>4, <2>2, <2>3 DEF Shows
<1>5. ASSUME N <= limit PROVE Shows(BuildPage(rows, limit), f, N, limit)
  <2>1. m = N
    BY <1>1, <1>5
  <2> HIDE DEF rows
  <2>2. BuildPage(rows, limit) = [items |-> rows, next |-> NoCursor]
    BY <1>3, <1>5, <2>1 DEF BuildPage
  <2> QED
    BY <1>3, <1>5, <2>1, <2>2 DEF Shows
<1>6. Shows(BuildPage(rows, limit), f, N, limit)
  BY <1>4, <1>5
<1> QED
  BY <1>6 DEF m


-----------------------------------------------------------------------------
(***************************************************************************)
(* The walk.  What was shown is in order and not behind the cursor.  A row *)
(* that matched all the time was shown or is behind the cursor; so is any  *)
(* audit event, unless it bears the instant of a page's last row, for      *)
(* events are recorded in the order of time.                               *)
(***************************************************************************)
Shown(r) == ToSet(r.got)
Rows(r) == Matches(r.list, r.tenant, r.statuses)
InSequence(got) == \A m, n \in DOMAIN got : m < n => Less(got[m], got[n])
AtBreak(k, breaks) == \E place \in breaks : place[1] = k[1]

WalkType(r) ==
  /\ DOMAIN r = {"doing", "list", "tenant", "statuses", "limit", "cursor", "got",
                 "breaks", "stayed", "missed"}
  /\ r.limit \in Nat \ {0} /\ r.got \in Seq(Keys(r.list))
Reached(r) ==
  /\ InSequence(r.got)
  /\ r.cursor = NoCursor => r.got = <<>>
  /\ r.cursor # NoCursor =>
       /\ r.cursor \in Keys(r.list) /\ r.cursor \in r.breaks
       /\ \A k \in Shown(r) : k = r.cursor \/ Less(k, r.cursor)
       /\ r.list = "audit" => r.cursor \in Rows(r)
  /\ r.stayed \subseteq Rows(r)
  /\ \A k \in r.stayed : k \in Shown(r) \/ Behind(r.cursor, k)
  /\ r.list = "audit" => \A k \in Rows(r) :
       k \in Shown(r) \/ Behind(r.cursor, k) \/ AtBreak(k, r.breaks)
Complete(r) ==
  /\ InSequence(r.got)
  /\ \A k \in r.missed :
       k \notin r.stayed /\ (r.list = "audit" => AtBreak(k, r.breaks))

WalkInv ==
  /\ reader.doing = "walk" =>
       WalkType(reader) /\ Reached(reader) /\ reader.cursor # NoCursor
  /\ reader.doing = "walked" => Complete(reader)
  /\ "doing" \in DOMAIN reader

\* What a page adds to what was shown.
LEMMA PageAdds ==
  ASSUME TablesRead, NEW w, WalkType(w), Reached(w),
         NEW page, page = BuildPage(Statement(w.list, w.tenant, w.statuses, w.cursor,
                                              w.limit), w.limit)
  PROVE  LET got == w.got \o page.items IN
         /\ got \in Seq(Keys(w.list)) /\ InSequence(got)
         /\ ToSet(w.got) \subseteq ToSet(got)
         /\ page.next # NoCursor =>
              /\ page.next \in Keys(w.list) /\ page.next \in Rows(w)
              /\ \A k \in ToSet(got) : k = page.next \/ Less(k, page.next)
         /\ \A k \in Rows(w) : Behind(w.cursor, k) =>
              \/ k \in ToSet(got)
              \/ page.next # NoCursor /\ Less(page.next, k)
<1> DEFINE K == Keys(w.list)
           B == {k \in Rows(w) : Behind(w.cursor, k)}
           N == Cardinality(B)
           got == w.got \o page.items
<1>1. w.limit \in Nat \ {0} /\ w.got \in Seq(K)
  BY DEF WalkType
<1>2. B \in SUBSET K /\ IsFiniteSet(B)
  <2>1. Rows(w) \subseteq K /\ IsFiniteSet(Rows(w))
    BY MatchesKeys DEF Rows
  <2> QED
    BY <2>1, FS_Subset
<1>3. PICK f : f = Ordered(B, Less)
  OBVIOUS
<1>4. /\ N \in Nat /\ f \in [1 .. N -> B]
      /\ \A x \in B : \E n \in 1 .. N : f[n] = x
      /\ \A m, n \in 1 .. N : m < n <=> Less(f[m], f[n])
  <2> HIDE DEF B, K
  <2> QED
    BY <1>2, <1>3, KeysListed DEF K
<1>5. Shows(page, f, N, w.limit)
  <2>1. page = BuildPage(SubSeq(f, 1, Min({w.limit + 1, N})), w.limit)
    BY <1>3 DEF Statement, Rows
  <2> HIDE DEF B, N
  <2> QED
    BY <1>1, <1>4, <2>1, PageShows
<1>6. PICK c \in 0 .. N :
        /\ page.items = [i \in 1 .. c |-> f[i]]
        /\ \/ c = N /\ page.next = NoCursor
           \/ c >= 1 /\ page.next = f[c]
  <2> DEFINE Cut(c) == /\ page.items = [i \in 1 .. c |-> f[i]]
                       /\ \/ c = N /\ page.next = NoCursor
                          \/ c >= 1 /\ page.next = f[c]
  <2> SUFFICES \E c \in 0 .. N : Cut(c)
    OBVIOUS
  <2> HIDE DEF N, B
  <2>1. CASE N > w.limit
    <3>1. Cut(w.limit)
      BY <1>1, <1>4, <1>5, <2>1 DEF Shows
    <3> HIDE DEF Cut
    <3> QED
      BY <1>1, <1>4, <2>1, <3>1
  <2>2. CASE N <= w.limit
    <3>1. Cut(N)
      BY <1>1, <1>4, <1>5, <2>2 DEF Shows
    <3> HIDE DEF Cut
    <3> QED
      BY <1>4, <3>1
  <2>3. N > w.limit \/ N <= w.limit
    BY <1>1, <1>4
  <2> QED
    BY <2>1, <2>2, <2>3
<1>7. \A k \in K : k # NoCursor
  <2>1. \A k \in K : 1 \in DOMAIN k
    BY DEF Keys
  <2>2. DOMAIN NoCursor = {}
    BY DEF NoCursor
  <2> QED
    BY <2>1, <2>2
<1>8. \A x \in B : x \in K /\ x \in Rows(w) /\ Behind(w.cursor, x)
  BY <1>2
<1>9. \A k \in Rows(w) : Behind(w.cursor, k) => k \in B
  OBVIOUS
<1> HIDE DEF B, N
<1>10. c \in Nat /\ \A i \in 1 .. c : i \in 1 .. N /\ f[i] \in B
  BY <1>4
<1>11. page.items \in Seq(K) /\ Len(page.items) = c
  BY <1>6, <1>8, <1>10
<1>12. /\ got \in Seq(K) /\ Len(got) = Len(w.got) + c /\ Len(w.got) \in Nat
       /\ \A i \in 1 .. Len(w.got) : got[i] = w.got[i]
       /\ \A i \in 1 .. c : got[Len(w.got) + i] = f[i]
  BY <1>1, <1>6, <1>10, <1>11
<1> HIDE DEF got
<1>13. \A n \in DOMAIN got :
         \/ n \in 1 .. Len(w.got) /\ got[n] = w.got[n]
         \/ \E i \in 1 .. c : n = Len(w.got) + i /\ got[n] = f[i]
  <2> SUFFICES ASSUME NEW n \in DOMAIN got, n \notin 1 .. Len(w.got)
               PROVE  \E i \in 1 .. c : n = Len(w.got) + i
    BY <1>12
  <2>1. n \in 1 .. Len(w.got) + c
    BY <1>12
  <2>2. n - Len(w.got) \in 1 .. c /\ n = Len(w.got) + (n - Len(w.got))
    BY <1>10, <1>12, <2>1
  <2> QED
    BY <2>2
<1>14. DOMAIN w.got = 1 .. Len(w.got) /\ DOMAIN got = 1 .. Len(w.got) + c
  BY <1>1, <1>12
<1>15. ToSet(got) = ToSet(w.got) \cup {f[i] : i \in 1 .. c}
  <2>1. \A i \in 1 .. Len(w.got) : i \in DOMAIN got
    BY <1>10, <1>12, <1>14
  <2>2. \A i \in 1 .. c : Len(w.got) + i \in DOMAIN got
    BY <1>10, <1>12, <1>14
  <2>3. \A k \in ToSet(got) : k \in ToSet(w.got) \/ \E i \in 1 .. c : k = f[i]
    <3> SUFFICES ASSUME NEW n \in DOMAIN got
                 PROVE  got[n] \in ToSet(w.got) \/ \E i \in 1 .. c : got[n] = f[i]
      BY DEF ToSet
    <3> QED
      BY <1>13, <1>14 DEF ToSet
  <2>4. \A k \in ToSet(w.got) : k \in ToSet(got)
    BY <1>12, <1>14, <2>1 DEF ToSet
  <2>5. \A i \in 1 .. c : f[i] \in ToSet(got)
    BY <1>12, <2>2 DEF ToSet
  <2> QED
    BY <2>3, <2>4, <2>5
<1>16. \A k \in ToSet(w.got), x \in B : Less(k, x)
  <2> SUFFICES ASSUME NEW k \in ToSet(w.got), NEW x \in B PROVE Less(k, x)
    OBVIOUS
  <2>1. w.cursor # NoCursor
    BY DEF Reached, ToSet
  <2>2. w.cursor \in K /\ (k = w.cursor \/ Less(k, w.cursor)) /\ Less(w.cursor, x)
    BY <1>8, <2>1 DEF Reached, Shown, Behind
  <2>3. k \in K
    BY <1>1 DEF ToSet
  <2> QED
    BY <1>8, <2>2, <2>3, LessOrders
<1>17. InSequence(got)
  <2> SUFFICES ASSUME NEW m \in DOMAIN got, NEW n \in DOMAIN got, m < n
               PROVE  Less(got[m], got[n])
    BY DEF InSequence
  <2>1. m \in Int /\ n \in Int
    BY <1>12, <1>14
  <2>2. CASE n \in 1 .. Len(w.got)
    <3>1. m \in 1 .. Len(w.got)
      BY <1>12, <1>14, <2>2
    <3> QED
      BY <1>12, <1>14, <2>2, <3>1 DEF Reached, InSequence
  <2>3. ASSUME NEW j \in 1 .. c, n = Len(w.got) + j, got[n] = f[j]
        PROVE  Less(got[m], got[n])
    <3>1. CASE m \in 1 .. Len(w.got)
      <4>1. got[m] \in ToSet(w.got)
        BY <1>12, <1>14, <3>1 DEF ToSet
      <4> QED
        BY <1>10, <1>16, <2>3, <4>1
    <3>2. ASSUME NEW i \in 1 .. c, m = Len(w.got) + i, got[m] = f[i]
          PROVE  Less(got[m], got[n])
      <4>1. i < j
        BY <1>12, <2>3, <3>2
      <4> QED
        BY <1>4, <1>10, <2>3, <3>2, <4>1
    <3> QED
      BY <1>13, <3>1, <3>2
  <2> QED
    BY <1>13, <2>2, <2>3
<1>18. ASSUME page.next # NoCursor
       PROVE  /\ page.next \in K /\ page.next \in Rows(w)
              /\ \A k \in ToSet(got) : k = page.next \/ Less(k, page.next)
  <2>1. c \in 1 .. c /\ page.next = f[c]
    BY <1>6, <1>18
  <2>2. \A i \in 1 .. c : f[i] = page.next \/ Less(f[i], page.next)
    <3> SUFFICES ASSUME NEW i \in 1 .. c, i # c PROVE Less(f[i], f[c])
      BY <2>1
    <3> QED
      BY <1>4, <1>10, <2>1
  <2> QED
    BY <1>8, <1>10, <1>15, <1>16, <2>1, <2>2
<1>19. ASSUME NEW k \in Rows(w), Behind(w.cursor, k), k \notin ToSet(got)
       PROVE  page.next # NoCursor /\ Less(page.next, k)
  <2>1. PICK n \in 1 .. N : f[n] = k
    BY <1>4, <1>9, <1>19
  <2>2. n \notin 1 .. c
    BY <1>15, <1>19, <2>1
  <2>3. c < n /\ c # N
    BY <1>4, <2>2
  <2>4. c \in 1 .. N /\ page.next = f[c]
    BY <1>4, <1>6, <2>3
  <2> QED
    BY <1>4, <1>7, <1>8, <2>1, <2>3, <2>4
<1> QED
  BY <1>12, <1>15, <1>17, <1>18, <1>19 DEF got


\* A turn of the page goes on with the walk or completes it.
LEMMA TurnReaches ==
  ASSUME TablesRead, NEW w, WalkType(w), Reached(w), NEW r, r = Turn(w)
  PROVE  /\ r.doing = "walk" => WalkType(r) /\ Reached(r) /\ r.cursor # NoCursor
         /\ r.doing = "walked" => Complete(r)
         /\ "doing" \in DOMAIN r
<1>1. PICK page : page = BuildPage(Statement(w.list, w.tenant, w.statuses, w.cursor,
                                             w.limit), w.limit)
  OBVIOUS
<1> DEFINE got == w.got \o page.items
<1>2. /\ got \in Seq(Keys(w.list)) /\ InSequence(got)
      /\ ToSet(w.got) \subseteq ToSet(got)
      /\ page.next # NoCursor =>
           /\ page.next \in Keys(w.list) /\ page.next \in Rows(w)
           /\ \A k \in ToSet(got) : k = page.next \/ Less(k, page.next)
      /\ \A k \in Rows(w) : Behind(w.cursor, k) =>
           \/ k \in ToSet(got)
           \/ page.next # NoCursor /\ Less(page.next, k)
  BY <1>1, PageAdds
<1> DEFINE breaks == IF page.next = NoCursor THEN w.breaks ELSE w.breaks \cup {page.next}
<1>3. /\ DOMAIN r = DOMAIN w /\ r.list = w.list /\ r.tenant = w.tenant
      /\ r.statuses = w.statuses /\ r.limit = w.limit /\ r.stayed = w.stayed
      /\ r.got = got /\ r.cursor = page.next /\ r.breaks = breaks
      /\ r.doing = (IF page.next = NoCursor THEN "walked" ELSE "walk")
      /\ r.missed = Rows(w) \ ToSet(got)
  BY <1>1 DEF Turn, WalkType, Rows
<1>4. Rows(r) = Rows(w) /\ Shown(r) = ToSet(got) /\ Shown(w) = ToSet(w.got)
  BY <1>3 DEF Rows, Shown
<1> HIDE DEF got
<1>5. ASSUME NEW k \in Rows(w), k \in Shown(w) \/ Behind(w.cursor, k)
      PROVE  k \in Shown(r) \/ (page.next # NoCursor /\ Less(page.next, k))
  BY <1>2, <1>4, <1>5
<1>6. \A k \in w.stayed : k \in Rows(w) /\ (k \in Shown(w) \/ Behind(w.cursor, k))
  BY DEF Reached
<1>7. w.list = "audit" => \A k \in Rows(w) :
        k \in Shown(w) \/ Behind(w.cursor, k) \/ AtBreak(k, w.breaks)
  BY DEF Reached
<1>8. \A k : AtBreak(k, w.breaks) => AtBreak(k, breaks)
  BY DEF AtBreak
<1> HIDE DEF breaks
<1>9. CASE page.next = NoCursor
  <2>1. r.doing = "walked"
    BY <1>3, <1>9
  <2>2. \A k \in r.missed : k \in Rows(w) /\ k \notin Shown(r)
    BY <1>3, <1>4
  <2>3. Complete(r)
    BY <1>2, <1>3, <1>5, <1>6, <1>7, <1>8, <1>9, <2>2 DEF Complete
  <2> QED
    BY <1>3, <2>1, <2>3 DEF WalkType
<1>10. CASE page.next # NoCursor
  <2>1. r.doing = "walk"
    BY <1>3, <1>10
  <2>2. WalkType(r)
    BY <1>2, <1>3 DEF WalkType
  <2>3. page.next \in r.breaks
    BY <1>3, <1>10 DEF breaks
  <2>4. \A k \in r.stayed : k \in Rows(r) /\ (k \in Shown(r) \/ Behind(r.cursor, k))
    BY <1>3, <1>4, <1>5, <1>6 DEF Behind
  <2>5. r.list = "audit" => \A k \in Rows(r) :
          k \in Shown(r) \/ Behind(r.cursor, k) \/ AtBreak(k, r.breaks)
    BY <1>3, <1>4, <1>5, <1>7, <1>8 DEF Behind
  <2>6. Reached(r)
    BY <1>2, <1>3, <1>4, <1>10, <2>3, <2>4, <2>5 DEF Reached
  <2> QED
    BY <1>3, <1>10, <2>1, <2>2, <2>6 DEF WalkType
<1> QED
  BY <1>9, <1>10

RowsTyped ==
  \A list, tenant, statuses : Matches(list, tenant, statuses) \subseteq Keys(list)

\* A request that commits between two pages.
LEMMA WatchReaches ==
  ASSUME TablesRead, RowsTyped', AtomicNext, NEW w, WalkType(w), Reached(w),
         w.cursor # NoCursor, NEW r,
         r = [w EXCEPT !.stayed = @ \cap Matches(w.list, w.tenant, w.statuses)']
  PROVE  WalkType(r) /\ Reached(r)'
<1>1. /\ DOMAIN r = DOMAIN w /\ r.list = w.list /\ r.tenant = w.tenant
      /\ r.statuses = w.statuses /\ r.limit = w.limit
      /\ r.got = w.got /\ r.cursor = w.cursor /\ r.breaks = w.breaks
      /\ r.stayed = w.stayed \cap Rows(w)'
  BY DEF WalkType, Rows
<1>2. Rows(r)' = Rows(w)' /\ Shown(r) = Shown(w) /\ Shown(r)' = Shown(r)
  BY <1>1 DEF Rows, Shown
<1>3. ASSUME w.list = "audit"
      PROVE  /\ Rows(w) \subseteq Rows(w)'
             /\ \A k \in Rows(w)' \ Rows(w) : w.cursor[1] <= k[1]
  <2>1. PICK new \in Events : Newest(new, new.id, new.tenant, new.at)
    BY AuditGrows DEF TablesRead
  <2>2. /\ Rows(w) = {EventKey(e) : e \in EventRows(w.tenant)}
        /\ Rows(w)' = {EventKey(e) : e \in EventRows(w.tenant)'}
    BY <1>3 DEF Rows, Matches
  <2>3. EventRows(w.tenant)' = EventRows(w.tenant) \cup {e \in {new} : e.tenant = w.tenant}
    BY <2>1 DEF Newest, EventRows
  <2>4. ASSUME NEW k \in Rows(w)' \ Rows(w)
        PROVE  w.cursor[1] <= k[1]
    <3>1. k = EventKey(new) /\ new.tenant = w.tenant
      BY <2>2, <2>3, <2>4
    <3>2. PICK e \in EventRows(w.tenant) : w.cursor = EventKey(e)
      BY <1>3, <2>2 DEF Reached
    <3>3. e.at <= new.at
      BY <2>1, <3>1, <3>2 DEF Newest, EventRows
    <3> QED
      BY <3>1, <3>2, <3>3 DEF EventKey
  <2> QED
    BY <2>2, <2>3, <2>4
<1>4. Rows(w) \subseteq Keys(w.list) /\ Rows(w)' \subseteq Keys(w.list)
  <2>1. Rows(w) \subseteq Keys(w.list)
    BY MatchesKeys DEF Rows
  <2>2. Matches(w.list, w.tenant, w.statuses)' \subseteq Keys(w.list)
    BY DEF RowsTyped
  <2> QED
    BY <2>1, <2>2 DEF Rows
<1>5. WalkType(r)
  BY <1>1 DEF WalkType
<1>6. w.cursor \in Keys(w.list) /\ w.cursor \in w.breaks
  BY DEF Reached
<1>7. ASSUME w.list = "audit", NEW k \in Rows(w)'
      PROVE  k \in Shown(w) \/ Behind(w.cursor, k) \/ AtBreak(k, w.breaks)
  <2>1. CASE k \in Rows(w)
    BY <1>7, <2>1 DEF Reached
  <2>2. CASE k \notin Rows(w) /\ w.cursor[1] = k[1]
    BY <1>6, <2>2 DEF AtBreak
  <2>3. CASE k \notin Rows(w) /\ w.cursor[1] < k[1]
    BY <1>4, <1>6, <2>3, LaterIsMore DEF Behind
  <2>4. w.cursor[1] \in Nat /\ k[1] \in Nat
    BY <1>4, <1>6 DEF Keys
  <2>5. k \notin Rows(w) => w.cursor[1] <= k[1]
    BY <1>3, <1>7
  <2> QED
    BY <2>1, <2>2, <2>3, <2>4, <2>5
<1>8. /\ InSequence(r.got)
      /\ r.cursor \in Keys(r.list) /\ r.cursor \in r.breaks /\ r.cursor # NoCursor
      /\ \A k \in Shown(r) : k = r.cursor \/ Less(k, r.cursor)
  BY <1>1, <1>2 DEF Reached
<1>9. r.list = "audit" => r.cursor \in Rows(r)'
  BY <1>1, <1>2, <1>3 DEF Reached
<1>10. /\ r.stayed \subseteq Rows(r)'
       /\ \A k \in r.stayed : k \in Shown(r) \/ Behind(r.cursor, k)
  BY <1>1, <1>2 DEF Reached
<1>11. r.list = "audit" => \A k \in Rows(r)' :
         k \in Shown(r) \/ Behind(r.cursor, k) \/ AtBreak(k, r.breaks)
  BY <1>1, <1>2, <1>7
<1> QED
  BY <1>2, <1>5, <1>8, <1>9, <1>10, <1>11 DEF Reached


LEMMA WalkStep ==
  ASSUME TablesRead, RowsTyped', WalkInv, [ReaderNext]_readerVars
  PROVE  WalkInv'
<1>1. ASSUME UNCHANGED tables, NEW r
      PROVE  Reached(r)' <=> Reached(r)
  <2>1. Rows(r)' = Rows(r) /\ Shown(r)' = Shown(r)
    BY <1>1 DEF tables, Rows, Matches, VoyageRows, VoyageFound, EventRows, Shown
  <2> QED
    BY <2>1 DEF Reached
<1>2. ASSUME NEW w, WalkType(w), Reached(w), reader' = Turn(w), UNCHANGED tables
      PROVE  WalkInv'
  <2>1. PICK r : r = Turn(w)
    OBVIOUS
  <2>2. /\ r.doing = "walk" => WalkType(r) /\ Reached(r) /\ r.cursor # NoCursor
        /\ r.doing = "walked" => Complete(r)
        /\ "doing" \in DOMAIN r
    BY <1>2, <2>1, TurnReaches
  <2>3. reader' = r /\ (Reached(r)' <=> Reached(r))
    BY <1>1, <1>2, <2>1
  <2>4. Reached(reader)' <=> Reached(r)'
    BY <2>3 DEF Reached, Rows, Shown
  <2> QED
    BY <2>2, <2>3, <2>4 DEF WalkInv, WalkType, Complete
<1>3. ASSUME "doing" \in DOMAIN reader', reader'.doing \notin {"walk", "walked"}
      PROVE  WalkInv'
  BY <1>3 DEF WalkInv
<1>4. CASE UNCHANGED readerVars
  <2>1. UNCHANGED <<tables, reader>>
    BY <1>4 DEF readerVars
  <2>2. PICK r : r = reader
    OBVIOUS
  <2>3. Reached(r)' <=> Reached(r)
    BY <1>1, <2>1
  <2>4. (Reached(reader)' <=> Reached(r)') /\ (Reached(reader) <=> Reached(r))
    BY <2>1, <2>2 DEF Reached, Rows, Shown
  <2> QED
    BY <2>1, <2>3, <2>4 DEF WalkInv, WalkType, Complete
<1>5. CASE Request
  <2>1. PICK r \in {reader} : reader' = Watch(r)'
    BY <1>5 DEF Request
  <2>2. r = reader /\ r.doing \notin {"walked", "answered", "verified"} /\ AtomicNext
    BY <1>5 DEF Request
  <2>3. CASE r.doing = "walk"
    <3>1. reader' = [r EXCEPT !.stayed = @ \cap Matches(r.list, r.tenant, r.statuses)']
      BY <2>1, <2>3 DEF Watch
    <3>2. WalkType(r) /\ Reached(r) /\ r.cursor # NoCursor
      BY <2>2, <2>3 DEF WalkInv, WalkType, Reached, Rows, Shown
    <3>3. PICK q : q = [r EXCEPT !.stayed = @ \cap Matches(r.list, r.tenant, r.statuses)']
      OBVIOUS
    <3>4. WalkType(q) /\ Reached(q)'
      BY <2>2, <3>2, <3>3, WatchReaches
    <3>5. Reached(reader)' <=> Reached(q)'
      BY <3>1, <3>3 DEF Reached, Rows, Shown
    <3>6. q.doing = "walk" /\ q.cursor = r.cursor /\ "doing" \in DOMAIN q
      BY <2>3, <3>2, <3>3 DEF WalkType
    <3> QED
      BY <3>1, <3>2, <3>3, <3>4, <3>5, <3>6 DEF WalkInv, WalkType
  <2>4. CASE r.doing # "walk"
    <3>1. reader'.doing = r.doing /\ "doing" \in DOMAIN reader'
      BY <2>1, <2>2, <2>4 DEF Watch, WalkInv
    <3> QED
      BY <1>3, <2>2, <2>4, <3>1
  <2> QED
    BY <2>3, <2>4
<1>6. ASSUME NEW user, NEW list, NEW statuses, NEW limit \in Int,
             FirstPage(user, list, statuses, limit)
      PROVE  WalkInv'
  <2> DEFINE w == [doing |-> "walk", list |-> list, tenant |-> user.tenant,
                   statuses |-> statuses, limit |-> Normalize(limit),
                   cursor |-> NoCursor, got |-> <<>>, breaks |-> {},
                   stayed |-> Matches(list, user.tenant, statuses), missed |-> {}]
  <2>1. PICK walk : walk = w
    OBVIOUS
  <2>2. reader' = Turn(walk) /\ UNCHANGED tables /\ limit >= 0
    BY <1>6, <2>1 DEF FirstPage
  <2>3. Normalize(limit) \in Nat \ {0}
    BY <2>2, QueriesAssumption DEF Normalize
  <2>4. WalkType(walk)
    BY <2>1, <2>3 DEF WalkType
  <2>5. /\ walk.got = <<>> /\ walk.cursor = NoCursor /\ walk.stayed = Rows(walk)
    BY <2>1 DEF Rows
  <2>6. Reached(walk)
    BY <2>5 DEF Reached, InSequence, Behind
  <2> HIDE DEF w
  <2> QED
    BY <1>2, <2>2, <2>4, <2>6
<1>7. CASE NextPage
  <2>1. PICK w : w = reader
    OBVIOUS
  <2>2. reader' = Turn(w) /\ UNCHANGED tables
    BY <1>7, <2>1 DEF NextPage, Turn, Statement, Matches, VoyageRows, VoyageFound, EventRows
  <2>3. WalkType(w) /\ Reached(w)
    BY <1>7, <2>1 DEF NextPage, WalkInv, WalkType, Reached, Rows, Shown
  <2> QED
    BY <1>2, <2>2, <2>3
<1>8. ASSUME NEW user, NEW question, NEW v, FindVoyage(user, question, v)
      PROVE  WalkInv'
  BY <1>3, <1>8 DEF FindVoyage
<1>9. CASE ListInspections
  BY <1>3, <1>9 DEF ListInspections, WalkInv
<1>10. CASE ListReservationsOf
  BY <1>3, <1>10 DEF ListReservationsOf
<1>11. ASSUME NEW user, VerifyAuditChain(user)
       PROVE  WalkInv'
  BY <1>3, <1>11 DEF VerifyAuditChain
<1> QED
  BY <1>4, <1>5, <1>6, <1>7, <1>8, <1>9, <1>10, <1>11, QueriesAssumption DEF ReaderNext

\* A walk over all pages shows no row twice, shows them in order and shows
\* every row that matched throughout, whatever is written between two pages.
THEOREM WalksExact == ReaderSpec => []WalkExact
<1>1. ReaderInit => WalkInv
  BY DEF ReaderInit, IdleReader, WalkInv
<1>2. TablesRead => RowsTyped
  BY MatchesKeys DEF RowsTyped
<1>3. TablesRead /\ RowsTyped' /\ WalkInv /\ [ReaderNext]_readerVars => WalkInv'
  BY WalkStep
<1>4. WalkInv => WalkExact
  BY DEF WalkInv, WalkExact, Complete, InSequence, AtBreak
<1> QED
  BY <1>1, <1>2, <1>3, <1>4, TablesReadAlways, PTL DEF ReaderSpec

=============================================================================
