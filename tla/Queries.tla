------------------------------ MODULE Queries ------------------------------
(***************************************************************************)
(* Reading while others write: the paged lists (store/query.go,            *)
(* store/audit_query.go over domain/pagination.go), the reports that read  *)
(* three tables one after the other (service/eligibility.go,               *)
(* service/reporting.go) and the verification of the audit chain.          *)
(*                                                                         *)
(* Every statement reads the tables as they are at one instant.  Between   *)
(* two statements, and between two pages, any request of AtomicWorkflow    *)
(* may commit.  One reader, whose behaviour ends with its answer.          *)
(***************************************************************************)
EXTENDS AtomicWorkflow, Ordering, SequencesExt

CONSTANTS
  Eta,              \* the arrival each voyage is declared with
  Limits,           \* page sizes a client asks for
  Filters,          \* sets of statuses a client asks for; none means any
  DefaultPageSize, MaximumPageSize,
  MaxEvents         \* how many requests are committed at most (a bound)

ASSUME QueriesAssumption ==
  /\ VoyageIDs \cup InspectionIDs \cup ReservationIDs \subseteq Nat
  /\ Eta \in [VoyageIDs -> Nat]
  /\ Limits \subseteq Int /\ Filters \subseteq SUBSET VoyageStatuses
  /\ DefaultPageSize \in Nat \ {0} /\ MaximumPageSize \in Nat \ {0}
  /\ MaxEvents \in Nat

VARIABLE reader     \* the reader's request

readerVars == <<tables, reader>>

-----------------------------------------------------------------------------
(***************************************************************************)
(* domain/pagination.go.  A row's place in a list is its sort time and its *)
(* id, compared like the row values of SQL; a cursor is the place of the   *)
(* last row shown, in an encoding that loses nothing.                      *)
(***************************************************************************)
NoCursor == <<>>

Less(k, l) ==
  \E n \in DOMAIN k :
    k[n] < l[n] /\ \A m \in 1 .. n - 1 : k[m] = l[m]

\* Fault: rows of one instant are not told apart.
BehindTime(cursor, k) == cursor = NoCursor \/ cursor[1] < k[1]
Behind(cursor, k) == cursor = NoCursor \/ Less(cursor, k)

Normalize(limit) == IF limit = 0 THEN DefaultPageSize ELSE limit

\* One row more than the limit was asked for, to see whether there is more.
BuildPage(rows, limit) ==
  IF Len(rows) > limit
    THEN [items |-> SubSeq(rows, 1, limit), next |-> rows[limit]]
    ELSE [items |-> rows, next |-> NoCursor]

-----------------------------------------------------------------------------
(***************************************************************************)
(* The lists of the store.                                                 *)
(***************************************************************************)
\* The kinds of event in the order of their ids as text ("audit-passage-"
\* before the movements).
Actions == <<"declare", "inspection-open", "cancelled", "entered", "exited",
             "release", "reserve">>
EventKey(e) ==
  <<e.at, CHOOSE n \in DOMAIN Actions : Actions[n] = e.id[1], e.id[2]>>
VoyageKey(v) == <<Eta[v], v>>

\* The rows of a tenant's list: voyages in one of the statuses asked for, or
\* the audit events.
VoyageRows(tenant, statuses) ==
  {v \in VoyageIDs : /\ VoyageFound(tenant, v)
                     /\ statuses = {} \/ voyages[v].status \in statuses}
EventRows(tenant) == {e \in audit : e.tenant = tenant}
Matches(list, tenant, statuses) ==
  IF list = "voyages" THEN {VoyageKey(v) : v \in VoyageRows(tenant, statuses)}
                      ELSE {EventKey(e) : e \in EventRows(tenant)}

\* ORDER BY and LIMIT limit + 1, of the rows behind the cursor.
Statement(list, tenant, statuses, cursor, limit) ==
  LET behind == {k \in Matches(list, tenant, statuses) : Behind(cursor, k)} IN
  SubSeq(Ordered(behind, Less), 1, Min({limit + 1, Cardinality(behind)}))

-----------------------------------------------------------------------------
(***************************************************************************)
(* A client walks a list page by page.  The ghosts stayed and missed keep  *)
(* the rows that matched all the time, and the rows that matched at the    *)
(* last page without having been shown.                                    *)
(***************************************************************************)
IdleReader == [doing |-> "idle"]

\* auth.Authorize: every role may read voyages, auditors the trail.
Permitted(user, list) == list = "voyages" \/ user.role = "auditor"

Turn(walk) ==
  LET page == BuildPage(Statement(walk.list, walk.tenant, walk.statuses,
                                  walk.cursor, walk.limit), walk.limit)
      got == walk.got \o page.items
  IN [walk EXCEPT
        !.got = got,
        !.cursor = page.next,
        !.breaks = IF page.next = NoCursor THEN @ ELSE @ \cup {page.next},
        !.doing = IF page.next = NoCursor THEN "walked" ELSE "walk",
        !.missed = Matches(walk.list, walk.tenant, walk.statuses) \ ToSet(got)]

FirstPage(user, list, statuses, limit) ==
  /\ reader = IdleReader
  /\ Permitted(user, list)
  /\ limit >= 0 /\ limit <= MaximumPageSize
  /\ reader' = Turn([doing |-> "walk", list |-> list, tenant |-> user.tenant,
                     statuses |-> statuses, limit |-> Normalize(limit),
                     cursor |-> NoCursor, got |-> <<>>, breaks |-> {},
                     stayed |-> Matches(list, user.tenant, statuses),
                     missed |-> {}])
  /\ UNCHANGED tables

NextPage ==
  /\ reader.doing = "walk"
  /\ reader' = Turn(reader)
  /\ UNCHANGED tables

-----------------------------------------------------------------------------
(***************************************************************************)
(* The two reports on one voyage: FindVoyage, ListInspections and          *)
(* ListReservations, in this order.  The ghost truths keeps what the       *)
(* answer would have been at the instants passed so far.                   *)
(***************************************************************************)
ReservationsOf(tenant, v) ==
  {reservations[r] : r \in {s \in ReservationIDs :
     ReservationFound(tenant, s) /\ reservations[s].voyage = v}}
InspectionRows(v) == {inspections[i] : i \in InspectionsOf(v)}

\* Fault: an unfinished inspection is overlooked, a reservation too.
EligibleByReservation(status, list, booked) ==
  \A r \in booked : r.status \notin {"reserved", "confirmed", "entered"}

\* PassageEligibility: no outstanding check.
Eligible(status, list, booked) ==
  /\ status = "cleared"
  /\ list # {}
  /\ \A i \in list : i.status = "passed"
  /\ \A r \in booked : r.status \notin {"reserved", "confirmed", "entered"}

\* Overview: ReadyForPassage, of which the documents are the only requirement.
Ready(status, list) ==
  status = "cleared" /\ \E i \in list : i.kind = "document" /\ i.status = "passed"

Verdict(question, status, list, booked) ==
  IF question = "eligibility" THEN Eligible(status, list, booked)
                              ELSE Ready(status, list)

\* What the workflow would say now: ReservePassage takes a cleared voyage.
Truth(question, v) ==
  /\ voyages[v].status = "cleared"
  /\ question = "overview" => \E i \in InspectionsOf(v) :
       inspections[i].kind = "document" /\ inspections[i].status = "passed"

FindVoyage(user, question, v) ==
  /\ reader = IdleReader
  /\ VoyageFound(user.tenant, v)
  /\ reader' = [doing |-> "inspections", question |-> question,
                tenant |-> user.tenant, voyage |-> v,
                status |-> voyages[v].status, list |-> {},
                truths |-> {Truth(question, v)}]
  /\ UNCHANGED tables

ListInspections ==
  /\ reader.doing = "inspections"
  /\ reader' = [reader EXCEPT !.doing = "reservations",
                             !.list = InspectionRows(reader.voyage)]
  /\ UNCHANGED tables

ListReservationsOf ==
  /\ reader.doing = "reservations"
  /\ reader' = [doing |-> "answered", truths |-> reader.truths,
                answer |-> Verdict(reader.question, reader.status, reader.list,
                             ReservationsOf(reader.tenant, reader.voyage))]
  /\ UNCHANGED tables

-----------------------------------------------------------------------------
(***************************************************************************)
(* VerifyAuditChain, in one statement.  The hash of an event covers the    *)
(* nanoseconds of its instant, the column keeps microseconds: the hash     *)
(* recomputed from a row is the stored one if no digits were cut off.      *)
(***************************************************************************)
EventsOf(tenant) ==
  Ordered(EventRows(tenant), LAMBDA e, f : e.seq < f.seq)

\* Fault: the predecessor is not carried on.
VerifyFirst(events, cut) ==
  \A n \in DOMAIN events :
    events[n].seq = n /\ events[n].prev = NoID /\ events[n].id \notin cut

Verify(events, cut) ==
  \A n \in DOMAIN events :
    /\ events[n].seq = n
    /\ events[n].prev = IF n = 1 THEN NoID ELSE events[n - 1].id
    /\ events[n].id \notin cut

\* The clock decided when they were written which events lost digits.
VerifyAuditChain(user) ==
  /\ reader = IdleReader
  /\ user.role = "auditor"
  /\ \E cut \in SUBSET {e.id : e \in EventRows(user.tenant)} :
       reader' = [doing |-> "verified", cut |-> cut,
                  answer |-> Verify(EventsOf(user.tenant), cut)]
  /\ UNCHANGED tables

-----------------------------------------------------------------------------
\* What the ghosts of the reader see of the tables after a request.
Watch(r) ==
  CASE r.doing = "walk" ->
         [r EXCEPT !.stayed = @ \cap Matches(r.list, r.tenant, r.statuses)]
    [] r.doing \in {"inspections", "reservations"} ->
         [r EXCEPT !.truths = @ \cup {Truth(r.question, r.voyage)}]
    [] OTHER -> r

Request ==
  /\ reader.doing \notin {"walked", "answered", "verified"}
  /\ Cardinality(audit) < MaxEvents
  /\ AtomicNext
  /\ \E r \in {reader} : reader' = Watch(r)'

ReaderInit == AtomicInit /\ reader = IdleReader

ReaderNext ==
  \/ Request
  \/ \E user \in Users, limit \in Limits :
       \/ \E statuses \in Filters : FirstPage(user, "voyages", statuses, limit)
       \/ FirstPage(user, "audit", {}, limit)
  \/ NextPage
  \/ \E user \in Users, question \in {"eligibility", "overview"},
        v \in VoyageIDs : FindVoyage(user, question, v)
  \/ ListInspections
  \/ ListReservationsOf
  \/ \E user \in Users : VerifyAuditChain(user)

ReaderSpec == ReaderInit /\ [][ReaderNext]_readerVars

-----------------------------------------------------------------------------
\* A walk over all pages shows no row twice and shows them in order; it shows
\* every row that matched from the first page to the last, whatever was
\* written in between.  Of the audit trail it shows more: an event that was
\* recorded during the walk and not shown bears the very instant at which a
\* page was broken off, so no event of a later instant is ever skipped.
WalkExact ==
  reader.doing = "walked" =>
    /\ \A m, n \in DOMAIN reader.got :
         m < n => Less(reader.got[m], reader.got[n])
    /\ \A k \in reader.missed :
         /\ k \notin reader.stayed
         /\ reader.list = "audit" =>
              \E place \in reader.breaks : place[1] = k[1]

\* An answer put together from three statements was true at some instant of
\* the request, although no instant need show all that was read: a voyage is
\* called eligible only if ReservePassage would have taken it at the time, and
\* refused only if it would not have.
AnswerWasTrue == reader.doing = "answered" => reader.answer \in reader.truths

\* The verification finds fault with a chain that only the workflow wrote in
\* no other way than by the digits: whatever requests of whichever tenants
\* commit before it, it succeeds exactly if no event lost any.
VerifiesUnlessCut ==
  reader.doing = "verified" => (reader.answer <=> reader.cut = {})

-----------------------------------------------------------------------------
\* "Every connected workflow writes a tamper-evident tenant audit chain"
\* (README), and the chain's test: verifying events as they were appended
\* gives no error.
UntouchedVerifies == reader.doing = "verified" => reader.answer
=============================================================================
