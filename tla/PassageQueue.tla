---------------------------- MODULE PassageQueue ----------------------------
(***************************************************************************)
(* The queue before the locks (internal/passage/queue.go): vessels wait in *)
(* the order of their priority, and a standby vessel takes the place of a  *)
(* cancelled one.  The caller keeps the queue; the code arranges it.       *)
(***************************************************************************)
EXTENDS Integers, SequencesExt, Ordering

CONSTANTS
  EntryIDs,         \* ids of reservations, ordered like numbers
  Entries,          \* the entries that callers offer
  QueueTimes        \* the instants at which the queue is rearranged

Priorities == <<"emergency", "perishable", "scheduled", "standby">>

ASSUME QueueAssumption ==
  /\ Entries \subseteq
       [id : EntryIDs, priority : {Priorities[n] : n \in 1 .. 4}, starts : Nat,
        requested : Nat, deadline : Nat, reason : BOOLEAN, confirmed : BOOLEAN]
  /\ EntryIDs \subseteq Nat /\ QueueTimes \subseteq Nat

VARIABLE queue      \* the entries, as the caller holds them

-----------------------------------------------------------------------------
PriorityRank(e) == CHOOSE n \in DOMAIN Priorities : Priorities[n] = e.priority

\* 0 is a deadline that is not given.
ValidateQueueEntry(e) ==
  /\ e.confirmed
  /\ e.priority = "emergency" => e.reason
  /\ e.priority = "perishable" => e.deadline > e.requested

\* Rank, for perishables the deadline, then start, request and id.
SortKey(e) ==
  <<PriorityRank(e), IF e.priority = "perishable" THEN e.deadline ELSE 0,
    e.starts, e.requested, e.id>>
Precedes(e, f) ==
  \E n \in 1 .. 5 : /\ SortKey(e)[n] < SortKey(f)[n]
                    /\ \A m \in 1 .. n - 1 : SortKey(e)[m] = SortKey(f)[m]

CanOrder(entries) == \A e \in entries : ValidateQueueEntry(e)
\* Fault: the entries are put in the order of their ids.
OrderQueueByID(entries) == Ordered(entries, LAMBDA e, f : e.id < f.id)
OrderQueue(entries) == Ordered(entries, Precedes)

\* The places of the standby vessels that can still make their window.
EligibleStandby(ordered, now) ==
  {n \in DOMAIN ordered :
     ordered[n].priority = "standby" /\ ordered[n].starts >= now}

\* The first is promoted where it stands, and the queue is not sorted again.
Promote(ordered, now) ==
  LET eligible == EligibleStandby(ordered, now) IN
  IF eligible = {} THEN ordered
  ELSE [ordered EXCEPT ![Min(eligible)].priority = "scheduled"]

-----------------------------------------------------------------------------
IDsOf(entries) == {entries[n].id : n \in DOMAIN entries}

Join(entry) ==
  /\ entry.id \notin IDsOf(queue)
  /\ queue' = Append(queue, entry)

Arrange ==
  /\ CanOrder(ToSet(queue))
  /\ queue' = OrderQueue(ToSet(queue))

\* Also if nobody is eligible the arranged rest is returned, with an error.
\* An invalid entry in the rest returns nothing: the caller keeps its queue.
PromoteStandby(cancelled, now) ==
  LET remaining == {e \in ToSet(queue) : e.id # cancelled} IN
  /\ cancelled \in IDsOf(queue)
  /\ CanOrder(remaining)
  /\ queue' = Promote(OrderQueue(remaining), now)

QueueInit == queue = <<>>

QueueNext ==
  \/ \E entry \in Entries : Join(entry)
  \/ Arrange
  \/ \E cancelled \in EntryIDs, now \in QueueTimes : PromoteStandby(cancelled, now)

QueueSpec == QueueInit /\ [][QueueNext]_queue

-----------------------------------------------------------------------------
EntryOf(entries, id) == entries[CHOOSE n \in DOMAIN entries : entries[n].id = id]
PlaceOf(entries, id) == CHOOSE n \in DOMAIN entries : entries[n].id = id

\* Whatever the order in which entries came in, a cancellation costs nobody
\* else the place, and it promotes one vessel whenever there is one on standby
\* that can still make its window, else none.  Of those who can, none starts
\* before the promoted one, or at the same time after an earlier request.  And
\* the promoted one overtakes nobody of a higher priority.
StandbyAt(now) ==
  {id \in IDsOf(queue) : /\ EntryOf(queue, id).priority = "standby"
                         /\ EntryOf(queue, id).starts >= now}
FairTo(p, waiting) ==
  LET e == EntryOf(queue, p) IN
  /\ EntryOf(queue', p) = [e EXCEPT !.priority = "scheduled"]
  /\ \A other \in waiting \ {p} :
       LET f == EntryOf(queue, other) IN
       \/ f.starts > e.starts
       \/ f.starts = e.starts /\ f.requested >= e.requested
  /\ \A other \in IDsOf(queue') \ {p} :
       /\ EntryOf(queue', other) = EntryOf(queue, other)
       /\ PlaceOf(queue', other) > PlaceOf(queue', p) =>
            EntryOf(queue, other).priority = "standby"
PromotionFair ==
  [][\A cancelled \in EntryIDs, now \in QueueTimes :
       PromoteStandby(cancelled, now) =>
         LET waiting == StandbyAt(now) \ {cancelled} IN
         /\ Len(queue') = Len(queue) - 1
         /\ IDsOf(queue') = IDsOf(queue) \ {cancelled}
         /\ IF waiting = {}
              THEN \A id \in IDsOf(queue') : EntryOf(queue', id) = EntryOf(queue, id)
              ELSE \E p \in waiting : FairTo(p, waiting)]_queue
=============================================================================
