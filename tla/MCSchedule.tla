----------------------------- MODULE MCSchedule -----------------------------
(***************************************************************************)
(* Instances of Schedule for TLC, and beside it the queue and the          *)
(* manifests.  The three share no state: each is explored while the others *)
(* have not begun.                                                         *)
(***************************************************************************)
EXTENDS Schedule, PassageQueue, Manifests

CONSTANT c2

\* Chamber c2 is closed for an instant of the first day.
NoonClosed == [c \in Chambers |-> IF c = c2 THEN {Window(3, 4)} ELSE {}]

Symmetry == Permutations(Slots)

-----------------------------------------------------------------------------
Offer(priority, starts, requested, deadline, stated) ==
  {[id |-> id, priority |-> priority, starts |-> starts, requested |-> requested,
    deadline |-> deadline, reason |-> stated, confirmed |-> stated] : id \in EntryIDs}

\* The last one is not confirmed.
MCEntries ==
  UNION {Offer("standby", 1, 1, 0, TRUE), Offer("standby", 2, 1, 0, TRUE),
         Offer("standby", 2, 2, 0, TRUE), Offer("scheduled", 2, 1, 0, TRUE),
         Offer("perishable", 1, 1, 2, TRUE), Offer("emergency", 1, 2, 0, TRUE),
         Offer("standby", 1, 1, 0, FALSE)}

\* The container a1 is written in lower case.
Upper == [c \in ContainerNos |-> IF c = "a1" THEN "A1" ELSE c]

-----------------------------------------------------------------------------
all == <<booked, queue, manifest>>

AllInit == ScheduleInit /\ QueueInit /\ ManifestInit

AllNext ==
  \/ /\ ScheduleNext
     /\ QueueInit /\ ManifestInit
     /\ UNCHANGED <<queue, manifest>>
  \/ /\ QueueNext
     /\ ScheduleInit /\ ManifestInit
     /\ UNCHANGED <<booked, manifest>>
  \/ /\ ManifestNext
     /\ ScheduleInit /\ QueueInit
     /\ UNCHANGED <<booked, queue>>

AllSpec == AllInit /\ [][AllNext]_all
=============================================================================
