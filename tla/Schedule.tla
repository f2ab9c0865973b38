------------------------------ MODULE Schedule ------------------------------
(***************************************************************************)
(* Finding room in the lock chambers (internal/passage schedule.go and     *)
(* NextAvailable, over the window arithmetic of internal/domain).  The     *)
(* state is what has been booked; the algorithms are operators on it, and  *)
(* what they answer is compared with what "free" means.                    *)
(*                                                                         *)
(* Windows are half open, times are natural numbers and a day has DayLength *)
(* of them.                                                                *)
(***************************************************************************)
EXTENDS Integers, SequencesExt, Ordering

CONSTANTS
  Chambers,
  Slots,            \* ids of reservations
  Maintenance,      \* chamber -> the set of its maintenance windows, 0 or 1
  Fitting,          \* the chambers the vessel at hand fits
  DayLength, OperatingFrom, OperatingTo, Buffer,
  MaxPassage,       \* the longest passage: 3 hours in the code
  Days              \* how many days are planned ahead: 31 in the code

\* SchedulePolicy.Validate
ValidPolicy ==
  /\ 0 <= OperatingFrom /\ OperatingFrom < OperatingTo
  /\ OperatingTo <= DayLength
  /\ Buffer \in Nat

ASSUME ScheduleAssumption ==
  /\ ValidPolicy
  /\ {DayLength, OperatingFrom, OperatingTo, MaxPassage, Days} \subseteq Nat
  /\ MaxPassage > 0
  /\ Fitting \subseteq Chambers
  /\ IsFiniteSet(Slots) /\ \A c \in Chambers : IsFiniteSet(Maintenance[c])
  /\ Maintenance \in
       [Chambers -> SUBSET {w \in [from : Nat, to : Nat] : w.from < w.to}]

VARIABLE booked     \* slot -> reservation, or NoSlot

-----------------------------------------------------------------------------
(***************************************************************************)
(* internal/domain/timewindow.go                                           *)
(***************************************************************************)
Window(from, to) == [from |-> from, to |-> to]
Overlaps(v, w) == v.from < w.to /\ w.from < v.to

\* One pass over the windows in order: extend the last or begin another.
MergeOne(merged, w) ==
  LET last == Last(merged) IN
  IF merged = <<>> \/ w.from > last.to THEN Append(merged, w)
  ELSE IF w.to > last.to THEN Append(Front(merged), Window(last.from, w.to))
  ELSE merged
InOrder(v, w) == v.from < w.from \/ (v.from = w.from /\ v.to < w.to)
MergeWindows(windows) ==
  FoldLeft(MergeOne, <<>>, Ordered(windows, InOrder))

\* What is left of base: a cursor moves over the merged windows.
Later(s, t) == IF s > t THEN s ELSE t
Earlier(s, t) == IF s < t THEN s ELSE t
\* Fault: a gap of exactly the minimum is dropped.
SkipStrict(base, minimum, state, w) ==
  LET start == Later(w.from, base.from) IN
  IF ~Overlaps(w, base) THEN state
  ELSE [cursor |-> Earlier(Later(state.cursor, w.to), base.to),
        available |-> IF start - state.cursor > minimum
                        THEN Append(state.available, Window(state.cursor, start))
                        ELSE state.available]
Skip(base, minimum, state, w) ==
  LET start == Later(w.from, base.from) IN
  IF ~Overlaps(w, base) THEN state
  ELSE [cursor |-> Earlier(Later(state.cursor, w.to), base.to),
        available |-> IF start - state.cursor >= minimum
                        THEN Append(state.available, Window(state.cursor, start))
                        ELSE state.available]
SubtractWindows(base, blocked, minimum) ==
  LET end == FoldLeft(LAMBDA state, w : Skip(base, minimum, state, w),
                      [cursor |-> base.from, available |-> <<>>],
                      MergeWindows(blocked))
  IN IF base.to - end.cursor >= minimum
       THEN Append(end.available, Window(end.cursor, base.to))
       ELSE end.available

-----------------------------------------------------------------------------
(***************************************************************************)
(* internal/passage/schedule.go                                            *)
(***************************************************************************)
NoSlot == [status |-> "absent"]

\* The reservations of a chamber that are not cancelled.
Active(chamber) ==
  {booked[s] : s \in {t \in Slots : /\ booked[t].status = "confirmed"
                                    /\ booked[t].chamber = chamber}}

DailyOperatingWindow(day) ==
  Window(day * DayLength + OperatingFrom, day * DayLength + OperatingTo)

AvailableWindows(chamber, day, duration) ==
  LET buffered == {Window(r.from - Buffer, r.to + Buffer) : r \in Active(chamber)}
  IN SubtractWindows(DailyOperatingWindow(day),
                     buffered \cup Maintenance[chamber], duration)

\* Fault: a window that the passage fills to the end is left out.
CandidatesStrict(chamber, day, earliest, duration) ==
  LET windows == AvailableWindows(chamber, day, duration) IN
  {n \in DOMAIN windows : Later(windows[n].from, earliest) + duration < windows[n].to}

\* RankSlotCandidates: the windows of a day that still hold the passage ...
Candidates(chamber, day, earliest, duration) ==
  LET windows == AvailableWindows(chamber, day, duration) IN
  {n \in DOMAIN windows : Later(windows[n].from, earliest) + duration <= windows[n].to}
\* ... of which the first on the first such day is the chamber's candidate.
RankChamber(chamber, earliest, duration) ==
  LET first == earliest \div DayLength
      days == {d \in first .. first + Days - 1 :
                 Candidates(chamber, d, earliest, duration) # {}}
      window == AvailableWindows(chamber, Min(days), duration)
                  [Min(Candidates(chamber, Min(days), earliest, duration))]
  IN IF days = {} THEN {}
     ELSE {[chamber |-> chamber, start |-> Later(window.from, earliest)]}
RankSlotCandidates(earliest, duration) ==
  UNION {RankChamber(c, earliest, duration) : c \in Fitting}

(***************************************************************************)
(* internal/passage/model.go                                               *)
(***************************************************************************)
\* Fault: a passage may not end where the next one starts.
PassStrict(duration, state, r) ==
  IF state.found \/ state.candidate + duration < r.from
    THEN [state EXCEPT !.found = TRUE]
    ELSE [state EXCEPT !.candidate = Later(@, r.to)]

\* One pass over the reservations in order, left at the first that is far
\* enough away; the maintenance window is looked at once, at the end.
Pass(duration, state, r) ==
  IF state.found \/ state.candidate + duration <= r.from
    THEN [state EXCEPT !.found = TRUE]
    ELSE [state EXCEPT !.candidate = Later(@, r.to)]
FirstGap(windows, earliest, duration) ==
  FoldLeft(LAMBDA state, w : Pass(duration, state, w),
           [candidate |-> earliest, found |-> FALSE],
           Ordered(windows, InOrder)).candidate
NextAvailable(chamber, earliest, duration) ==
  LET active == {Window(r.from, r.to) : r \in {q \in Active(chamber) : q.to > earliest}}
      candidate == FirstGap(active, earliest, duration)
      hit == {w \in Maintenance[chamber] :
                Overlaps(Window(candidate, candidate + duration), w)}
  IN IF hit = {} THEN candidate ELSE (CHOOSE w \in hit : TRUE).to

(***************************************************************************)
(* ChamberUtilization of internal/passage/operations.go is this time, as a *)
(* fraction of the window.                                                 *)
(***************************************************************************)
\* Fault: a passage that began before the window counts from its beginning.
ClipEnd(w, window) == Window(w.from, Earlier(w.to, window.to))
Clip(w, window) ==
  Window(Later(w.from, window.from), Earlier(w.to, window.to))
AddLength(sum, w) == sum + (w.to - w.from)
OccupiedTime(chamber, window) ==
  LET passages == {Window(r.from, r.to) : r \in Active(chamber)}
      clipped == {Clip(w, window) : w \in {p \in passages : Overlaps(p, window)}}
  IN FoldLeft(AddLength, 0, MergeWindows(clipped))

\* Reserve accepts the slot, for a vessel that fits.
Free(chamber, from, to) ==
  /\ \A w \in Maintenance[chamber] : ~Overlaps(Window(from, to), w)
  /\ \A r \in Active(chamber) : ~Overlaps(Window(from, to), r)

-----------------------------------------------------------------------------
Times == 0 .. Days * DayLength

ReserveSlot(s, chamber, from, to) ==
  /\ booked[s] = NoSlot
  /\ from < to /\ to - from <= MaxPassage
  /\ Free(chamber, from, to)
  /\ booked' = [booked EXCEPT ![s] = [status |-> "confirmed", chamber |-> chamber,
                                      from |-> from, to |-> to]]

CancelSlot(s) ==
  /\ booked[s].status = "confirmed"
  /\ booked' = [booked EXCEPT ![s].status = "cancelled"]

ScheduleInit == booked = [s \in Slots |-> NoSlot]

ScheduleNext ==
  \E s \in Slots :
    \/ \E chamber \in Chambers, from \in Times, to \in Times :
         ReserveSlot(s, chamber, from, to)
    \/ CancelSlot(s)

ScheduleSpec == ScheduleInit /\ [][ScheduleNext]_booked

-----------------------------------------------------------------------------
Durations == 1 .. MaxPassage
DaysAhead == 0 .. Days - 1

\* A slot that keeps the buffer: free, and with its distance to the passages
\* before and after it, inside the operating hours of the day.
KeepsBuffer(chamber, day, from, to) ==
  LET base == DailyOperatingWindow(day) IN
  /\ base.from <= from /\ to <= base.to
  /\ \A w \in Maintenance[chamber] : ~Overlaps(Window(from, to), w)
  /\ \A r \in Active(chamber) :
       ~Overlaps(Window(from, to), Window(r.from - Buffer, r.to + Buffer))

\* AvailableWindows tells exactly where a passage fits: a slot is inside one
\* of the windows it returns if and only if it keeps the buffer.  So nothing
\* it offers is refused by Reserve, and it hides no room.  The windows come in
\* order and apart.
AvailableExact ==
  \A chamber \in Chambers, day \in DaysAhead, duration \in Durations :
    LET windows == AvailableWindows(chamber, day, duration)
        base == DailyOperatingWindow(day)
    IN /\ \A from \in base.from .. base.to - duration :
            KeepsBuffer(chamber, day, from, from + duration) <=>
              \E n \in DOMAIN windows :
                windows[n].from <= from /\ from + duration <= windows[n].to
       /\ \A n \in DOMAIN windows :
            n > 1 => windows[n - 1].to < windows[n].from

\* The candidate RankSlotCandidates offers for a chamber is the first start,
\* not before the wish, of a slot that keeps the buffer on any day ahead, and
\* a chamber has no candidate only if there is no such slot.
RankedFirst ==
  \A earliest \in 0 .. DayLength - 1, duration \in Durations, chamber \in Fitting :
    LET starts == {t \in earliest .. Days * DayLength :
                     \E day \in DaysAhead :
                       KeepsBuffer(chamber, day, t, t + duration)}
        offered == {c.start : c \in {d \in RankSlotCandidates(earliest, duration) :
                                       d.chamber = chamber}}
    IN offered = IF starts = {} THEN {} ELSE {Min(starts)}

\* The utilization counts every instant of the window at which the chamber is
\* taken, once, and no other: passages that touch, or that reach over the ends
\* of the window, are neither counted twice nor counted whole.
UtilizationExact ==
  \A chamber \in Chambers, from \in Times, length \in {1, MaxPassage, DayLength} :
    OccupiedTime(chamber, Window(from, from + length)) =
      Cardinality({t \in from .. from + length - 1 :
                     \E r \in Active(chamber) : r.from <= t /\ t < r.to})

\* Where maintenance does not come in, NextAvailable is exact: if the first
\* start at which no passage is in the way is clear of the maintenance too, it
\* is the answer, so that the answer is free and nothing before it is.
NextAvailableFirst ==
  \A chamber \in Chambers, earliest \in Times, duration \in Durations :
    LET t == NextAvailable(chamber, earliest, duration)
        between(u) == \A r \in Active(chamber) : ~Overlaps(Window(u, u + duration), r)
        first == CHOOSE u \in earliest .. (Days + 1) * DayLength :
                   between(u) /\ \A w \in earliest .. u - 1 : ~between(w)
        clear == \A w \in Maintenance[chamber] :
                   ~Overlaps(Window(first, first + duration), w)
    IN clear => t = first

-----------------------------------------------------------------------------
\* "NextAvailable skips busy and maintenance" (TestNextAvailableSkipsBusyAnd-
\* Maintenance, and the name): the slot at the time it returns is free.
NextAvailableSkips ==
  \A chamber \in Chambers, earliest \in Times, duration \in Durations :
    LET t == NextAvailable(chamber, earliest, duration)
    IN Free(chamber, t, t + duration)
=============================================================================
