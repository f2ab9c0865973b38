--------------------------- MODULE MovementHistory ---------------------------
(***************************************************************************)
(* passage.ValidateMovementHistory, the check of a reservation against the *)
(* movements recorded for it, over the histories that the workflow can     *)
(* write.                                                                  *)
(***************************************************************************)
EXTENDS AtomicWorkflow, Ordering, SequencesExt

\* The order of the sort: time, then the status as a text.
Alphabet == <<"cancelled", "confirmed", "entered", "exited", "reserved">>
Rank(status) == CHOOSE n \in DOMAIN Alphabet : Alphabet[n] = status
Before(m, n) ==
  m.at < n.at \/ (m.at = n.at /\ Rank(m.status) < Rank(n.status))

\* Which movement may follow in which status.
Follows == {<<"confirmed", "entered">>, <<"confirmed", "cancelled">>,
            <<"entered", "exited">>}

\* Fault: two movements at one instant are refused.
ReplayStrict(state, m) ==
  IF m.at > state.lastTime /\ <<state.status, m.status>> \in Follows
    THEN [status |-> m.status, lastTime |-> m.at]
    ELSE [status |-> "error", lastTime |-> state.lastTime]
Replay(state, m) ==
  IF m.at >= state.lastTime /\ <<state.status, m.status>> \in Follows
    THEN [status |-> m.status, lastTime |-> m.at]
    ELSE [status |-> "error", lastTime |-> state.lastTime]

ValidateMovementHistory(r) ==
  LET ordered == Ordered({m \in movements : m.reservation = r}, Before)
      start == [status |-> "confirmed",
                lastTime |-> reservations[r].starts - EntryLead]
  IN FoldLeft(Replay, start, ordered).status = reservations[r].status

-----------------------------------------------------------------------------
\* The validation accepts what MovePassage has recorded, an entry and an exit
\* at the same instant included, unless the slot was cancelled before the
\* moment at which a vessel could have entered.
HistoryReplays ==
  \A r \in ReservationIDs : Present(reservations[r]) =>
    (ValidateMovementHistory(r) <=>
       \A m \in movements : m.reservation = r /\ m.status = "cancelled" =>
         m.at >= reservations[r].starts - EntryLead)
=============================================================================
