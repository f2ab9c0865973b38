--------------------------- MODULE VoyageTimeline ---------------------------
(***************************************************************************)
(* clearance.ReconstructTimeline, which replays the events of a voyage     *)
(* under the transition table, over the histories that the workflow can    *)
(* write.  The events are read off the audit trail.                        *)
(***************************************************************************)
EXTENDS MovementHistory

\* The audit events that moved voyage v.
Trail(v) ==
  {e \in audit :
     \/ e.id[1] \in {"declare", "release"} /\ e.id[2] = v
     \/ e.id[1] = "inspection-open" /\ inspections[e.id[2]].voyage = v
     \/ e.id[1] = "reserve" /\ reservations[e.id[2]].voyage = v}
StatusAfter == [action \in {"declare", "inspection-open", "release", "reserve"} |->
                  CASE action = "declare" -> "declared"
                    [] action = "inspection-open" -> "held"
                    [] action = "release" -> "cleared"
                    [] action = "reserve" -> "scheduled"]

\* NewTimeline's event for the draft, and one for each event of the trail, in
\* the order of the chain.
VoyageEvents(v) ==
  {[status |-> "draft", version |-> 1, at |-> voyages[v].declaredAt]} \cup
  {[status |-> StatusAfter[e.id[1]], at |-> e.at,
    version |-> 1 + Cardinality({f \in Trail(v) : f.seq <= e.seq})] : e \in Trail(v)}

\* Fault: two events at one instant are refused.
AppendTimelineStrict(timeline, event) ==
  IF /\ event.version = timeline.version + 1 /\ event.at > timeline.at
     /\ TransitionOK([status |-> timeline.current], event.status, event.at)
    THEN [current |-> event.status, version |-> timeline.version + 1, at |-> event.at]
    ELSE [timeline EXCEPT !.current = "error"]

\* An error leaves the replay for good: no transition leads out of it.
AppendTimeline(timeline, event) ==
  IF /\ event.version = timeline.version + 1 /\ event.at >= timeline.at
     /\ TransitionOK([status |-> timeline.current], event.status, event.at)
    THEN [current |-> event.status, version |-> timeline.version + 1, at |-> event.at]
    ELSE [timeline EXCEPT !.current = "error"]

\* The events in the order of their versions; the first must be the draft.
ReconstructTimeline(events) ==
  LET ordered == Ordered(events, LAMBDA e, f : e.version < f.version)
      first == ordered[1]
      start == [current |-> IF first.version = 1 /\ first.status = "draft"
                              THEN "draft" ELSE "error",
                version |-> 1, at |-> first.at]
  IN FoldLeft(AppendTimeline, start, Tail(ordered))

-----------------------------------------------------------------------------
\* The audit trail of a voyage tells its row: replayed under the transition
\* table and in the order of time, which no request checks for the voyage it
\* moves, the events end in the status of the row, and the version of the row
\* counts them, so that none was lost and none came in between unrecorded.
TimelineReplays ==
  \A v \in VoyageIDs : Present(voyages[v]) =>
    LET timeline == ReconstructTimeline(VoyageEvents(v)) IN
    /\ timeline.current = voyages[v].status
    /\ timeline.version = voyages[v].version
=============================================================================
