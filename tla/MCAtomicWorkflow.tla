--------------------------- MODULE MCAtomicWorkflow ---------------------------
(***************************************************************************)
(* Instances of AtomicWorkflow, with its histories, for TLC.               *)
(***************************************************************************)
EXTENDS VoyageTimeline

CONSTANTS c2

\* Chamber c2 is closed for maintenance from instant 2 on.
MCMaintenance ==
  [c \in Chambers |-> IF c = c2 THEN {[from |-> 2, to |-> 4]} ELSE {}]

Symmetry ==
  Permutations(VoyageIDs) \cup Permutations(InspectionIDs)
    \cup Permutations(ReservationIDs) \cup Permutations(Tenants)
=============================================================================
