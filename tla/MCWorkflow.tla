------------------------------ MODULE MCWorkflow ------------------------------
(***************************************************************************)
(* Instances of Workflow for TLC.                                          *)
(***************************************************************************)
EXTENDS Workflow, TLC

NoMaintenance == [c \in Chambers |-> {}]

Symmetry ==
  Permutations(VoyageIDs) \cup Permutations(InspectionIDs)
    \cup Permutations(ReservationIDs) \cup Permutations(Tenants)
    \cup Permutations(Requests)
=============================================================================
