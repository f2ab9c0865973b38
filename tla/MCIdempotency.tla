---------------------------- MODULE MCIdempotency ----------------------------
(***************************************************************************)
(* Instances of Idempotency for TLC.                                       *)
(***************************************************************************)
EXTENDS Idempotency, TLC

\* Two different bodies for one voyage.
OneVoyage == [c \in Commands |-> CHOOSE v \in Voyages : TRUE]

Symmetry == Permutations(Calls) \cup Permutations(Commands)
=============================================================================
