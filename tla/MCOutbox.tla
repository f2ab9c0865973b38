------------------------------ MODULE MCOutbox ------------------------------
(***************************************************************************)
(* Instances of Outbox for TLC.                                            *)
(***************************************************************************)
EXTENDS Outbox, TLC

\* Worker processes on one host: the process id tells them apart.
OwnID == [w \in Workers |-> w]
Distinct == {OwnID}

\* Each worker the first process of its container: all are "worker-1".
SharedID == [w \in Workers |-> "worker-1"]
EitherID == {OwnID, SharedID}

Symmetry == Permutations(Jobs) \cup Permutations(Workers)
=============================================================================
