----------------------------- MODULE MCQueries -----------------------------
(***************************************************************************)
(* Instances of Queries for TLC.                                           *)
(***************************************************************************)
EXTENDS Queries

\* Voyages 1 and 3 are expected at the same time, before voyage 2.
MCEta == [v \in VoyageIDs |-> IF v = 2 THEN 2 ELSE 1]
MCMaintenance == [c \in Chambers |-> {}]
Symmetry == Permutations(Tenants)
=============================================================================
