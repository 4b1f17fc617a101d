--------------------------- MODULE MCTripService ---------------------------
(***************************************************************************)
(* Symmetry for checking TripService with TLC.                             *)
(***************************************************************************)
EXTENDS TripService, TLC

\* Requests are told apart by nothing but their state.
RequestSymmetry == Permutations(Requests)

\* No trip is deleted: what goes wrong needs no reuse of a trip id.
TripsStay == \A t \in Trips : Live(t) => Live(t)'
=============================================================================
