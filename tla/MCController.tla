--------------------------- MODULE MCController ---------------------------
(***************************************************************************)
(* Model checking of the safety of Controller: the entries and the         *)
(* snapshots are interchangeable.                                          *)
(***************************************************************************)
EXTENDS Controller, TLC

Symmetry == Permutations(Entries) \cup Permutations(Snapshots)
=============================================================================
