---------------------------- MODULE MCScheduler ----------------------------
(***************************************************************************)
(* Model checking of Scheduler: the entries and the messages are           *)
(* interchangeable, the worker ids are not (they are numbers).             *)
(***************************************************************************)
EXTENDS Scheduler, TLC

Symmetry == Permutations(Entries) \cup Permutations(Messages)
=============================================================================
