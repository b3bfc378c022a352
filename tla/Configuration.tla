---------------------------- MODULE Configuration ----------------------------
(***************************************************************************)
(* load_config (config.py): which configuration files are accepted.  What  *)
(* Pacing assumes of workers, attempts and times is what this module lets  *)
(* through.                                                                *)
(*                                                                         *)
(* A file is a record of what is decided about; a default is a value like  *)
(* any other.  Times are ticks, and the jitter is in halves.  Resolving    *)
(* and comparing paths is left to one field.                               *)
(***************************************************************************)
EXTENDS Integers

CONSTANTS
  NotANumber,      \* a TOML value of another type, a bool, inf or nan
  ConfigFiles      \* the files that are tried

Numbers == {"workers", "attempts", "initial", "maximum", "stagger", "jitter", "poll", "window", "timeout"}

ASSUME FilesAssumption ==
  \A file \in ConfigFiles : \A key \in Numbers : file[key] \in Int \cup {NotANumber}

(* _number, _bounded_nonnegative_number and the two integers.              *)
Positive(v) == v # NotANumber /\ v > 0
AtLeastZero(v) == v # NotANumber /\ v >= 0
InRange(v, first, last) == v # NotANumber /\ first <= v /\ v <= last

(* _table, _unknown, _nonempty_string and the tests of source and paths.   *)
WellFormed(file) ==
  /\ file.tables = "known"            \* every table and no key but the known
  /\ file.login = "plain"             \* no white space or leading '-', options are texts
  /\ file.paths = "absolute"
  /\ file.trees = "apart"             \* resolved, neither is the other or above it
  /\ file.partial = "component"       \* not empty, ".", ".." or a longer path

Accepts(file) ==
  /\ WellFormed(file)
  /\ InRange(file.workers, 1, 256)
  /\ InRange(file.attempts, 1, 100)
  /\ Positive(file.initial) /\ Positive(file.maximum) /\ file.maximum >= file.initial
  /\ AtLeastZero(file.stagger)
  /\ InRange(file.jitter, 0, 2)
  /\ Positive(file.poll) /\ Positive(file.window) /\ Positive(file.timeout)
=============================================================================
