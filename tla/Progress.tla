------------------------------- MODULE Progress -------------------------------
(***************************************************************************)
(* Progress thresholds (progress.py, Controller._record_progress and the   *)
(* end of Controller.run): measured at the destination, saved in           *)
(* state.json and then announced in the log, once per import, over crashes *)
(* of the controller and of its host.                                      *)
(*                                                                         *)
(* state.json is the file of AtomicFile; of its fields only the thresholds *)
(* and whether the import is completed are kept.  A write of other fields  *)
(* is a measurement that crosses nothing.  Percentages are exact here,     *)
(* they are floats in the code.                                            *)
(***************************************************************************)
EXTENDS AtomicFile, Integers, FiniteSetsExt

CONSTANTS
  Files,          \* the manifest
  SizeOf,         \* their manifested sizes
  Thresholds      \* percentages, 10 to 100 in the code

VARIABLES
  run,            \* where the controller is; "off" when there is none
  crossed,        \* what it has to announce
  logged          \* how often each threshold was announced in this import

progressVars == <<fileVars, run, crossed, logged>>
announcements == <<crossed, logged>>

StateFiles == [emitted : SUBSET Thresholds, completed : BOOLEAN]
ASSUME ProgressAssumption ==
  /\ Values = StateFiles      \* the contents of AtomicFile
  /\ Thresholds \subseteq Int

FreshState == [emitted |-> {}, completed |-> FALSE]
Unlogged == [t \in Thresholds |-> 0]

ProgressTypeOK ==
  /\ FileTypeOK
  /\ run \in {"off", "monitor", "saving", "announcing", "handling", "handled"}
  /\ crossed \in SUBSET Thresholds
  /\ logged \in [Thresholds -> Nat]

-----------------------------------------------------------------------------
(* transferred_bytes and newly_crossed_thresholds *)

Absent == -1      \* there is no such regular file

(* What lies at the destination for one file: the size of its target and   *)
(* whether that has the manifested mtime, of the file in the partial       *)
(* directory, and of the largest temporary file of rsync.                  *)
Found(size) ==
  [target : Absent..size + 1, fresh : BOOLEAN, partial : Absent..size + 1, active : Absent..size]

EntryBytes(size, found) ==
  LET target == CASE found.target = size /\ found.fresh -> size
                  [] found.target < size                -> found.target
                  [] OTHER                              -> Absent
  IN Min({size, Max({0, target, found.partial, found.active})})

Total == MapThenSumSet(LAMBDA f : SizeOf[f], Files)

(* Every count that transferred_bytes can come to.                         *)
Counts ==
  LET Of(f) == {EntryBytes(SizeOf[f], found) : found \in Found(SizeOf[f])}
  IN {MapThenSumSet(LAMBDA f : bytes[f], Files) :
        bytes \in {b \in [Files -> 0..Total] : \A f \in Files : b[f] \in Of(f)}}

NewlyCrossed(count, emitted) ==
  {t \in Thresholds : t * Total <= count * 100} \ emitted

OnlyCrossed(emitted, new) == new      \* faulty variant: replaces the set
WithCrossed(emitted, new) == emitted \cup new

-----------------------------------------------------------------------------
(* The controller *)

(* initialize_state on the first run; a completed import is left alone.    *)
StartRun ==
  /\ run = "off"
  /\ step = "idle"
  /\ \/ path = Missing /\ BeginWrite(FreshState) /\ run' = "saving"
     \/ path # Missing /\ ~path.completed /\ run' = "monitor" /\ UNCHANGED fileVars
  /\ UNCHANGED announcements

(* _record_progress.                                                       *)
Measure ==
  /\ run = "monitor"
  /\ \E count \in Counts :
       /\ crossed' = NewlyCrossed(count, path.emitted)
       /\ BeginWrite([path EXCEPT !.emitted = WithCrossed(@, crossed')])
  /\ run' = "saving"
  /\ UNCHANGED logged

(* The closure completed.                                                  *)
CompleteImport ==
  /\ run = "monitor"
  /\ crossed' = Thresholds \ path.emitted
  /\ BeginWrite([emitted |-> path.emitted \cup Thresholds, completed |-> TRUE])
  /\ run' = "saving"
  /\ UNCHANGED logged

Saved ==
  /\ run = "saving"
  /\ step = "returned"
  /\ CallOver
  /\ run' = "announcing"
  /\ UNCHANGED announcements

(* The for loop over the crossed thresholds, which are in order.           *)
Announce ==
  /\ run = "announcing"
  /\ \/ \E t \in crossed :
          /\ \A u \in crossed : t <= u
          /\ logged' = [logged EXCEPT ![t] = @ + 1]
          /\ crossed' = crossed \ {t}
          /\ UNCHANGED run
     \/ /\ crossed = {}
        /\ run' = IF path.completed THEN "off" ELSE "monitor"
        /\ UNCHANGED announcements
  /\ UNCHANGED fileVars

(* The write raised: nothing is announced, and the handler of              *)
(* Controller.run writes the state once more.                              *)
SaveRaises ==
  /\ run = "saving"
  /\ step = "raised"
  /\ CallOver
  /\ run' = "handling"
  /\ crossed' = {}
  /\ UNCHANGED logged

RecordError ==
  /\ run = "handling"
  /\ \/ path = Missing /\ run' = "off" /\ UNCHANGED fileVars
     \/ path # Missing /\ BeginWrite(path) /\ run' = "handled"
  /\ UNCHANGED announcements

ErrorRecorded ==
  /\ run = "handled"
  /\ step \in {"returned", "raised"}
  /\ CallOver
  /\ run' = "off"
  /\ UNCHANGED announcements

WriteStep == CallStep /\ UNCHANGED <<run, announcements>>

(* The process is killed, or the host goes down with it.                   *)
CrashRun ==
  /\ KillWriter \/ HostGoesDown
  /\ run' = "off"
  /\ crossed' = {}
  /\ UNCHANGED logged

ResetProgress ==
  /\ run = "off"
  /\ UnlinkFile
  /\ logged' = Unlogged
  /\ UNCHANGED <<run, crossed>>

ProgressInit ==
  /\ FileInit
  /\ path = Missing
  /\ run = "off"
  /\ crossed = {}
  /\ logged = Unlogged

ProgressNext ==
  \/ StartRun \/ Measure \/ CompleteImport
  \/ Saved \/ Announce \/ SaveRaises \/ RecordError \/ ErrorRecorded
  \/ WriteStep
  \/ CrashRun \/ ResetProgress
  \/ WriteBack /\ UNCHANGED <<run, announcements>>

ProgressSpec == ProgressInit /\ [][ProgressNext]_progressVars

-----------------------------------------------------------------------------
(* Properties *)

(* Restarts do not repeat old notifications: no threshold is announced     *)
(* twice in an import, although the controller or the host may go down     *)
(* between the write and the announcement, or while the write is under way *)
(* (src/README.md:224-225, controller.py:155-177 and 326-329).             *)
NotRepeated == \A t \in Thresholds : logged[t] <= 1
=============================================================================
