-------------------------- MODULE ComponentsProofs --------------------------
(***************************************************************************)
(* Theorems about the components side by side: what is proved of each by   *)
(* itself holds of the whole, for any constants.                           *)
(***************************************************************************)
EXTENDS MCComponents, LockAndStatusProofs, StoredFilesProofs, PacingProofs

(* A step of one part is a step of that part, and a stutter of the others. *)
LEMMA StepOfParts ==
  ASSUME [MCNext]_MCVars
  PROVE  /\ [Next]_vars /\ [StatusNext]_statusVars /\ [ManifestNext]_manifestVars
         /\ [RecordNext]_recordVars /\ [ProgressNext]_progressVars /\ [RateNext]_rateVars
         /\ [BalanceNext]_balanceVars /\ [PacingNext]_pacingVars /\ [DirectoryNext]_directoryVars
  BY DEF MCNext, MCVars

(* Each component behaves as its own specification says, whichever of them *)
(* moves; so a theorem about one is a theorem about the whole.             *)
THEOREM PartsRun ==
  MCSpec => /\ Spec /\ StatusSpec /\ ManifestSpec /\ RecordSpec /\ ProgressSpec
            /\ RateSpec /\ BalanceSpec /\ PacingSpec /\ DirectorySpec
  <1>1. MCInit => /\ Init /\ StatusInit /\ ManifestInit /\ RecordInit /\ ProgressInit
                  /\ RateInit /\ BalanceInit /\ PacingInit /\ DirectoryInit
    BY DEF MCInit
  <1>2. [MCNext]_MCVars =>
          /\ [Next]_vars /\ [StatusNext]_statusVars /\ [ManifestNext]_manifestVars
          /\ [RecordNext]_recordVars /\ [ProgressNext]_progressVars /\ [RateNext]_rateVars
          /\ [BalanceNext]_balanceVars /\ [PacingNext]_pacingVars /\ [DirectoryNext]_directoryVars
    BY StepOfParts
  <1>3. QED
    BY <1>1, <1>2, PTL DEF MCSpec, Spec, StatusSpec, ManifestSpec, RecordSpec, ProgressSpec,
         RateSpec, BalanceSpec, PacingSpec, DirectorySpec

(* The variables of the lock, of the report and of the notifications keep  *)
(* their types (locking.py:12-66, cli.py:58-116, util.py:37-63).           *)
THEOREM TypesCorrect == MCSpec => []TypesOK
  <1>1. StatusInv => StatusTypeOK
    BY DEF StatusInv
  <1>2. ProgressInv => ProgressTypeOK
    BY ContentsAssumption
       DEF ProgressInv, FileInv, Positions, ProgressTypeOK, FileTypeOK, CallSteps
  <1>3. QED
    BY <1>1, <1>2, PartsRun, TypeCorrect, StatusInvariant, ProgressInvariant, PTL DEF TypesOK

(* Every invariant and action property of the components holds of them     *)
(* side by side, for any constants.                                        *)
THEOREM ComponentsCorrect ==
  MCSpec => /\ [](OneOwner /\ PidNamesOwner /\ GivenBack) /\ ProbeIsRight
            /\ []FailureIsExplained /\ ReportIsSnapshot
            /\ [](ListsARealSource /\ LoadedIsSaved)
            /\ []UpgradeLosesNothing /\ []BegunIsKept
            /\ []NotRepeated /\ AtomicRegister
            /\ []RateIsWindowed
            /\ []NearOptimal
            /\ []SleepsRight /\ StartsArePaced
  BY PartsRun, MutualExclusion, FileNamesOwner, NothingKept, ProbesAreRight, FailureExplained,
     SnapshotReported, WorksFromSource, WorksFromSaved, UpgradeIsSafe, BegunKept,
     AnnouncedOnce, ProgressUsesFile, RateWindowed, DealtWell, SleepIsRight, StartsPaced, PTL
=============================================================================
