---------------------------- MODULE StatusReport ----------------------------
(***************************************************************************)
(* status_record (cli.py): a process that looks at the state directory     *)
(* step by step and without the lock, while the owner of the lock runs the *)
(* import, verifies it or resets it, or dies.                              *)
(*                                                                         *)
(* Of the lock this module takes what InstanceLock shows: one owner at a   *)
(* time, none left behind, and a probe that is right.  Of a run it has     *)
(* every write of the fields that are reported, and leaves the reasons for *)
(* its errors open.                                                        *)
(***************************************************************************)
EXTENDS Integers

CONSTANTS
  Digests,         \* of manifests
  Workers,         \* rsyncs at a time
  NoDigest,        \* manifest.json does not exist
  NoRecord         \* state.json does not exist

VARIABLES
  manifestFile,    \* the digest in manifest.json
  stateFile,       \* the fields of state.json that are reported
  job,             \* what the owner of the lock is about; "free" if there is none
  asking,          \* where status is
  found,           \* the manifest it has loaded
  report,          \* the state it has loaded and is going to print
  glimpses,        \* history: "bare" and "half" directories during its call
  lost             \* history: digest and phase when manifest.json was removed under its hands

statusVars == <<manifestFile, stateFile, job, asking, found, report, glimpses, lost>>
files == <<manifestFile, stateFile>>
statusOnly == <<asking, found, report>>

Phases == {"initialized", "transfer", "reconciliation", "completed", "failed"}

StateRecords == [digest : Digests, phase : Phases, active : 0..Workers, error : BOOLEAN]

ASSUME StatusAssumption ==
  /\ Workers \in Nat
  /\ NoDigest \notin Digests
  /\ NoRecord \notin StateRecords

Jobs ==
  {"free", "load", "initialize", "decide", "begin", "transfer", "reconcile", "failing", "resumable",
   "over", "verify", "reset"}

Questions ==
  {"idle", "bare?", "partial?", "half?", "load", "loaded", "probe",
   "uninitialized", "partial", "error", "printed"}

StatusTypeOK ==
  /\ manifestFile \in Digests \cup {NoDigest}
  /\ stateFile \in StateRecords \cup {NoRecord}
  /\ job \in Jobs
  /\ asking \in Questions
  /\ found \in Digests \cup {NoDigest}
  /\ report \in StateRecords \cup {NoRecord}
  /\ glimpses \in SUBSET {"bare", "half"}
  /\ lost \in {<<>>} \cup Digests \X Phases

Fresh(digest) == [digest |-> digest, phase |-> "initialized", active |-> 0, error |-> FALSE]

HasManifest == manifestFile # NoDigest
HasState == stateFile # NoRecord

-----------------------------------------------------------------------------
(* The owner of the lock *)

TakeLock ==
  /\ job = "free"
  /\ job' \in {"load", "verify", "reset"}
  /\ UNCHANGED files

FreeLock ==
  /\ job \in {"over", "verify"}
  /\ job' = "free"
  /\ UNCHANGED files

(* _load_or_initialize with the first scan and save_manifest.              *)
LoadOrScan ==
  /\ job = "load"
  /\ \/ ~HasManifest /\ HasState /\ job' = "resumable" /\ UNCHANGED manifestFile
     \/ ~HasManifest /\ ~HasState /\ manifestFile' \in Digests /\ job' = "initialize"
     \/ /\ HasManifest
        /\ job' = IF ~HasState THEN "initialize"
                  ELSE IF stateFile.digest = manifestFile THEN "decide" ELSE "resumable"
        /\ UNCHANGED manifestFile
  /\ UNCHANGED stateFile

InitializeState ==
  /\ job = "initialize"
  /\ stateFile' = Fresh(manifestFile)
  /\ job' = "decide"
  /\ UNCHANGED manifestFile

(* The second scan matched.                                                *)
Decide ==
  /\ job = "decide"
  /\ \/ stateFile.phase = "completed" /\ job' = "over" /\ UNCHANGED stateFile
     \/ stateFile.phase = "failed" /\ job' = "failing" /\ UNCHANGED stateFile
     \/ /\ stateFile.phase # "completed"      \* --retry-failed
        /\ stateFile' = [stateFile EXCEPT !.phase = "initialized", !.error = FALSE]
        /\ job' = "begin"
     \/ stateFile.phase \notin {"completed", "failed"} /\ job' = "begin" /\ UNCHANGED stateFile
  /\ UNCHANGED manifestFile

Transferring ==
  /\ job = "begin"
  /\ stateFile' = [stateFile EXCEPT !.phase = "transfer", !.error = FALSE]
  /\ job' = "transfer"
  /\ UNCHANGED manifestFile

(* The monitor, and the writes of the scheduler, which set and clear       *)
(* last_error.                                                             *)
RecordProgress ==
  /\ job = "transfer"
  /\ \E active \in 0..Workers, error \in BOOLEAN :
       \/ stateFile' = [stateFile EXCEPT !.active = active]
       \/ stateFile' = [stateFile EXCEPT !.error = error]
  /\ UNCHANGED <<manifestFile, job>>

Reconciling ==
  /\ job = "transfer"
  /\ stateFile' = [stateFile EXCEPT !.phase = "reconciliation", !.active = 0]
  /\ job' = "reconcile"
  /\ UNCHANGED manifestFile

Completed ==
  /\ job = "reconcile"
  /\ stateFile' = [stateFile EXCEPT !.phase = "completed", !.active = 0, !.error = FALSE]
  /\ job' = "over"
  /\ UNCHANGED manifestFile

(* Any step of a run may raise, for good or, as a stop does, not.  The     *)
(* scan after _load_or_initialize is the first that can find the source    *)
(* changed, and no TransferError comes before it.                          *)
RunRaises ==
  /\ \/ job \in {"load", "initialize", "decide", "begin", "transfer", "reconcile"}
        /\ job' = "resumable"
     \/ job \in {"decide", "transfer", "reconcile"}
        /\ job' = "failing"
  /\ UNCHANGED files

(* _set_failed, _set_interrupted and _record_resumable_error, which may    *)
(* raise themselves.                                                       *)
FailedWithWorkers ==      \* faulty variant: the workers are not cleared
  [stateFile EXCEPT !.error = TRUE, !.phase = IF job = "failing" THEN "failed" ELSE @]

RecordedFailure ==
  [stateFile EXCEPT !.error = TRUE, !.phase = IF job = "failing" THEN "failed" ELSE @, !.active = 0]

RecordFailure ==
  /\ job \in {"failing", "resumable"}
  /\ \/ HasState /\ stateFile' = RecordedFailure
     \/ UNCHANGED stateFile
  /\ job' = "over"
  /\ UNCHANGED manifestFile

(* reset_state, in the order of the directory.                             *)
ResetUnlinks ==
  /\ job = "reset"
  /\ \/ HasManifest /\ manifestFile' = NoDigest /\ UNCHANGED <<stateFile, job>>
     \/ HasState /\ stateFile' = NoRecord /\ UNCHANGED <<manifestFile, job>>
     \/ ~HasManifest /\ ~HasState /\ job' = "over" /\ UNCHANGED files

OwnerDies ==
  /\ job # "free"
  /\ job' = "free"
  /\ UNCHANGED files

OwnerStep ==
  \/ TakeLock \/ FreeLock \/ LoadOrScan \/ InitializeState \/ Decide \/ Transferring
  \/ RecordProgress \/ Reconciling \/ Completed \/ RunRaises \/ RecordFailure
  \/ ResetUnlinks \/ OwnerDies

-----------------------------------------------------------------------------
(* status_record *)

Ask(from, to) == asking = from /\ asking' = to /\ UNCHANGED <<found, report>>

(* The first test: neither file exists.                                    *)
LookForManifest == Ask("idle", IF HasManifest THEN "partial?" ELSE "bare?")
LookForState == Ask("bare?", IF HasState THEN "partial?" ELSE "uninitialized")

(* The second test: one of them is missing.                                *)
LookAgain == Ask("partial?", IF HasManifest THEN "half?" ELSE "partial")
LookForStateAgain == Ask("half?", IF HasState THEN "load" ELSE "partial")

(* load_manifest raises when the file has gone.                            *)
ReadManifest ==
  /\ asking = "load"
  /\ found' = manifestFile
  /\ asking' = IF HasManifest THEN "loaded" ELSE "error"
  /\ UNCHANGED report

MatchUnchecked ==      \* faulty variant: the digests are not compared
  HasState

MatchesManifest ==
  HasState /\ stateFile.digest = found

ReadState ==
  /\ asking = "loaded"
  /\ IF MatchesManifest
     THEN report' = stateFile /\ asking' = "probe"
     ELSE asking' = "error" /\ UNCHANGED report
  /\ UNCHANGED found

(* lock_is_held, and the record that is printed.                           *)
ProbeLock ==
  /\ asking = "probe"
  /\ report' = IF job # "free" THEN report ELSE [report EXCEPT !.active = 0]
  /\ asking' = "printed"
  /\ UNCHANGED found

StatusEnds ==
  /\ asking \in {"uninitialized", "partial", "error", "printed"}
  /\ asking' = "idle"
  /\ found' = NoDigest
  /\ report' = NoRecord

StatusStep ==
  \/ LookForManifest \/ LookForState \/ LookAgain \/ LookForStateAgain
  \/ ReadManifest \/ ReadState \/ ProbeLock \/ StatusEnds

-----------------------------------------------------------------------------
(* What the directory looked like during the call.                         *)
Glimpse ==
  IF ~HasManifest /\ ~HasState THEN {"bare"}
  ELSE IF ~HasManifest \/ ~HasState THEN {"half"} ELSE {}

Witness ==
  /\ glimpses' = IF asking' \in {"bare?", "partial?", "half?", "uninitialized", "partial"}
                 THEN glimpses \cup Glimpse \cup Glimpse' ELSE {}
  /\ lost' = IF asking' # "loaded" THEN <<>>
             ELSE IF HasManifest /\ manifestFile' = NoDigest
             THEN IF HasState THEN <<stateFile.digest, stateFile.phase>> ELSE <<>>
             ELSE lost

StatusInit ==
  /\ manifestFile = NoDigest /\ stateFile = NoRecord
  /\ job = "free"
  /\ asking = "idle" /\ found = NoDigest /\ report = NoRecord
  /\ glimpses = {} /\ lost = <<>>

StatusNext ==
  /\ \/ OwnerStep /\ UNCHANGED statusOnly
     \/ StatusStep /\ UNCHANGED <<files, job>>
  /\ Witness

StatusSpec == StatusInit /\ [][StatusNext]_statusVars

-----------------------------------------------------------------------------
(* Properties *)

(* What status says of the state directory was true at one moment of its   *)
(* call, although it looks up to six times and holds no lock: the manifest *)
(* and the phase it prints lay there together, an uninitialized directory  *)
(* held neither file and a partial one held one of them (cli.py:58-85).    *)
ReportIsSnapshot ==
  [][/\ asking = "loaded" /\ asking' = "probe" =>
          manifestFile = found \/ lost = <<found, report'.phase>>
     /\ asking' = "uninitialized" => "bare" \in glimpses'
     /\ asking' = "partial" => "half" \in glimpses']_statusVars

(* A failed import is reported with an error and without workers, over any *)
(* order of failing, refused, retried and dying runs                       *)
(* (controller.py:179-209 and 222-243, src/README.md:198-202).             *)
FailureIsExplained ==
  report # NoRecord /\ report.phase = "failed" => report.error /\ report.active = 0

(* What src/README.md:198-202 says: status shows the active workers.  So   *)
(* some import is under way when it shows any.                             *)
WorkersAreLive ==
  [][asking' = "printed" /\ report'.active > 0 => job \notin {"free", "verify", "reset"}]_statusVars
=============================================================================
