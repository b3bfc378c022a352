----------------------------- MODULE Controller -----------------------------
(***************************************************************************)
(* Controller.run (controller.py) and reset (cli.py): the life of an import *)
(* over any number of controller processes.  state.json and manifest.json  *)
(* outlive a crash, everything else does not.                              *)
(*                                                                         *)
(* The transfer phase is the abstract one of TransferPhase; Scheduler is   *)
(* shown to implement it.  The import lock (InstanceLock) is what makes    *)
(* `ctl' a single program counter: run and reset exclude each other.       *)
(*                                                                         *)
(* Abstracted: a snapshot of the source is a value that two scans compare; *)
(* the destination is the set `current' of entries whose file has the size *)
(* and mtime of the manifest; last_error, progress and worker counts are   *)
(* left out.  rsync children end with the controller that started them.    *)
(***************************************************************************)
EXTENDS TransferPhase

CONSTANTS
  Snapshots,   \* the contents the source may have
  NoFile       \* the manifest or the state file does not exist

ASSUME SnapshotsAssumption == NoFile \notin Snapshots /\ Snapshots # {}

VARIABLES
  source,      \* what a scan of the source finds now
  manifest,    \* manifest.json: the snapshot it records
  digest,      \* state.json: "manifest_digest", NoFile when there is no state.json
  phase,       \* state.json: "phase"
  ctl,         \* where the process that holds the lock is; "idle" when none does
  retry,       \* the argument --retry-failed
  err          \* the exception that is propagating

controlVars == <<source, manifest, digest, phase, ctl, retry, err>>
vars == <<transferVars, controlVars>>
work == <<current, pending, copied, outcome>>
files == <<manifest, digest, phase>>

Phases == {"initialized", "transfer", "reconciliation", "completed", "failed"}
Steps == {"prereq", "load", "initialize", "check", "decide", "transferring",
          "recover", "transfer", "recheck", "reconciling", "reconcile",
          "lastcheck", "verify", "complete", "except"}
Errors == {"none", "terminal", "other"}

TypeOK ==
  /\ TransferTypeOK
  /\ source \in Snapshots
  /\ manifest \in Snapshots \cup {NoFile}
  /\ digest \in Snapshots \cup {NoFile}
  /\ phase \in Phases
  /\ ctl \in Steps \cup {"idle", "reset"}
  /\ retry \in BOOLEAN
  /\ err \in Errors

NoAttempts == [e \in Entries |-> 0]

-----------------------------------------------------------------------------
(* Helpers *)

Goto(next) == ctl' = next /\ UNCHANGED err

(* SourceChangedError and TransferError are terminal, every other          *)
(* exception (ManifestError, PrerequisiteError, StateError, OSError) is    *)
(* not.                                                                    *)
Raises(kind) == ctl' = "except" /\ err' = kind

(* A write that has replaced the file may still raise.                     *)
Wrote(next) == Goto(next) \/ Raises("other")

NoScheduler == outcome' = "off" /\ pending' = {} /\ copied' = {}

(* The process is gone; what it kept in memory is forgotten.               *)
Leave ==
  /\ ctl' = "idle"
  /\ retry' = FALSE
  /\ err' = "none"
  /\ stopping' = FALSE
  /\ NoScheduler

(* assert_same_source(manifest, scanner.scan()): the scan is refused by a  *)
(* stopping runner (status 143).                                           *)
ScanWhileStopping(next) ==      \* faulty variant: scans although it is stopping
  \/ source = manifest /\ Goto(next)
  \/ source # manifest /\ Raises("terminal")

CheckSource(next) ==
  \/ ~stopping /\ source = manifest /\ Goto(next)
  \/ ~stopping /\ source # manifest /\ Raises("terminal")
  \/ Raises("other")

-----------------------------------------------------------------------------
(* Controller.run *)

(* main: a new process takes the lock.                                     *)
Start(retryFailed) ==
  /\ ctl = "idle"
  /\ ctl' = "prereq"
  /\ retry' = retryFailed
  /\ UNCHANGED <<transferVars, source, files, err>>

(* verify_prerequisites and mkdir of the destination.                      *)
Prerequisites ==
  /\ ctl = "prereq"
  /\ (~stopping /\ Goto("load")) \/ Raises("other")
  /\ UNCHANGED <<transferVars, source, files, retry>>

(* _load_or_initialize on the first run: scan and save the manifest.  What *)
(* the destination already holds is compared with this new manifest from   *)
(* now on.                                                                 *)
FirstManifest ==
  /\ ctl = "load"
  /\ manifest = NoFile
  /\ digest = NoFile
  /\ \/ /\ ~stopping
        /\ manifest' = source
        /\ current' \in SUBSET Entries
        /\ Wrote("initialize")
     \/ /\ Raises("other")
        /\ UNCHANGED <<manifest, current>>
  /\ UNCHANGED <<disk, pending, copied, stopping, outcome, source, digest, phase, retry>>

(* A state without a manifest is refused.                                  *)
RegenerateManifest ==      \* faulty variant: scans again and goes on
  /\ ctl = "load"
  /\ manifest = NoFile
  /\ digest # NoFile
  /\ manifest' = source
  /\ Goto("check")
  /\ UNCHANGED <<transferVars, source, digest, phase, retry>>

RefuseMissingManifest ==
  /\ ctl = "load"
  /\ manifest = NoFile
  /\ digest # NoFile
  /\ Raises("other")
  /\ UNCHANGED <<transferVars, source, files, retry>>

(* A manifest without a state is the trace of an interrupted first run: it *)
(* gets an empty state.  A state of another manifest is refused.           *)
RefuseMissingState ==      \* faulty variant: both files or none
  /\ ctl = "load"
  /\ manifest # NoFile
  /\ \/ digest = manifest /\ Goto("check")
     \/ Raises("other")
  /\ UNCHANGED <<transferVars, source, files, retry>>

LoadExisting ==
  /\ ctl = "load"
  /\ manifest # NoFile
  /\ \/ digest = NoFile /\ Goto("initialize")
     \/ digest = manifest /\ Goto("check")
     \/ Raises("other")
  /\ UNCHANGED <<transferVars, source, files, retry>>

(* initialize_state and its first save.                                    *)
InitializeState ==
  /\ ctl = "initialize"
  /\ digest' = manifest
  /\ phase' = "initialized"
  /\ completed' = {}
  /\ failed' = {}
  /\ attempts' = NoAttempts
  /\ Wrote("check")
  /\ UNCHANGED <<work, stopping, source, manifest, retry>>

Check ==
  /\ ctl = "check"
  /\ CheckSource("decide")
  /\ UNCHANGED <<transferVars, source, files, retry>>

(* A completed import is left alone.                                       *)
AlreadyCompleted ==
  /\ ctl = "decide"
  /\ phase = "completed"
  /\ Leave
  /\ UNCHANGED <<disk, current, source, files>>

(* A failed import waits for --retry-failed.                               *)
RefuseFailed ==
  /\ ctl = "decide"
  /\ phase = "failed"
  /\ ~retry
  /\ Raises("terminal")
  /\ UNCHANGED <<transferVars, source, files, retry>>

ProceedAnyhow ==      \* faulty variant: retries failed work by itself
  /\ ctl = "decide"
  /\ phase # "completed"
  /\ ~retry
  /\ Goto("transferring")
  /\ UNCHANGED <<transferVars, source, files, retry>>

Proceed ==
  /\ ctl = "decide"
  /\ phase \notin {"completed", "failed"}
  /\ ~retry
  /\ Goto("transferring")
  /\ UNCHANGED <<transferVars, source, files, retry>>

(* The attempts of failed work start over.                                 *)
KeepAttempts == attempts      \* faulty variant: attempts not popped
PoppedAttempts == [e \in Entries \ failed |-> attempts[e]]      \* faulty variant
ReopenedAttempts == [e \in Entries |-> IF e \in failed THEN 0 ELSE attempts[e]]

(* The closure reopen.                                                     *)
Reopen ==
  /\ ctl = "decide"
  /\ phase # "completed"
  /\ retry
  /\ failed' = {}
  /\ attempts' = ReopenedAttempts
  /\ phase' = "initialized"
  /\ Wrote("transferring")
  /\ UNCHANGED <<completed, work, stopping, source, manifest, digest, retry>>

(* The closure transferring.                                               *)
Transferring ==
  /\ ctl = "transferring"
  /\ phase' = "transfer"
  /\ Wrote("recover")
  /\ UNCHANGED <<transferVars, source, manifest, digest, retry>>

(* recovered_ids are written when there are any; the rest that has not     *)
(* failed is handed to the scheduler.                                      *)
AllNotCompleted == Entries \ completed'      \* faulty variant: failed work too
PendingWork == Entries \ (completed' \cup failed)

Recover ==
  /\ ctl = "recover"
  /\ completed' = completed \cup (current \ failed)
  /\ \/ /\ Goto("transfer")
        /\ pending' = PendingWork
        /\ outcome' = "running"
     \/ /\ Raises("other")
        /\ UNCHANGED <<pending, outcome>>
  /\ UNCHANGED <<failed, attempts, current, copied, stopping, source, files, retry>>

(* Scheduler.run.  As long as the source is what the manifest records, an  *)
(* entry that is copied matches it.                                        *)
SchedulerStep ==
  /\ ctl = "transfer"
  /\ WorkStep
  /\ source = manifest => current \subseteq current'
  /\ UNCHANGED controlVars

(* if not scheduler.run(pending)                                           *)
TransferDone ==
  /\ ctl = "transfer"
  /\ \/ outcome = "true" /\ Goto("recheck")
     \/ outcome = "false" /\ Raises("terminal")
     \/ outcome = "raised" /\ Raises("other")
  /\ NoScheduler
  /\ UNCHANGED <<disk, current, stopping, source, files, retry>>

(* The source is checked again before the whole tree is touched.           *)
Recheck ==
  /\ ctl = "recheck"
  /\ CheckSource("reconciling")
  /\ UNCHANGED <<transferVars, source, files, retry>>

(* The closure reconciling.                                                *)
Reconciling ==
  /\ ctl = "reconciling"
  /\ phase' = "reconciliation"
  /\ Wrote("reconcile")
  /\ UNCHANGED <<transferVars, source, manifest, digest, retry>>

(* rsync -aH over the tree reaches entry e.                                *)
ReconcileCopy(e) ==
  /\ ctl = "reconcile"
  /\ copied' = copied \cup {e}
  /\ \/ current' = current \cup {e}
     \/ source # manifest /\ current' = current \ {e}
  /\ UNCHANGED <<disk, pending, stopping, outcome, controlVars>>

ReconcileDone ==
  /\ ctl = "reconcile"
  /\ (copied = Entries /\ Goto("lastcheck")) \/ Raises("terminal")
  /\ copied' = {}
  /\ UNCHANGED <<disk, current, pending, stopping, outcome, source, files, retry>>

LastCheck ==
  /\ ctl = "lastcheck"
  /\ CheckSource("verify")
  /\ UNCHANGED <<transferVars, source, files, retry>>

(* verify_destination finds no issue.                                      *)
SpotCheck == current # {} \/ Entries = {}      \* faulty variant: not every entry
DestinationMatches == Entries \subseteq current

VerifyDestination ==
  /\ ctl = "verify"
  /\ \/ DestinationMatches /\ Goto("complete")
     \/ ~DestinationMatches /\ Raises("terminal")
  /\ UNCHANGED <<transferVars, source, files, retry>>

(* The closure completed.                                                  *)
Complete ==
  /\ ctl = "complete"
  /\ phase' = "completed"
  /\ completed' = Entries
  /\ failed' = {}
  /\ \/ Leave
     \/ Raises("other") /\ UNCHANGED <<pending, copied, outcome, stopping, retry>>
  /\ UNCHANGED <<attempts, current, source, manifest, digest>>

(* Any other step of the run may raise before it writes anything.          *)
Fail ==
  /\ ctl \in {"load", "initialize", "decide", "transferring", "recover",
              "reconciling", "verify", "complete"}
  /\ Raises("other")
  /\ UNCHANGED <<transferVars, source, files, retry>>

(* The handler around the run: a stop and an unexpected error leave the    *)
(* phase resumable, terminal errors mark it failed.  Without a state.json  *)
(* nothing is written.                                                     *)
MarksFailed == ~stopping /\ err = "terminal" /\ digest # NoFile

Handle ==
  /\ ctl = "except"
  /\ \/ phase' = IF MarksFailed THEN "failed" ELSE phase
     \/ UNCHANGED phase      \* the write of state.json raised
  /\ Leave
  /\ UNCHANGED <<disk, current, source, manifest, digest>>

-----------------------------------------------------------------------------
(* reset --yes: the files of the state directory are unlinked in the order *)
(* the directory lists them.                                               *)

StartReset ==
  /\ ctl = "idle"
  /\ ctl' = "reset"
  /\ UNCHANGED <<transferVars, source, files, retry, err>>

UnlinkManifest ==
  /\ ctl = "reset"
  /\ manifest # NoFile
  /\ manifest' = NoFile
  /\ UNCHANGED <<transferVars, source, digest, phase, ctl, retry, err>>

UnlinkState ==
  /\ ctl = "reset"
  /\ digest # NoFile
  /\ digest' = NoFile
  /\ phase' = "initialized"
  /\ completed' = {}
  /\ failed' = {}
  /\ attempts' = NoAttempts
  /\ UNCHANGED <<work, stopping, source, manifest, ctl, retry, err>>

ResetDone ==
  /\ ctl = "reset"
  /\ manifest = NoFile /\ digest = NoFile
  /\ ctl' = "idle"
  /\ UNCHANGED <<transferVars, source, files, retry, err>>

-----------------------------------------------------------------------------
(* The environment *)

(* SIGTERM or SIGINT during a run.                                         *)
Stop ==
  /\ ctl \in Steps
  /\ ~stopping
  /\ stopping' = TRUE
  /\ UNCHANGED <<disk, work, controlVars>>

(* The process is killed or the host goes down; a reset too.               *)
Crash ==
  /\ ctl # "idle"
  /\ Leave
  /\ UNCHANGED <<disk, current, source, files>>

SourceChanges ==
  /\ source' \in Snapshots \ {source}
  /\ UNCHANGED <<transferVars, files, ctl, retry, err>>

-----------------------------------------------------------------------------

Init ==
  /\ completed = {} /\ failed = {} /\ attempts = NoAttempts
  /\ current = {} /\ pending = {} /\ copied = {}
  /\ stopping = FALSE /\ outcome = "off"
  /\ source \in Snapshots
  /\ manifest = NoFile /\ digest = NoFile /\ phase = "initialized"
  /\ ctl = "idle" /\ retry = FALSE /\ err = "none"

RunStep ==
  \/ Prerequisites \/ FirstManifest \/ RefuseMissingManifest \/ LoadExisting
  \/ InitializeState \/ Check \/ AlreadyCompleted \/ RefuseFailed \/ Proceed
  \/ Reopen \/ Transferring \/ Recover \/ TransferDone \/ Recheck \/ Reconciling
  \/ ReconcileDone \/ LastCheck \/ VerifyDestination \/ Complete \/ Handle

ResetStep == UnlinkManifest \/ UnlinkState \/ ResetDone

Next ==
  \/ \E retryFailed \in BOOLEAN : Start(retryFailed)
  \/ RunStep
  \/ SchedulerStep
  \/ \E e \in Entries : ReconcileCopy(e)
  \/ StartReset \/ ResetStep
  \/ Fail \/ Stop \/ Crash \/ SourceChanges

Spec == Init /\ [][Next]_vars

-----------------------------------------------------------------------------
(* Properties *)

HasState == digest # NoFile

(* state.json and manifest.json never refer to different snapshots, also   *)
(* when the first run or a reset was interrupted between its two files and *)
(* the source has changed since: no later run pairs an old state with a    *)
(* new manifest (controller.py:105-133, cli.py:152-158).                   *)
DigestsAgree == HasState /\ manifest # NoFile => digest = manifest

(* A completed import is one whose every destination file matches the      *)
(* manifest, although the source may have changed and changed back while   *)
(* rsync was copying (controller.py:303-331).                              *)
CompletedIsVerified ==
  HasState /\ phase = "completed" =>
    completed = Entries /\ failed = {} /\ Entries \subseteq current

(* Reconciliation starts only when the transfer phase has accounted for    *)
(* every entry, and so it is after a crash or a stop in the middle of it:  *)
(* a TRUE of Scheduler.run that leaves work undone gets no further than    *)
(* the scan that follows (controller.py:282-294).                          *)
ReconcileAfterTransfer ==
  HasState /\ phase = "reconciliation" => Entries = completed \cup failed

(* Work that is open has attempts left, and work that has failed has used  *)
(* up its attempts, over any sequence of crashes, stops and retries: every *)
(* run gives open work a chance, and --retry-failed a whole new budget     *)
(* (controller.py:227-238, scheduler.py:204-208).                          *)
AttemptBudget ==
  /\ completed \cap failed = {}
  /\ \A e \in failed : attempts[e] = MaxAttempts
  /\ \A e \in Entries \ (completed \cup failed) : attempts[e] < MaxAttempts

(* What Scheduler.run takes for granted when it is called holds: it starts *)
(* from a state of TransferPhase, and exactly the entries that are neither *)
(* recorded nor found complete are handed to it (controller.py:246-282).   *)
StartsScheduler ==
  [][outcome = "off" /\ outcome' = "running" =>
       /\ TransferInit'
       /\ pending' = Entries \ (completed' \cup failed')
       /\ pending' \cap current' = {}]_vars

(* A failed import stays failed over any number of restarts until an       *)
(* operator asks for a retry or a reset (controller.py:222-238, and the    *)
(* restarts of the systemd unit).                                          *)
FailedIsSticky ==
  [][phase = "failed" /\ phase' # "failed" => retry \/ ctl = "reset"]_vars

(* What the README says of failed work: it stays failed until an operator  *)
(* reopens it with --retry-failed or resets the import                     *)
(* (src/README.md:182-190).                                                *)
FailedUntilReopened ==
  [][\A e \in Entries :
       e \in failed /\ e \notin failed' => retry \/ ctl = "reset"]_vars
=============================================================================
