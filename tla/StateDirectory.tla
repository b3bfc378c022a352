---------------------------- MODULE StateDirectory ----------------------------
(***************************************************************************)
(* manifest.json and state.json beside each other in the state directory,  *)
(* over runs, resets, errors and killed processes, on a host that may go   *)
(* down and lose the names that were not synced: reset syncs nothing, so   *)
(* what it removed may come back.                                          *)
(*                                                                         *)
(* Of a file only the snapshot it belongs to matters here.  A write is the *)
(* rename and the fsync of the directory, which both files share; that it  *)
(* is whole is shown in AtomicFile.  The import lock keeps jobs apart.     *)
(***************************************************************************)
CONSTANTS
  Snapshots,       \* what a first scan may find; digests of manifests
  NoFile

ASSUME SnapshotsAssumption == NoFile \notin Snapshots

VARIABLES
  present,         \* file -> the snapshot it belongs to, for a program that looks
  afterLoss,       \* file -> what may be found there after the host has gone down
  task,            \* what the owner of the lock does, "none" if there is none
  write,           \* how far its write is
  snapshot,        \* the digest of its manifest
  begun            \* history: the snapshot of the import that was begun and not reset

directoryVars == <<present, afterLoss, task, write, snapshot, begun>>
disk == <<present, afterLoss>>

FileNames == {"manifest", "state"}

RunTasks == {"load", "save", "initialize", "begin", "work"}

DirectoryInit ==
  /\ present = [name \in FileNames |-> NoFile]
  /\ afterLoss = [name \in FileNames |-> {NoFile}]
  /\ task = "none" /\ write = "none"
  /\ snapshot = NoFile /\ begun = NoFile

-----------------------------------------------------------------------------
(* atomic_write_bytes *)

(* save_manifest writes the scan, initialize_state its digest, and mutate  *)
(* leaves the digest in state.json as it is.                               *)
Written ==
  IF task = "save" THEN [present EXCEPT !.manifest = snapshot]
  ELSE IF task = "initialize" THEN [present EXCEPT !.state = snapshot]
  ELSE present

Replace ==
  /\ write = "replace"
  /\ present' = Written
  /\ afterLoss' = [name \in FileNames |-> afterLoss[name] \cup {Written[name]}]
  /\ write' = "sync"
  /\ UNCHANGED <<task, snapshot, begun>>

(* The caller goes on when the directory is synced.                        *)
FollowingTask ==
  CASE task = "save" -> "initialize" [] task = "initialize" -> "begin"
    [] task \in {"begin", "work"} -> "work" [] task = "handler" -> "none"

Sync ==
  /\ write = "sync"
  /\ afterLoss' = [name \in FileNames |-> {present[name]}]
  /\ task' = FollowingTask
  /\ write' = IF task = "save" THEN "replace" ELSE "none"
  /\ begun' = IF task = "begin" THEN snapshot ELSE begun
  /\ UNCHANGED <<present, snapshot>>

-----------------------------------------------------------------------------
(* Controller.run *)

TakeDirectory ==
  /\ task = "none"
  /\ task' \in {"load", "reset"}
  /\ UNCHANGED <<disk, write, snapshot, begun>>

NotLooked == TRUE      \* faulty variant: any state will do
StateFits == present.state = present.manifest

(* _load_or_initialize without an error.                                   *)
FirstSnapshot ==
  /\ task = "load"
  /\ present.manifest = NoFile /\ present.state = NoFile
  /\ snapshot' \in Snapshots
  /\ task' = "save" /\ write' = "replace"
  /\ UNCHANGED <<disk, begun>>

LoadSnapshot ==
  /\ task = "load"
  /\ present.manifest # NoFile
  /\ snapshot' = present.manifest
  /\ \/ present.state = NoFile /\ task' = "initialize" /\ write' = "replace"
     \/ present.state # NoFile /\ StateFits /\ task' = "begin" /\ UNCHANGED write
  /\ UNCHANGED <<disk, begun>>

(* reopen or transferring, and every later mutate.                         *)
Mutate ==
  /\ task \in {"begin", "work"} /\ write = "none"
  /\ write' = "replace"
  /\ UNCHANGED <<disk, task, snapshot, begun>>

(* A completed import is left alone, and a run ends.                       *)
EndRun ==
  /\ task \in {"begin", "work"} /\ write = "none"
  /\ task' = "none"
  /\ UNCHANGED <<disk, write, snapshot, begun>>

(* A check refuses, or any step raises, a write before or after its rename. *)
RaiseInRun ==
  /\ task \in RunTasks
  /\ task' = "handler" /\ write' = "none"
  /\ UNCHANGED <<disk, snapshot, begun>>

(* _set_failed, _set_interrupted or _record_resumable_error.               *)
RecordOutcome ==
  /\ task = "handler" /\ write = "none"
  /\ \/ present.state # NoFile /\ write' = "replace" /\ UNCHANGED task
     \/ present.state = NoFile /\ task' = "none" /\ UNCHANGED write
  /\ UNCHANGED <<disk, snapshot, begun>>

-----------------------------------------------------------------------------
(* reset_state *)

UnlinkName(name) ==
  /\ task = "reset"
  /\ present[name] # NoFile
  /\ present' = [present EXCEPT ![name] = NoFile]
  /\ afterLoss' = [afterLoss EXCEPT ![name] = @ \cup {NoFile}]
  /\ begun' = NoFile
  /\ UNCHANGED <<task, write, snapshot>>

(* Nothing is left, or a step of a reset or of the handler raises.         *)
LeaveDirectory ==
  /\ task \in {"reset", "handler"}
  /\ task' = "none" /\ write' = "none"
  /\ UNCHANGED <<disk, snapshot, begun>>

-----------------------------------------------------------------------------
(* Around it.  The system may sync the directory by itself, which leaves   *)
(* it fewer things to lose.                                                *)

KillOwner ==
  /\ task # "none"
  /\ task' = "none" /\ write' = "none"
  /\ UNCHANGED <<disk, snapshot, begun>>

LoseHost ==
  /\ present' \in {found \in [FileNames -> Snapshots \cup {NoFile}] :
                     \A name \in FileNames : found[name] \in afterLoss[name]}
  /\ afterLoss' = [name \in FileNames |-> {present'[name]}]
  /\ task' = "none" /\ write' = "none"
  /\ UNCHANGED <<snapshot, begun>>

DirectoryNext ==
  \/ TakeDirectory \/ FirstSnapshot \/ LoadSnapshot \/ Mutate \/ EndRun
  \/ Replace \/ Sync
  \/ RaiseInRun \/ RecordOutcome
  \/ (\E name \in FileNames : UnlinkName(name)) \/ LeaveDirectory
  \/ KillOwner \/ LoseHost

DirectorySpec == DirectoryInit /\ [][DirectoryNext]_directoryVars

-----------------------------------------------------------------------------
(* Properties *)

(* From the first write of a run that works on an import to the reset that *)
(* discards it, no error, kill or loss of the host leaves anything but its *)
(* manifest and a state of it, and every run that works works on it.  This *)
(* needs more than whole files: an earlier reset has synced nothing, and   *)
(* between the rename of a new manifest and the fsync the host may find it *)
(* beside an old state (controller.py:102-134, util.py:48-53,              *)
(* cli.py:152-158).                                                        *)
BegunIsKept ==
  /\ begun # NoFile => \A name \in FileNames : afterLoss[name] = {begun}
  /\ task = "work" => snapshot = begun /\ begun # NoFile
=============================================================================
