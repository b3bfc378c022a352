------------------------ MODULE LockAndStatusProofs -------------------------
(***************************************************************************)
(* Theorems about InstanceLock and StatusReport, for any processes,        *)
(* digests and number of workers.                                          *)
(***************************************************************************)
EXTENDS InstanceLock, StatusReport, TLAPS

-----------------------------------------------------------------------------
(* The lock *)

(* Who holds the lock of the kernel is where its holders are: this makes   *)
(* the exclusion of the kernel one of the program.                         *)
HoldersInside ==
  /\ \A c \in Controllers : c \in exclusive <=> Inside(c)
  /\ \A p \in Probes : p \in shared <=> at[p] = "probing"

(* The kernel grants one exclusive lock, or shared ones.                   *)
Granted ==
  /\ \A c, d \in exclusive : c = d
  /\ exclusive # {} => shared = {}

LockInv == TypeOK /\ HoldersInside /\ Granted /\ PidNamesOwner

-----------------------------------------------------------------------------
LEMMA LockInit == Init => LockInv
  <1> USE DEF Init, Processes
  <1>1. Init => TypeOK
    BY DEF TypeOK, ControllerSteps, ProbeSteps
  <1>2. Init => HoldersInside
    BY DEF HoldersInside, Inside
  <1>3. Init => Granted
    BY DEF Granted
  <1>4. Init => PidNamesOwner
    BY DEF PidNamesOwner
  <1>5. QED
    BY <1>1, <1>2, <1>3, <1>4 DEF LockInv

LEMMA LockTypes == LockInv /\ [Next]_vars => TypeOK'
  <1> SUFFICES ASSUME LockInv, [Next]_vars PROVE TypeOK'
    OBVIOUS
  <1> USE ProcessesAssumption DEF LockInv, TypeOK, Processes, ControllerSteps, ProbeSteps, Go
  <1>1. ASSUME NEW c \in Controllers, ControllerStep(c) PROVE TypeOK'
    <2>1. PICK step \in ControllerSteps : at' = [at EXCEPT ![c] = step]
      BY <1>1 DEF ControllerStep, Open, Lock, Refuse, Truncate, WritePid, Release, Leave
    <2>2. /\ at' \in [Processes -> ControllerSteps \cup ProbeSteps]
          /\ \A d \in Controllers : at'[d] \in ControllerSteps
          /\ \A p \in Probes : at'[p] \in ProbeSteps
      BY <2>1
    <2>3. /\ exclusive' \in SUBSET Controllers /\ shared' = shared
          /\ content' \in Controllers \cup {Nobody} /\ created' \in BOOLEAN /\ answer' = answer
      BY <1>1 DEF ControllerStep, Open, Lock, Refuse, Truncate, WritePid, Release, Leave
    <2>4. QED
      BY <2>2, <2>3
  <1>2. ASSUME NEW p \in Probes, ProbeStep(p) PROVE TypeOK'
    BY <1>2 DEF ProbeStep, OpenForProbe, Probe, Unprobe, LeaveProbe
  <1>3. ASSUME NEW p \in Processes, Die(p) PROVE TypeOK'
    BY <1>3 DEF Die
  <1>4. CASE UNCHANGED vars
    BY <1>4 DEF vars
  <1>5. QED
    BY <1>1, <1>2, <1>3, <1>4 DEF Next

LEMMA LockHolders == LockInv /\ [Next]_vars => HoldersInside'
  <1> SUFFICES ASSUME LockInv, [Next]_vars PROVE HoldersInside'
    OBVIOUS
  <1> USE ProcessesAssumption DEF LockInv, TypeOK, HoldersInside, Inside, Processes, Go
  <1>1. ASSUME NEW c \in Controllers, ControllerStep(c) PROVE HoldersInside'
    BY <1>1 DEF ControllerStep, Open, Lock, Refuse, Truncate, WritePid, Release, Leave
  <1>2. ASSUME NEW p \in Probes, ProbeStep(p) PROVE HoldersInside'
    BY <1>2 DEF ProbeStep, OpenForProbe, Probe, Unprobe, LeaveProbe
  <1>3. ASSUME NEW p \in Processes, Die(p) PROVE HoldersInside'
    BY <1>3 DEF Die
  <1>4. CASE UNCHANGED vars
    BY <1>4 DEF vars
  <1>5. QED
    BY <1>1, <1>2, <1>3, <1>4 DEF Next

LEMMA LockGranted == LockInv /\ [Next]_vars => Granted'
  <1> SUFFICES ASSUME LockInv, [Next]_vars PROVE Granted'
    OBVIOUS
  <1> USE DEF LockInv, Granted
  <1>1. ASSUME NEW c \in Controllers, ControllerStep(c) PROVE Granted'
    BY <1>1 DEF ControllerStep, Open, Lock, Refuse, Truncate, WritePid, Release, Leave, LocksFree
  <1>2. ASSUME NEW p \in Probes, ProbeStep(p) PROVE Granted'
    BY <1>2 DEF ProbeStep, OpenForProbe, Probe, Unprobe, LeaveProbe, NoExclusive
  <1>3. ASSUME NEW p \in Processes, Die(p) PROVE Granted'
    BY <1>3 DEF Die
  <1>4. CASE UNCHANGED vars
    BY <1>4 DEF vars
  <1>5. QED
    BY <1>1, <1>2, <1>3, <1>4 DEF Next

(* Only the one inside writes to the file.                                 *)
LEMMA LockPid == LockInv /\ [Next]_vars => PidNamesOwner'
  <1> SUFFICES ASSUME LockInv, [Next]_vars PROVE PidNamesOwner'
    OBVIOUS
  <1> USE ProcessesAssumption
      DEF LockInv, TypeOK, HoldersInside, Granted, PidNamesOwner, Inside, Processes, Go
  <1>1. ASSUME NEW c \in Controllers, ControllerStep(c) PROVE PidNamesOwner'
    <2>1. CASE Truncate(c) \/ WritePid(c)
      BY <2>1 DEF Truncate, WritePid
    <2>2. CASE Open(c) \/ Lock(c) \/ Refuse(c) \/ Release(c) \/ Leave(c)
      BY <2>2 DEF Open, Lock, Refuse, Release, Leave
    <2>3. QED
      BY <1>1, <2>1, <2>2 DEF ControllerStep
  <1>2. ASSUME NEW p \in Probes, ProbeStep(p) PROVE PidNamesOwner'
    BY <1>2 DEF ProbeStep, OpenForProbe, Probe, Unprobe, LeaveProbe
  <1>3. ASSUME NEW p \in Processes, Die(p) PROVE PidNamesOwner'
    BY <1>3 DEF Die
  <1>4. CASE UNCHANGED vars
    BY <1>4 DEF vars
  <1>5. QED
    BY <1>1, <1>2, <1>3, <1>4 DEF Next

(* Who holds the lock is where the code holds it (locking.py:12-66).       *)
THEOREM LockInvariant == Spec => []LockInv
  <1>1. LockInv /\ [Next]_vars => LockInv'
    BY LockTypes, LockHolders, LockGranted, LockPid DEF LockInv
  <1>2. QED
    BY LockInit, <1>1, PTL DEF Spec

-----------------------------------------------------------------------------
(* Type correctness (locking.py:16-66).                                    *)
THEOREM TypeCorrect == Spec => []TypeOK
  BY LockInvariant, PTL DEF LockInv

(* At most one of any number of runs, resets and verifies is inside the    *)
(* lock, and none while a probe holds the file, whatever dies when         *)
(* (locking.py:16-31 and 52-66).                                           *)
THEOREM MutualExclusion == Spec => []OneOwner
  <1>1. LockInv => OneOwner
    BY DEF LockInv, HoldersInside, Granted, OneOwner
  <1>2. QED
    BY <1>1, LockInvariant, PTL

(* The lock file names the process that is inside, also when it was left   *)
(* behind by one that died (locking.py:26-30).                             *)
THEOREM FileNamesOwner == Spec => []PidNamesOwner
  BY LockInvariant, PTL DEF LockInv

(* A lock is held by a process that is in the steps between taking it and  *)
(* giving it back, never by one that has left or died (locking.py:33-37).  *)
THEOREM NothingKept == Spec => []GivenBack
  <1>1. LockInv => GivenBack
    BY ProcessesAssumption DEF LockInv, TypeOK, HoldersInside, GivenBack, Inside, Processes
  <1>2. QED
    BY <1>1, LockInvariant, PTL

(* A probe answers "held" only while a run, reset or verify is inside      *)
(* (locking.py:52-66).                                                     *)
THEOREM ProbesAreRight == Spec => ProbeIsRight
  <1>1. LockInv /\ [Next]_vars =>
          [\A p \in Probes :
             answer'[p] = "held" /\ answer[p] # "held" =>
               \E c \in Controllers : Inside(c)]_vars
    <2> SUFFICES ASSUME LockInv, Next, NEW q \in Probes, answer'[q] = "held", answer[q] # "held"
                 PROVE  \E c \in Controllers : Inside(c)
      OBVIOUS
    <2> USE ProcessesAssumption DEF LockInv, TypeOK, HoldersInside, Processes, Go
    <2>1. ASSUME NEW c \in Controllers, ControllerStep(c) PROVE FALSE
      BY <2>1 DEF ControllerStep, Open, Lock, Refuse, Truncate, WritePid, Release, Leave
    <2>2. ASSUME NEW p \in Probes, ProbeStep(p) PROVE \E c \in Controllers : Inside(c)
      BY <2>2 DEF ProbeStep, OpenForProbe, Probe, Unprobe, LeaveProbe, NoExclusive
    <2>3. ASSUME NEW p \in Processes, Die(p) PROVE FALSE
      BY <2>3 DEF Die
    <2>4. QED
      BY <2>1, <2>2, <2>3 DEF Next
  <1>2. QED
    BY <1>1, LockInvariant, PTL DEF Spec, ProbeIsRight

-----------------------------------------------------------------------------
(* The report *)

(* What each step of the owner may rely on.                                *)
OwnerPlace ==
  /\ job \in {"decide", "begin", "transfer", "reconcile", "failing"} => HasManifest /\ HasState
  /\ job = "initialize" => HasManifest /\ ~HasState
  /\ job = "transfer" => stateFile.phase = "transfer"
  /\ job = "reconcile" => stateFile.phase = "reconciliation"

(* A state lies beside the manifest it was made for.                       *)
Paired == HasManifest /\ HasState => stateFile.digest = manifestFile

Explained(record) ==
  record # NoRecord /\ record.phase = "failed" => record.error /\ record.active = 0

(* What status has learnt so far is true now, or it was seen.              *)
Learnt ==
  /\ asking = "bare?" => "bare" \in glimpses \/ (~HasManifest /\ HasState)
  /\ asking \in {"partial?", "half?"} => "half" \in glimpses \/ (HasManifest /\ HasState)
  /\ asking = "loaded" /\ HasState /\ stateFile.digest = found =>
       manifestFile = found \/ (~HasManifest /\ lost = <<found, stateFile.phase>>)
  /\ asking = "loaded" => found # NoDigest
  /\ asking = "probe" => report # NoRecord
  /\ asking = "uninitialized" => "bare" \in glimpses
  /\ asking = "partial" => "half" \in glimpses

StatusInv ==
  /\ StatusTypeOK /\ OwnerPlace /\ Paired
  /\ Explained(stateFile) /\ Explained(report)
  /\ Learnt

-----------------------------------------------------------------------------
(* What a write makes of a record.                                         *)
LEMMA RecordUpdates ==
  ASSUME NEW r \in StateRecords
  PROVE  /\ \A d \in Digests : Fresh(d) \in StateRecords
         /\ \A n \in 0..Workers : [r EXCEPT !.active = n] \in StateRecords
         /\ \A e \in BOOLEAN : [r EXCEPT !.error = e] \in StateRecords
         /\ \A p \in Phases, e \in BOOLEAN : [r EXCEPT !.phase = p, !.error = e] \in StateRecords
         /\ \A p \in Phases, n \in 0..Workers : [r EXCEPT !.phase = p, !.active = n] \in StateRecords
         /\ \A p \in Phases, n \in 0..Workers, e \in BOOLEAN :
              /\ [r EXCEPT !.phase = p, !.active = n, !.error = e] \in StateRecords
              /\ [r EXCEPT !.error = e, !.phase = p, !.active = n] \in StateRecords
  <1>1. \A d \in Digests : Fresh(d) \in StateRecords
    BY StatusAssumption DEF Fresh, StateRecords, Phases
  <1> USE DEF StateRecords
  <1>2. \A n \in 0..Workers : [r EXCEPT !.active = n] \in StateRecords
    OBVIOUS
  <1>3. \A e \in BOOLEAN : [r EXCEPT !.error = e] \in StateRecords
    OBVIOUS
  <1>4. \A p \in Phases, e \in BOOLEAN : [r EXCEPT !.phase = p, !.error = e] \in StateRecords
    OBVIOUS
  <1>5. \A p \in Phases, n \in 0..Workers : [r EXCEPT !.phase = p, !.active = n] \in StateRecords
    OBVIOUS
  <1>6. \A p \in Phases, n \in 0..Workers, e \in BOOLEAN :
           /\ [r EXCEPT !.phase = p, !.active = n, !.error = e] \in StateRecords
           /\ [r EXCEPT !.error = e, !.phase = p, !.active = n] \in StateRecords
    OBVIOUS
  <1>7. QED
    BY <1>1, <1>2, <1>3, <1>4, <1>5, <1>6

(* The writes of a run: the record stays one of its manifest, and a failed *)
(* one is explained.                                                       *)
Writes == Decide \/ Transferring \/ RecordProgress \/ Reconciling \/ Completed \/ RecordFailure

WriteEffect ==
  /\ stateFile' \in StateRecords /\ manifestFile' = manifestFile
  /\ stateFile'.digest = stateFile.digest
  /\ Explained(stateFile')
  /\ job' \in Jobs \ {"initialize", "resumable"}
  /\ job' \in {"decide", "begin", "transfer", "reconcile", "failing"} => HasManifest
  /\ job' = "transfer" => stateFile'.phase = "transfer"
  /\ job' = "reconcile" => stateFile'.phase = "reconciliation"
  /\ ~HasManifest => stateFile'.phase = stateFile.phase

LEMMA WritesWell ==
  ASSUME StatusInv, stateFile \in StateRecords, Writes
  PROVE  WriteEffect
  <1>0. /\ 0 \in 0..Workers /\ Explained(stateFile) /\ job \in Jobs /\ StatusAssumption
        /\ {"initialized", "transfer", "reconciliation", "completed", "failed"} \subseteq Phases
        /\ StateRecords = [digest : Digests, phase : Phases, active : 0..Workers, error : BOOLEAN]
        /\ job \in {"decide", "begin", "transfer", "reconcile", "failing"} => HasManifest
        /\ job = "transfer" => stateFile.phase = "transfer"
    BY StatusAssumption DEF StatusInv, StatusTypeOK, OwnerPlace, StateRecords, Phases
  <1> USE DEF WriteEffect, Explained, Jobs
  <1>1. CASE Decide
    <2>1. CASE UNCHANGED stateFile
      BY <1>0, <1>1, <2>1 DEF Decide
    <2>2. CASE /\ stateFile' = [stateFile EXCEPT !.phase = "initialized", !.error = FALSE]
               /\ job' = "begin"
      <3>1. stateFile' \in StateRecords
        BY <1>0, <2>2, RecordUpdates
      <3>2. /\ stateFile'.phase = "initialized" /\ stateFile'.error = FALSE
            /\ stateFile'.digest = stateFile.digest
        BY <1>0, <2>2
      <3>3. QED
        BY <1>0, <1>1, <2>2, <3>1, <3>2 DEF Decide
    <2>3. QED
      BY <1>1, <2>1, <2>2 DEF Decide
  <1>2. CASE Transferring
    <2>1. stateFile' \in StateRecords
      BY <1>0, <1>2, RecordUpdates DEF Transferring
    <2>2. stateFile'.phase = "transfer" /\ stateFile'.digest = stateFile.digest
      BY <1>0, <1>2 DEF Transferring
    <2>3. QED
      BY <1>0, <1>2, <2>1, <2>2 DEF Transferring
  <1>3. CASE RecordProgress
    <2>1. stateFile' \in StateRecords
      BY <1>3, RecordUpdates DEF RecordProgress
    <2>2. stateFile'.phase = stateFile.phase /\ stateFile'.digest = stateFile.digest
      BY <1>0, <1>3 DEF RecordProgress
    <2>3. QED
      BY <1>0, <1>3, <2>1, <2>2 DEF RecordProgress
  <1>4. CASE Reconciling
    <2>1. stateFile' \in StateRecords
      <3>1. stateFile \in StateRecords /\ "reconciliation" \in Phases /\ 0 \in 0..Workers
        BY <1>0, <1>4 DEF Reconciling, Phases
      <3>2. [stateFile EXCEPT !.phase = "reconciliation", !.active = 0] \in StateRecords
        BY <3>1, RecordUpdates
      <3>3. QED
        BY <1>4, <3>2 DEF Reconciling
    <2>2. stateFile'.phase = "reconciliation" /\ stateFile'.digest = stateFile.digest
      BY <1>0, <1>4 DEF Reconciling
    <2>3. QED
      BY <1>0, <1>4, <2>1, <2>2 DEF Reconciling
  <1>5. CASE Completed
    <2>1. stateFile' \in StateRecords
      <3>1. stateFile \in StateRecords /\ "completed" \in Phases /\ 0 \in 0..Workers
        BY <1>0, <1>5 DEF Completed, Phases
      <3>2. [stateFile EXCEPT !.phase = "completed", !.active = 0, !.error = FALSE] \in StateRecords
        BY <3>1, RecordUpdates
      <3>3. QED
        BY <1>5, <3>2 DEF Completed
    <2>2. stateFile'.phase = "completed" /\ stateFile'.digest = stateFile.digest
      BY <1>0, <1>5 DEF Completed
    <2>3. QED
      BY <1>0, <1>5, <2>1, <2>2 DEF Completed
  <1>6. CASE RecordFailure
    <2>1. CASE UNCHANGED stateFile
      BY <1>0, <1>6, <2>1 DEF RecordFailure
    <2>2. CASE stateFile' = RecordedFailure
      <3> DEFINE p == IF job = "failing" THEN "failed" ELSE stateFile.phase
      <3>1. p \in Phases
        BY <1>0
      <3>2. stateFile' = [stateFile EXCEPT !.error = TRUE, !.phase = p, !.active = 0]
        BY <2>2 DEF RecordedFailure
      <3>3. job # "failing" => p = stateFile.phase
        OBVIOUS
      <3> HIDE DEF p
      <3>4. stateFile' \in StateRecords
        <4>1. stateFile \in StateRecords /\ TRUE \in BOOLEAN /\ 0 \in 0..Workers
          BY <1>0
        <4>2. [stateFile EXCEPT !.error = TRUE, !.phase = p, !.active = 0] \in StateRecords
          BY <3>1, <4>1, RecordUpdates
        <4>3. QED
          BY <3>2, <4>2
      <3>5. /\ stateFile'.digest = stateFile.digest /\ stateFile'.phase = p
            /\ stateFile'.error = TRUE /\ stateFile'.active = 0
        BY <1>0, <3>2
      <3>6. QED
        BY <1>0, <1>6, <3>3, <3>4, <3>5 DEF RecordFailure
    <2>3. QED
      BY <1>6, <2>1, <2>2 DEF RecordFailure
  <1>7. QED
    BY <1>1, <1>2, <1>3, <1>4, <1>5, <1>6 DEF Writes

(* Without a state there is nothing to write.                              *)
LEMMA NothingToWrite ==
  ASSUME StatusInv, ~HasState, Writes
  PROVE  UNCHANGED files /\ job' = "over"
  BY DEF StatusInv, OwnerPlace, HasState, Writes, Decide, Transferring, RecordProgress, Reconciling,
         Completed, RecordFailure, files

-----------------------------------------------------------------------------
(* The owner, whose steps status does not change. *)

LEMMA OwnerKeepsPlace ==
  ASSUME StatusInv, OwnerStep
  PROVE  /\ manifestFile' \in Digests \cup {NoDigest}
         /\ stateFile' \in StateRecords \cup {NoRecord}
         /\ job' \in Jobs
         /\ OwnerPlace' /\ Paired' /\ Explained(stateFile)'
  <1> USE StatusAssumption DEF StatusInv, StatusTypeOK
  <1>1. CASE TakeLock \/ FreeLock \/ LoadOrScan \/ RunRaises \/ ResetUnlinks \/ OwnerDies
    BY <1>1 DEF TakeLock, FreeLock, LoadOrScan, RunRaises, ResetUnlinks, OwnerDies, OwnerPlace, Paired,
                Explained, files, HasManifest, HasState, Jobs
  <1>2. CASE InitializeState
    <2>1. /\ manifestFile \in Digests /\ stateFile' = Fresh(manifestFile) /\ job' = "decide"
          /\ manifestFile' = manifestFile
      BY <1>2 DEF InitializeState, OwnerPlace, HasManifest
    <2>2. stateFile' \in StateRecords /\ stateFile'.digest = manifestFile /\ stateFile'.phase = "initialized"
      BY <2>1 DEF Fresh, StateRecords, Phases
    <2>3. QED
      BY <2>1, <2>2 DEF OwnerPlace, Paired, Explained, HasManifest, HasState, Jobs
  <1>3. CASE Writes
    <2>1. CASE HasState
      <3>1. WriteEffect
        BY <1>3, <2>1, WritesWell DEF HasState
      <3>2. stateFile' # NoRecord
        BY <3>1 DEF WriteEffect
      <3>3. QED
        BY <2>1, <3>1, <3>2 DEF WriteEffect, OwnerPlace, Paired, Explained, HasManifest, HasState, Jobs
    <2>2. CASE ~HasState
      BY <1>3, <2>2, NothingToWrite DEF files, OwnerPlace, Paired, Explained, HasManifest, HasState, Jobs
    <2>3. QED
      BY <2>1, <2>2
  <1>4. QED
    BY <1>1, <1>2, <1>3 DEF OwnerStep, Writes

(* How the two files can change in one step.                               *)
LEMMA OwnerMoves ==
  ASSUME StatusInv, OwnerStep
  PROVE  \/ UNCHANGED files
         \/ HasManifest /\ ~HasManifest' /\ UNCHANGED stateFile
         \/ HasState /\ ~HasState' /\ UNCHANGED manifestFile
         \/ ~HasManifest /\ ~HasState /\ HasManifest' /\ ~HasState'
         \/ HasManifest /\ HasState' /\ UNCHANGED manifestFile
         \/ ~HasManifest /\ HasState /\ HasState' /\ UNCHANGED manifestFile
            /\ stateFile'.digest = stateFile.digest /\ stateFile'.phase = stateFile.phase
  <1> USE StatusAssumption DEF StatusInv, StatusTypeOK
  <1>1. CASE TakeLock \/ FreeLock \/ LoadOrScan \/ RunRaises \/ ResetUnlinks \/ OwnerDies
    BY <1>1 DEF TakeLock, FreeLock, LoadOrScan, RunRaises, ResetUnlinks, OwnerDies, files, HasManifest, HasState
  <1>2. CASE InitializeState
    <2>1. manifestFile \in Digests /\ stateFile' = Fresh(manifestFile) /\ manifestFile' = manifestFile
      BY <1>2 DEF InitializeState, OwnerPlace, HasManifest
    <2>2. stateFile' \in StateRecords
      BY <2>1 DEF Fresh, StateRecords, Phases
    <2>3. QED
      BY <2>1, <2>2 DEF HasManifest, HasState
  <1>3. CASE Writes
    <2>1. CASE HasState
      <3>1. WriteEffect
        BY <1>3, <2>1, WritesWell DEF HasState
      <3>2. QED
        BY <2>1, <3>1 DEF WriteEffect, HasManifest, HasState
    <2>2. CASE ~HasState
      BY <1>3, <2>2, NothingToWrite
    <2>3. QED
      BY <2>1, <2>2
  <1>4. QED
    BY <1>1, <1>2, <1>3 DEF OwnerStep, Writes

-----------------------------------------------------------------------------
LEMMA StatusInitInv == StatusInit => StatusInv
  BY StatusAssumption
     DEF StatusInit, StatusInv, StatusTypeOK, OwnerPlace, Paired, Explained, Learnt, HasManifest,
         HasState, Jobs, Questions

LEMMA OwnerKeepsInv ==
  ASSUME StatusInv, OwnerStep, UNCHANGED statusOnly, Witness
  PROVE  StatusInv'
  <1>1. lost' \in {<<>>} \cup Digests \X Phases /\ glimpses' \in SUBSET {"bare", "half"}
    BY DEF StatusInv, StatusTypeOK, Witness, Glimpse, StateRecords, HasManifest, HasState
  <1>2. StatusTypeOK'
    BY <1>1, OwnerKeepsPlace DEF StatusInv, StatusTypeOK, statusOnly
  <1>3. Learnt'
    BY OwnerMoves, OwnerKeepsPlace
       DEF StatusInv, StatusTypeOK, Learnt, Paired, Witness, Glimpse, statusOnly, files, HasManifest, HasState
  <1>4. Explained(report)'
    BY DEF StatusInv, Explained, statusOnly
  <1>5. QED
    BY <1>2, <1>3, <1>4, OwnerKeepsPlace DEF StatusInv

LEMMA StatusKeepsInv ==
  ASSUME StatusInv, StatusStep, UNCHANGED <<files, job>>, Witness
  PROVE  StatusInv'
  <1> USE StatusAssumption
  <1>1. lost' \in {<<>>} \cup Digests \X Phases /\ glimpses' \in SUBSET {"bare", "half"}
    BY DEF StatusInv, StatusTypeOK, Witness, Glimpse, StateRecords, HasManifest, HasState, files
  <1>2. /\ asking' \in Questions /\ found' \in Digests \cup {NoDigest}
        /\ report' \in StateRecords \cup {NoRecord}
        /\ Explained(report)'
    <2> USE DEF StatusInv, StatusTypeOK, Explained, HasManifest, HasState, Questions, Learnt
    <2>1. CASE LookForManifest \/ LookForState \/ LookAgain \/ LookForStateAgain
      BY <2>1 DEF LookForManifest, LookForState, LookAgain, LookForStateAgain, Ask
    <2>2. CASE ReadManifest \/ ReadState \/ StatusEnds
      BY <2>2 DEF ReadManifest, ReadState, StatusEnds, MatchesManifest
    <2>3. CASE ProbeLock
      BY <2>3 DEF ProbeLock, StateRecords
    <2>4. QED
      BY <2>1, <2>2, <2>3 DEF StatusStep
  <1>3. OwnerPlace' /\ Paired' /\ Explained(stateFile)'
    BY DEF StatusInv, OwnerPlace, Paired, Explained, files, HasManifest, HasState
  <1>4. Learnt'
    <2> USE DEF StatusInv, StatusTypeOK, Learnt, Paired, Witness, Glimpse, files, HasManifest, HasState
    <2>1. CASE LookForManifest \/ LookForState \/ LookAgain \/ LookForStateAgain
      BY <2>1 DEF LookForManifest, LookForState, LookAgain, LookForStateAgain, Ask
    <2>2. CASE ReadManifest \/ ReadState \/ StatusEnds \/ ProbeLock
      BY <2>2 DEF ReadManifest, ReadState, StatusEnds, MatchesManifest, ProbeLock
    <2>3. QED
      BY <2>1, <2>2 DEF StatusStep
  <1>5. QED
    BY <1>1, <1>2, <1>3, <1>4 DEF StatusInv, StatusTypeOK, files

(* What a status call has learnt is true of the files (cli.py:58-116).     *)
THEOREM StatusInvariant == StatusSpec => []StatusInv
  <1>1. StatusInv /\ [StatusNext]_statusVars => StatusInv'
    <2> SUFFICES ASSUME StatusInv, [StatusNext]_statusVars PROVE StatusInv'
      OBVIOUS
    <2>1. CASE UNCHANGED statusVars
      BY <2>1 DEF statusVars, files, StatusInv, StatusTypeOK, OwnerPlace, Paired, Explained, Learnt,
                  HasManifest, HasState
    <2>2. QED
      BY <2>1, OwnerKeepsInv, StatusKeepsInv DEF StatusNext
  <1>2. QED
    BY StatusInitInv, <1>1, PTL DEF StatusSpec

-----------------------------------------------------------------------------
(* A failed import is reported with an error and without workers           *)
(* (controller.py:179-209, src/README.md:198-202).                         *)
THEOREM FailureExplained == StatusSpec => []FailureIsExplained
  <1>1. StatusInv => FailureIsExplained
    BY DEF StatusInv, Explained, FailureIsExplained
  <1>2. QED
    BY <1>1, StatusInvariant, PTL

(* What status says was true at one moment of its call, although it reads  *)
(* without the lock: because of Learnt (cli.py:58-85).                     *)
THEOREM SnapshotReported == StatusSpec => ReportIsSnapshot
  <1> DEFINE Snapshot ==
        /\ asking = "loaded" /\ asking' = "probe" =>
             manifestFile = found \/ lost = <<found, report'.phase>>
        /\ asking' = "uninitialized" => "bare" \in glimpses'
        /\ asking' = "partial" => "half" \in glimpses'
  <1>1. ASSUME StatusInv, StatusNext, asking = "loaded", asking' = "probe"
        PROVE  manifestFile = found \/ lost = <<found, report'.phase>>
    <2>1. ReadState
      BY <1>1 DEF StatusNext, statusOnly, StatusStep, LookForManifest, LookForState, LookAgain,
                  LookForStateAgain, Ask, ReadManifest, ProbeLock, StatusEnds
    <2>2. QED
      BY <1>1, <2>1 DEF ReadState, MatchesManifest, StatusInv, Learnt
  <1>2. StatusInv /\ StatusInv' /\ [StatusNext]_statusVars => [Snapshot]_statusVars
    BY <1>1 DEF StatusInv, Learnt
  <1>3. QED
    BY <1>2, StatusInvariant, PTL DEF StatusSpec, ReportIsSnapshot
=============================================================================
