------------------------- MODULE StoredFilesProofs --------------------------
(***************************************************************************)
(* Theorems about the files of the state directory (ManifestScan,          *)
(* StateRecord, StateDirectory, AtomicFile and Progress), for any trees,   *)
(* sources, records, snapshots, contents, files, sizes and thresholds.     *)
(***************************************************************************)
EXTENDS ManifestScan, StateRecord, StateDirectory, Progress, TLAPS

-----------------------------------------------------------------------------
(* Manifests *)

(* What a cut makes of a tree is a tree.                                   *)
LEMMA CutIsTree ==
  ASSUME NEW full, IsTree(full), NEW files \in CutTrees(full)
  PROVE  IsTree(files)
  <1>1. PICK paths \in SUBSET DOMAIN full :
          \/ files = Restrict(full, paths)
          \/ \E p \in paths : \E time \in CutTimes(full[p].mtime) :
               files = [Restrict(full, paths) EXCEPT ![p].mtime = time]
    BY DEF CutTrees
  <1> DEFINE part == Restrict(full, paths)
  <1>2. part = [p \in paths |-> full[p]]
    BY DEF Restrict
  <1>3. \A p \in paths : full[p] = [size |-> full[p].size, mtime |-> full[p].mtime]
    BY DEF IsTree
  <1>4. \A p \in paths : part[p] = [size |-> full[p].size, mtime |-> full[p].mtime]
    BY <1>2, <1>3
  <1>5. CASE files = part
    BY <1>2, <1>4, <1>5 DEF IsTree
  <1>6. ASSUME NEW p \in paths, NEW time, files = [part EXCEPT ![p].mtime = time]
        PROVE  IsTree(files)
    <2>1. DOMAIN files = paths
      BY <1>2, <1>6
    <2>2. files[p] = [size |-> full[p].size, mtime |-> time]
      <3>1. files[p] = [part[p] EXCEPT !.mtime = time]
        BY <1>2, <1>6
      <3>2. part[p] = [size |-> full[p].size, mtime |-> full[p].mtime]
        BY <1>4
      <3>3. QED
        BY <3>1, <3>2
    <2>3. \A q \in paths \ {p} : files[q] = part[q]
      BY <1>2, <1>6
    <2>4. files = [q \in paths |-> files[q]]
      BY <1>2, <1>6
    <2>5. \A q \in paths : files[q] = [size |-> files[q].size, mtime |-> files[q].mtime]
      BY <1>4, <2>2, <2>3
    <2>6. QED
      BY <2>1, <2>4, <2>5 DEF IsTree
  <1>7. QED
    BY <1>1, <1>5, <1>6

(* Trees that assert_same_source does not tell apart are equal.            *)
LEMMA SameIsEqual ==
  ASSUME NEW expected, NEW actual, IsTree(expected.tree), IsTree(actual.tree), SameSource(expected, actual)
  PROVE  expected.tree = actual.tree /\ expected.site = actual.site
  BY DEF SameSource, IsTree

(* A damaged manifest that can be loaded lists what was saved, because the *)
(* digest is left or the list is.                                          *)
LEMMA LoadableIsSaved ==
  ASSUME NEW where, NEW files, NEW record \in Damaged(ManifestRecord(where, files)) \cup {ManifestRecord(where, files)},
         Loadable(record)
  PROVE  record.site = where /\ record.entries = files
  <1> DEFINE whole == ManifestRecord(where, files)
  <1>1. whole.site = where /\ whole.entries = files /\ whole.digest = <<where, files>>
    BY DEF ManifestRecord
  <1>2. record.digest = whole.digest \/ (record.site = where /\ record.entries = files)
    BY DEF Damaged, ManifestRecord
  <1>3. record.digest = <<record.site, record.entries>>
    BY DEF Loadable
  <1>4. QED
    BY <1>1, <1>2, <1>3

-----------------------------------------------------------------------------
(* The file is what was saved, or one damage away from it, and a run works *)
(* from the scan that was saved.                                           *)
OnFile ==
  /\ saved = Unstored <=> manifestJson = Unstored
  /\ saved # Unstored =>
       /\ saved = ManifestRecord(taken.site, taken.tree)
       /\ manifestJson \in Damaged(saved) \cup {saved}

Working ==
  doing # "out" => /\ saved # Unstored
                   /\ manifest.site = taken.site /\ manifest.tree = taken.tree
                   /\ manifest.site = site

Shapes == IsTree(tree) /\ IsTree(manifest.tree) /\ IsTree(taken.tree) /\ IsTree(again.tree)

Compared == doing = "transferring" => SameSource(manifest, again)

ManifestInv == OnFile /\ Working /\ Shapes /\ Compared /\ doing \in {"out", "checking", "transferring"}

LEMMA RecordsAreStored ==
  ASSUME NEW where, NEW files
  PROVE  /\ ManifestRecord(where, files) # Unstored
         /\ \A record \in Damaged(ManifestRecord(where, files)) : record # Unstored
  BY DEF ManifestRecord, Unstored, Damaged

LEMMA ManifestInitInv == ManifestInit => ManifestInv
  BY TreesAssumption
     DEF ManifestInit, ManifestInv, OnFile, Working, Shapes, Compared, Unscanned, Unloaded

LEMMA ScansAreTrees ==
  ASSUME IsTree(tree), NEW scan \in Scans
  PROVE  IsTree(scan.tree) /\ scan.site = site /\ (~scan.cut => scan.tree = tree)
  BY CutIsTree DEF Scans

LEMMA ManifestNextInv == ManifestInv /\ [ManifestNext]_manifestVars => ManifestInv'
  <1> SUFFICES ASSUME ManifestInv, [ManifestNext]_manifestVars PROVE ManifestInv'
    OBVIOUS
  <1>0. IsTree(<<>>)
    BY TreesAssumption
  <1> USE <1>0 DEF ManifestInv
  <1>1. CASE FirstScan
    <2>1. PICK scan \in Scans :
            /\ manifestJson' = ManifestRecord(scan.site, scan.tree)
            /\ manifest' = [site |-> scan.site, tree |-> scan.tree]
            /\ taken' = scan
      BY <1>1 DEF FirstScan
    <2>2. IsTree(scan.tree) /\ scan.site = site
      BY ScansAreTrees DEF Shapes
    <2>3. manifest'.site = scan.site /\ manifest'.tree = scan.tree
      BY <2>1
    <2>4. manifestJson' # Unstored
      BY <2>1, RecordsAreStored
    <2>5. QED
      BY <1>1, <2>1, <2>2, <2>3, <2>4 DEF FirstScan, OnFile, Working, Shapes, Compared
  <1>2. CASE LoadManifest
    <2>1. manifest'.site = manifestJson.site /\ manifest'.tree = manifestJson.entries
      BY <1>2 DEF LoadManifest
    <2>2. saved # Unstored /\ manifestJson.site = taken.site /\ manifestJson.entries = taken.tree
      BY <1>2, LoadableIsSaved DEF LoadManifest, OnFile
    <2>3. QED
      BY <1>2, <2>1, <2>2 DEF LoadManifest, OnFile, Working, Shapes, Compared
  <1>3. CASE SecondScan
    <2>1. PICK scan \in Scans :
            IF SameSource(manifest, scan)
            THEN again' = scan /\ doing' = "transferring" /\ UNCHANGED manifest
            ELSE EndOfRun
      BY <1>3 DEF SecondScan
    <2>2. IsTree(scan.tree)
      BY ScansAreTrees DEF Shapes
    <2>3. QED
      BY <1>3, <2>1, <2>2 DEF SecondScan, EndOfRun, Unscanned, Unloaded, OnFile, Working, Shapes, Compared
  <1>4. CASE LeaveRun
    BY <1>4 DEF LeaveRun, EndOfRun, Unscanned, Unloaded, OnFile, Working, Shapes, Compared
  <1>5. CASE SourceChanges \/ EditSource
    BY <1>5, TreesAssumption DEF SourceChanges, EditSource, OnFile, Working, Shapes, Compared
  <1>6. CASE DamageManifest
    BY <1>6, RecordsAreStored DEF DamageManifest, OnFile, Working, Shapes, Compared
  <1>7. CASE ResetManifest
    BY <1>7 DEF ResetManifest, Unscanned, OnFile, Working, Shapes, Compared
  <1>8. CASE UNCHANGED manifestVars
    BY <1>8 DEF manifestVars, OnFile, Working, Shapes, Compared
  <1>9. QED
    BY <1>1, <1>2, <1>3, <1>4, <1>5, <1>6, <1>7, <1>8 DEF ManifestNext

-----------------------------------------------------------------------------
(* The files, the run and the scans agree (manifest.py:96-206).            *)
THEOREM ManifestInvariant == ManifestSpec => []ManifestInv
  BY ManifestInitInv, ManifestNextInv, PTL DEF ManifestSpec

(* A run works from the manifest that was saved, whatever happened to the  *)
(* file in between, or not at all (manifest.py:96-126).                    *)
THEOREM WorksFromSaved == ManifestSpec => []LoadedIsSaved
  <1>1. ManifestInv => LoadedIsSaved
    BY DEF ManifestInv, OnFile, Working, LoadedIsSaved, ManifestRecord
  <1>2. QED
    BY <1>1, ManifestInvariant, PTL

(* A transfer works from a list that the source really held, unless both   *)
(* scans were cut (manifest.py:129-147 and 182-215).                       *)
THEOREM WorksFromSource == ManifestSpec => []ListsARealSource
  <1>1. ManifestInv => ListsARealSource
    <2> SUFFICES ASSUME ManifestInv, doing = "transferring" PROVE ListsARealSource
      BY DEF ListsARealSource
    <2>1. Lists(taken) /\ manifest.site = site
      BY DEF ManifestInv, Working, Lists
    <2>2. Lists(again)
      BY SameIsEqual DEF ManifestInv, Shapes, Compared, Lists
    <2>3. QED
      BY <2>1, <2>2 DEF ListsARealSource
  <1>2. QED
    BY <1>1, ManifestInvariant, PTL

-----------------------------------------------------------------------------
(* Records of state.json *)

(* The file is the original or has been rewritten once in the new form,    *)
(* and further writes change nothing.                                      *)
Rewritten == Recorded(FromRecord(original))

RecordInv ==
  /\ original \in Records \cup {Unset}
  /\ stored = Unset <=> original = Unset
  /\ stored \in {original, Rewritten}
  /\ memory # Unset => stored # Unset /\ Readable(original) /\ memory = FromRecord(original)
  /\ stored # original => Readable(original)

(* Reading what was written gives back what was in memory.                 *)
LEMMA ReadBack ==
  ASSUME NEW record, Readable(record)
  PROVE  /\ FromRecord(Recorded(FromRecord(record))) = FromRecord(record)
         /\ Readable(Recorded(FromRecord(record)))
  <1> DEFINE state == FromRecord(record)
             rewritten == Recorded(state)
  <1>1. /\ state.completed # Unset /\ state.failed # Unset /\ state.attempts # Unset
        /\ state.retry_count # Unset /\ state.thresholds # Unset
        /\ state.last_error # Unset /\ state.last_transient_error # Unset
    BY UnsetAssumption DEF FromRecord, Get, MigratedError
  <1>2. /\ rewritten.version = 2 /\ rewritten.digest = state.digest /\ rewritten.phase = state.phase
        /\ rewritten.completed = state.completed /\ rewritten.failed = state.failed
        /\ rewritten.attempts = state.attempts /\ rewritten.retry_count = state.retry_count
        /\ rewritten.thresholds = state.thresholds /\ rewritten.progress = state.progress
        /\ rewritten.last_error = state.last_error
        /\ rewritten.last_transient_error = state.last_transient_error
    BY DEF Recorded
  <1>3. state = [digest |-> state.digest, phase |-> state.phase, completed |-> state.completed,
                 failed |-> state.failed, attempts |-> state.attempts, retry_count |-> state.retry_count,
                 thresholds |-> state.thresholds, progress |-> state.progress,
                 last_error |-> state.last_error, last_transient_error |-> state.last_transient_error]
    BY DEF FromRecord
  <1>4. Valid(state)
    BY DEF Readable
  <1>p. state.progress = [key \in DOMAIN NoProgress |-> state.progress[key]]
    BY DEF FromRecord, Progress
  <1> HIDE DEF state, rewritten
  <1>5. MigratedError(rewritten) = [current |-> state.last_error, transient |-> state.last_transient_error]
    BY <1>1, <1>2 DEF MigratedError, Get
  <1>q. Progress(rewritten) = state.progress
    BY <1>2, <1>p DEF Progress
  <1>6. FromRecord(rewritten) = state
    BY <1>1, <1>2, <1>3, <1>5, <1>q DEF FromRecord, Get
  <1>7. Readable(rewritten)
    BY <1>2, <1>4, <1>6 DEF Readable
  <1>8. QED
    BY <1>6, <1>7 DEF state, rewritten

LEMMA RecordInitInv == RecordInit => RecordInv
  BY DEF RecordInit, RecordInv

LEMMA RecordNextInv == RecordInv /\ [RecordNext]_recordVars => RecordInv'
  <1> SUFFICES ASSUME RecordInv, [RecordNext]_recordVars PROVE RecordInv'
    OBVIOUS
  <1> USE DEF RecordInv, Rewritten
  <1>1. CASE LoadState
    BY <1>1, ReadBack DEF LoadState
  <1>2. CASE SaveState
    BY <1>2, ReadBack, UnsetAssumption DEF SaveState
  <1>3. CASE ForgetState \/ RemoveState
    BY <1>3 DEF ForgetState, RemoveState
  <1>4. CASE PutState
    BY <1>4, UnsetAssumption DEF PutState
  <1>5. CASE UNCHANGED recordVars
    BY <1>5 DEF recordVars
  <1>6. QED
    BY <1>1, <1>2, <1>3, <1>4, <1>5 DEF RecordNext

(* A state.json of version 1 is upgraded without losing anything, and one  *)
(* that cannot be read is left alone (state.py:85-131,                     *)
(* src/README.md:169-171).                                                 *)
THEOREM UpgradeIsSafe == RecordSpec => []UpgradeLosesNothing
  <1>1. RecordInv => UpgradeLosesNothing
    <2> SUFFICES ASSUME RecordInv, stored # Unset PROVE UpgradeLosesNothing
      BY DEF UpgradeLosesNothing
    <2>1. ~Readable(original) => stored = original
      BY DEF RecordInv
    <2>2. Readable(original) => Readable(stored) /\ FromRecord(stored) = FromRecord(original)
      BY ReadBack DEF RecordInv, Rewritten
    <2> DEFINE now == FromRecord(original)
    <2>3. \A field \in {"completed", "failed", "attempts", "retry_count", "thresholds"} :
            original[field] # Unset => now[field] = original[field]
      BY DEF FromRecord, Get
    <2>4. original.version = 2 =>
            \A field \in {"last_error", "last_transient_error"} :
              original[field] # Unset => now[field] = original[field]
      BY DEF FromRecord, Get, MigratedError
    <2>5. original.version = 1 /\ original.last_error \notin {Unset, NoMessage} =>
            \/ Terminal(original) /\ now.last_error = original.last_error
            \/ ~Terminal(original) /\ now.last_error = NoMessage
               /\ now.last_transient_error = original.last_error
      BY DEF FromRecord, Get, MigratedError
    <2>6. \A key \in DOMAIN original.progress \cap DOMAIN NoProgress :
            now.progress[key] = original.progress[key]
      BY DEF FromRecord, Progress
    <2> HIDE DEF now
    <2>7. QED
      BY <2>1, <2>2, <2>3, <2>4, <2>5, <2>6 DEF UpgradeLosesNothing, now
  <1>2. QED
    BY <1>1, RecordInitInv, RecordNextInv, PTL DEF RecordSpec

-----------------------------------------------------------------------------
(* The two files beside each other *)

DirectoryTypes ==
  /\ present \in [FileNames -> Snapshots \cup {NoFile}]
  /\ afterLoss \in [FileNames -> SUBSET (Snapshots \cup {NoFile})]
  /\ task \in RunTasks \cup {"none", "reset", "handler"}
  /\ write \in {"none", "replace", "sync"}
  /\ snapshot \in Snapshots \cup {NoFile} /\ begun \in Snapshots \cup {NoFile}

(* What each step of a run implies about the files a program finds.  While *)
(* one is missing, no import has begun that must be kept.                  *)
RunPlace ==
  /\ write # "none" => task \in {"save", "initialize", "begin", "work", "handler"}
  /\ task \in {"save", "initialize"} => write # "none" /\ begun = NoFile
  /\ task \in {"save", "initialize", "begin"} => snapshot # NoFile
  /\ task = "save" /\ write = "sync" => present["manifest"] = snapshot
  /\ task \in {"initialize", "begin"} => present["manifest"] = snapshot
  /\ task = "initialize" /\ write = "sync" => present["state"] = snapshot
  /\ task = "begin" => present["state"] = snapshot

DirectoryInv ==
  /\ DirectoryTypes /\ RunPlace /\ BegunIsKept
  /\ \A name \in FileNames : present[name] \in afterLoss[name]

LEMMA DirectoryInitInv == DirectoryInit => DirectoryInv
  BY DEF DirectoryInit, DirectoryInv, DirectoryTypes, RunPlace, BegunIsKept, FileNames

LEMMA DirectoryNextInv == DirectoryInv /\ [DirectoryNext]_directoryVars => DirectoryInv'
  <1> SUFFICES ASSUME DirectoryInv, [DirectoryNext]_directoryVars PROVE DirectoryInv'
    OBVIOUS
  <1> USE DEF DirectoryInv, DirectoryTypes, RunPlace, BegunIsKept, FileNames, RunTasks
  <1>1. CASE TakeDirectory \/ Mutate \/ EndRun
    BY <1>1 DEF TakeDirectory, Mutate, EndRun, disk
  <1>2. CASE FirstSnapshot
    <2>1. begun = NoFile
      BY <1>2 DEF FirstSnapshot
    <2>2. QED
      BY <1>2, <2>1, SnapshotsAssumption DEF FirstSnapshot, disk
  <1>3. CASE LoadSnapshot
    <2>1. present["state"] = NoFile => begun = NoFile
      OBVIOUS
    <2>2. QED
      BY <1>3, <2>1 DEF LoadSnapshot, StateFits, disk
  <1>4. CASE Replace
    <2>1. task \in {"begin", "work", "handler"} => Written = present
      BY DEF Written
    <2>2. task = "save" => Written = [present EXCEPT !["manifest"] = snapshot]
      BY DEF Written
    <2>3. task = "initialize" => Written = [present EXCEPT !["state"] = snapshot]
      BY DEF Written
    <2>4. QED
      BY <1>4, <2>1, <2>2, <2>3 DEF Replace
  <1>5. CASE Sync
    BY <1>5 DEF Sync, FollowingTask
  <1>6. CASE RaiseInRun \/ RecordOutcome \/ LeaveDirectory \/ KillOwner
    BY <1>6 DEF RaiseInRun, RecordOutcome, LeaveDirectory, KillOwner, disk
  <1>7. ASSUME NEW name \in FileNames, UnlinkName(name) PROVE DirectoryInv'
    BY <1>7 DEF UnlinkName
  <1>8. CASE LoseHost
    BY <1>8 DEF LoseHost
  <1>9. CASE UNCHANGED directoryVars
    BY <1>9 DEF directoryVars
  <1>10. QED
    BY <1>1, <1>2, <1>3, <1>4, <1>5, <1>6, <1>7, <1>8, <1>9 DEF DirectoryNext

(* An import that was begun is never without its manifest and a state of   *)
(* it, and every run works on it, whatever an earlier reset left unsynced  *)
(* (controller.py:102-134, util.py:48-53, cli.py:152-158).                 *)
THEOREM BegunKept == DirectorySpec => []BegunIsKept
  <1>1. DirectoryInv => BegunIsKept
    BY DEF DirectoryInv
  <1>2. QED
    BY <1>1, DirectoryInitInv, DirectoryNextInv, PTL DEF DirectorySpec

-----------------------------------------------------------------------------
(* The atomic write, which implements DurableFile, and the notifications   *)
(* that rely on it *)

(* What a step of the call may rely on: the contents of the temporary file *)
(* are safe before it replaces the file, and nothing torn is ever found.   *)
FileInv ==
  /\ path \in Values \cup {Missing}
  /\ onDisk \subseteq Values \cup {Missing}
  /\ temp \in {"none", "partial", "whole", "safe"}
  /\ step \in CallSteps \cup {"idle", "returned", "raised"}
  /\ litter \in BOOLEAN
  /\ IF step \in CallSteps THEN writing \in Values ELSE writing = Nothing
  /\ step = "synced" => temp = "safe"
  /\ step = "replaced" => path = writing

-----------------------------------------------------------------------------
LEMMA FileInitInv == FileInit => FileInv
  BY DEF FileInit, FileInv, CallSteps

LEMMA FileNextInv == FileInv /\ [FileNext]_fileVars => FileInv'
  <1> SUFFICES ASSUME FileInv, [FileNext]_fileVars PROVE FileInv'
    OBVIOUS
  <1> USE ContentsAssumption DEF FileInv, CallSteps
  <1>1. ASSUME NEW v \in Values, BeginWrite(v) PROVE FileInv'
    BY <1>1 DEF BeginWrite
  <1>2. CASE WriteTemp \/ SyncTemp
    BY <1>2 DEF WriteTemp, SyncTemp
  <1>3. CASE ReplaceFile
    BY <1>3 DEF ReplaceFile, AfterReplace
  <1>4. CASE SyncDirectory \/ StepFails \/ CleanUp \/ CallOver
    BY <1>4 DEF SyncDirectory, StepFails, CleanUp, CallOver
  <1>5. CASE KillWriter \/ WriteBack \/ HostGoesDown \/ UnlinkFile
    BY <1>5 DEF KillWriter, WriteBack, HostGoesDown, UnlinkFile, NoCall
  <1>6. CASE UNCHANGED fileVars
    BY <1>6 DEF fileVars
  <1>7. QED
    BY <1>1, <1>2, <1>3, <1>4, <1>5, <1>6 DEF FileNext, CallStep

(* The steps of a call that other processes cannot see are stutters; the   *)
(* file changes hands in one.                                              *)
LEMMA StepRefines == FileInv /\ [FileNext]_fileVars => [Durable!Next]_(Durable!vars)
  <1> SUFFICES ASSUME FileInv, [FileNext]_fileVars PROVE [Durable!Next]_(Durable!vars)
    OBVIOUS
  <1> USE ContentsAssumption DEF FileInv, CallSteps, Durable!vars
  <1>1. ASSUME NEW v \in Values, BeginWrite(v) PROVE Durable!Ask(v) \/ UNCHANGED Durable!vars
    BY <1>1 DEF BeginWrite, Durable!Ask
  <1>2. CASE WriteTemp \/ SyncTemp \/ StepFails \/ CallOver
    BY <1>2 DEF WriteTemp, SyncTemp, StepFails, CallOver
  <1>3. CASE ReplaceFile
    <2>1. Durable!Happen
      BY <1>3 DEF ReplaceFile, AfterReplace, Durable!Happen
    <2>2. QED
      BY <2>1 DEF Durable!Next
  <1>4. CASE SyncDirectory
    <2>1. Durable!Confirm
      BY <1>4 DEF SyncDirectory, Durable!Confirm
    <2>2. QED
      BY <2>1 DEF Durable!Next
  <1>5. CASE CleanUp
    <2>1. Durable!GiveUp
      BY <1>5 DEF CleanUp, Durable!GiveUp
    <2>2. QED
      BY <2>1 DEF Durable!Next
  <1>6. CASE KillWriter
    <2>1. Durable!GiveUp \/ UNCHANGED Durable!vars
      BY <1>6 DEF KillWriter, NoCall, Durable!GiveUp
    <2>2. QED
      BY <2>1 DEF Durable!Next
  <1>7. CASE WriteBack
    <2>1. Durable!Settle
      BY <1>7 DEF WriteBack, Durable!Settle
    <2>2. QED
      BY <2>1 DEF Durable!Next
  <1>8. CASE HostGoesDown
    <2>1. Durable!GoDown
      BY <1>8 DEF HostGoesDown, NoCall, Durable!GoDown
    <2>2. QED
      BY <2>1 DEF Durable!Next
  <1>9. CASE UnlinkFile
    <2>1. Durable!Remove
      BY <1>9 DEF UnlinkFile, Durable!Remove
    <2>2. QED
      BY <2>1 DEF Durable!Next
  <1>10. CASE UNCHANGED fileVars
    BY <1>10 DEF fileVars
  <1>11. QED
    BY <1>1, <1>2, <1>3, <1>4, <1>5, <1>6, <1>7, <1>8, <1>9, <1>10
       DEF FileNext, CallStep, Durable!Next

(* Readers find whole values, a write that returned survives the host, and *)
(* nothing older comes back (util.py:37-63).                               *)
THEOREM ImplementsRegister == FileSpec => AtomicRegister
  <1>1. FileInit => Durable!Init
    BY DEF FileInit, Durable!Init
  <1>2. QED
    BY <1>1, FileInitInv, FileNextInv, StepRefines, PTL DEF FileSpec, AtomicRegister, Durable!Spec

-----------------------------------------------------------------------------
(* Where the controller is and what it has to announce.                    *)
Positions ==
  /\ run \in {"off", "monitor", "saving", "announcing", "handling", "handled"}
  /\ step = "idle" <=> run \in {"off", "monitor", "announcing", "handling"}
  /\ run \in {"monitor", "announcing"} => path \in Values
  /\ crossed \subseteq Thresholds
  /\ run \notin {"saving", "announcing"} => crossed = {}
  /\ logged \in [Thresholds -> Nat]

(* It announces what is saved, and nothing else can come back.             *)
SavedFirst ==
  /\ run = "saving" /\ step \in CallSteps => crossed \subseteq writing.emitted
  /\ run = "saving" /\ step = "returned" =>
       path \in Values /\ onDisk = {path} /\ crossed \subseteq path.emitted
  /\ run = "announcing" => onDisk = {path} /\ crossed \subseteq path.emitted

(* What was announced is in every file that is or may come back, and in    *)
(* the one that is being written.                                          *)
Remembered ==
  \A t \in Thresholds : logged[t] > 0 =>
    /\ t \notin crossed
    /\ \A v \in onDisk \cup {path} : v \in Values /\ t \in v.emitted
    /\ step \in CallSteps => t \in writing.emitted

ProgressInv == FileInv /\ Positions /\ SavedFirst /\ Remembered /\ NotRepeated

(* The steps around the file leave the notifications alone.                *)
LEMMA WritesArePlanned ==
  ASSUME ProgressInv, ProgressNext
  PROVE  FileNext \/ UNCHANGED fileVars
  <1> USE ProgressAssumption DEF ProgressInv, Positions, StateFiles
  <1>1. CASE StartRun
    <2>1. FreshState \in Values
      BY DEF FreshState
    <2>2. QED
      BY <1>1, <2>1 DEF StartRun, FileNext
  <1>2. CASE Measure
    <2>1. PICK new \in SUBSET Thresholds : BeginWrite([path EXCEPT !.emitted = WithCrossed(@, new)])
      BY <1>2 DEF Measure, NewlyCrossed
    <2>2. [path EXCEPT !.emitted = WithCrossed(@, new)] \in Values
      BY <1>2 DEF Measure, WithCrossed
    <2>3. QED
      BY <2>1, <2>2 DEF FileNext
  <1>3. CASE CompleteImport
    <2>1. [emitted |-> path.emitted \cup Thresholds, completed |-> TRUE] \in Values
      BY <1>3 DEF CompleteImport
    <2>2. QED
      BY <1>3, <2>1 DEF CompleteImport, FileNext
  <1>4. CASE RecordError
    BY <1>4 DEF RecordError, FileNext, FileInv
  <1>5. CASE Saved \/ SaveRaises \/ ErrorRecorded
    BY <1>5 DEF Saved, SaveRaises, ErrorRecorded, FileNext
  <1>6. CASE Announce
    BY <1>6 DEF Announce
  <1>7. CASE WriteStep \/ CrashRun \/ ResetProgress \/ WriteBack
    BY <1>7 DEF WriteStep, CrashRun, ResetProgress, FileNext
  <1>8. QED
    BY <1>1, <1>2, <1>3, <1>4, <1>5, <1>6, <1>7 DEF ProgressNext

LEMMA ProgressKeepsFile ==
  ASSUME ProgressInv, ProgressNext
  PROVE  FileInv'
  BY WritesArePlanned, FileNextInv DEF ProgressInv

(* A write that begins while nothing is to be forgotten.                   *)
LEMMA BeginCallKeeps ==
  ASSUME ProgressInv, NEW v \in Values, BeginWrite(v),
         crossed' \subseteq v.emitted \cap Thresholds,
         \A t \in crossed' : path = Missing \/ t \notin path.emitted,
         path = Missing \/ path.emitted \subseteq v.emitted,
         run' \in {"saving", "handled"}, run' = "handled" => crossed' = {},
         UNCHANGED logged
  PROVE  Positions' /\ SavedFirst' /\ Remembered' /\ NotRepeated'
  <1> USE ProgressAssumption, ContentsAssumption
      DEF ProgressInv, BeginWrite, CallSteps
  <1>1. Positions'
    BY DEF Positions
  <1>2. SavedFirst'
    BY DEF SavedFirst, Positions
  <1>3. Remembered'
    BY DEF Remembered, Positions
  <1>4. NotRepeated'
    BY DEF NotRepeated
  <1>5. QED
    BY <1>1, <1>2, <1>3, <1>4

LEMMA ProgressNextInv == ProgressInv /\ [ProgressNext]_progressVars => ProgressInv'
  <1> SUFFICES ASSUME ProgressInv, [ProgressNext]_progressVars PROVE ProgressInv'
    OBVIOUS
  <1>u. CASE UNCHANGED progressVars
    BY <1>u DEF progressVars, fileVars, ProgressInv, FileInv, Positions, SavedFirst, Remembered, NotRepeated
  <1> SUFFICES ASSUME ProgressNext PROVE Positions' /\ SavedFirst' /\ Remembered' /\ NotRepeated'
    BY <1>u, ProgressKeepsFile DEF ProgressInv
  <1>1. CASE StartRun
    <2>1. CASE path = Missing /\ BeginWrite(FreshState) /\ run' = "saving"
      <3>1. FreshState \in Values /\ FreshState.emitted = {}
        BY ProgressAssumption DEF FreshState, StateFiles
      <3>2. crossed' = {} /\ UNCHANGED logged
        BY <1>1 DEF StartRun, announcements, ProgressInv, Positions
      <3>3. QED
        BY <2>1, <3>1, <3>2, BeginCallKeeps
    <2>2. CASE path # Missing /\ run' = "monitor" /\ UNCHANGED fileVars
      BY <1>1, <2>2 DEF StartRun, announcements, fileVars, ProgressInv, FileInv, Positions,
                        SavedFirst, Remembered, NotRepeated
    <2>3. QED
      BY <1>1, <2>1, <2>2 DEF StartRun
  <1>2. CASE Measure
    <2>1. PICK count \in Counts :
            /\ crossed' = NewlyCrossed(count, path.emitted)
            /\ BeginWrite([path EXCEPT !.emitted = WithCrossed(@, crossed')])
      BY <1>2 DEF Measure
    <2>2. path \in Values /\ run' = "saving" /\ UNCHANGED logged
      BY <1>2 DEF Measure, ProgressInv, Positions
    <2> DEFINE v == [path EXCEPT !.emitted = WithCrossed(@, crossed')]
    <2>3. crossed' \subseteq Thresholds /\ crossed' \cap path.emitted = {}
      BY <2>1 DEF NewlyCrossed
    <2>4. v \in Values /\ v.emitted = path.emitted \cup crossed'
      BY <2>2, <2>3, ProgressAssumption DEF StateFiles, WithCrossed
    <2> HIDE DEF v
    <2>5. BeginWrite(v)
      BY <2>1 DEF v
    <2>6. QED
      BY <2>2, <2>3, <2>4, <2>5, BeginCallKeeps
  <1>3. CASE CompleteImport
    <2> DEFINE v == [emitted |-> path.emitted \cup Thresholds, completed |-> TRUE]
    <2>1. path \in Values /\ run' = "saving" /\ UNCHANGED logged /\ BeginWrite(v)
          /\ crossed' = Thresholds \ path.emitted
      BY <1>3 DEF CompleteImport, ProgressInv, Positions
    <2>2. v \in Values /\ v.emitted = path.emitted \cup Thresholds
      BY <2>1, ProgressAssumption DEF StateFiles
    <2> HIDE DEF v
    <2>3. QED
      BY <2>1, <2>2, BeginCallKeeps
  <1>4. CASE Saved
    BY <1>4 DEF Saved, CallOver, announcements, ProgressInv, FileInv, Positions, SavedFirst,
                Remembered, NotRepeated, CallSteps
  <1>5. CASE Announce
    <2>1. CASE UNCHANGED announcements
      BY <1>5, <2>1 DEF Announce, announcements, fileVars, ProgressInv, Positions, SavedFirst,
                        Remembered, NotRepeated, CallSteps
    <2>2. ASSUME NEW t \in crossed, logged' = [logged EXCEPT ![t] = @ + 1],
                 crossed' = crossed \ {t}, UNCHANGED run
          PROVE  Positions' /\ SavedFirst' /\ Remembered' /\ NotRepeated'
      <3>1. UNCHANGED fileVars /\ run = "announcing" /\ step = "idle"
        BY <1>5 DEF Announce, ProgressInv, Positions
      <3>2. t \in Thresholds /\ logged[t] = 0
        BY DEF ProgressInv, Positions, Remembered
      <3>3. Positions' /\ SavedFirst'
        BY <2>2, <3>1 DEF fileVars, ProgressInv, Positions, SavedFirst, CallSteps
      <3>4. Remembered'
        BY <2>2, <3>1, <3>2 DEF fileVars, ProgressInv, Positions, SavedFirst, Remembered, CallSteps
      <3>5. NotRepeated'
        BY <2>2, <3>2 DEF ProgressInv, Positions, NotRepeated
      <3>6. QED
        BY <3>3, <3>4, <3>5
    <2>3. QED
      BY <1>5, <2>1, <2>2 DEF Announce, ProgressInv, Positions
  <1>6. CASE SaveRaises \/ ErrorRecorded
    BY <1>6 DEF SaveRaises, ErrorRecorded, CallOver, announcements, ProgressInv, FileInv, Positions,
                SavedFirst, Remembered, NotRepeated, CallSteps
  <1>7. CASE RecordError
    <2>1. CASE path = Missing /\ run' = "off" /\ UNCHANGED fileVars
      BY <1>7, <2>1 DEF RecordError, announcements, fileVars, ProgressInv, FileInv, Positions,
                        SavedFirst, Remembered, NotRepeated, CallSteps
    <2>2. CASE path # Missing /\ BeginWrite(path) /\ run' = "handled"
      <3>1. path \in Values /\ crossed' = {} /\ UNCHANGED logged
        BY <1>7, <2>2 DEF RecordError, announcements, ProgressInv, FileInv, Positions
      <3>2. QED
        BY <2>2, <3>1, BeginCallKeeps
    <2>3. QED
      BY <1>7, <2>1, <2>2 DEF RecordError
  <1>8. CASE WriteStep
    <2> USE <1>8, ContentsAssumption DEF WriteStep, announcements, ProgressInv, FileInv, CallSteps
    <2>1. CASE WriteTemp \/ SyncTemp \/ StepFails
      BY <2>1 DEF WriteTemp, SyncTemp, StepFails, Positions, SavedFirst, Remembered, NotRepeated
    <2>2. CASE ReplaceFile
      BY <2>2 DEF ReplaceFile, AfterReplace, Positions, SavedFirst, Remembered, NotRepeated
    <2>3. CASE SyncDirectory
      BY <2>3 DEF SyncDirectory, Positions, SavedFirst, Remembered, NotRepeated
    <2>4. CASE CleanUp
      BY <2>4 DEF CleanUp, Positions, SavedFirst, Remembered, NotRepeated
    <2>5. QED
      BY <2>1, <2>2, <2>3, <2>4 DEF CallStep
  <1>9. CASE CrashRun
    BY <1>9 DEF CrashRun, KillWriter, HostGoesDown, NoCall, ProgressInv, FileInv, Positions,
                SavedFirst, Remembered, NotRepeated, CallSteps
  <1>10. CASE ResetProgress
    BY <1>10 DEF ResetProgress, UnlinkFile, Unlogged, ProgressInv, FileInv, Positions,
                 SavedFirst, Remembered, NotRepeated, CallSteps
  <1>11. CASE WriteBack /\ UNCHANGED <<run, announcements>>
    BY <1>11 DEF WriteBack, announcements, ProgressInv, FileInv, Positions,
                 SavedFirst, Remembered, NotRepeated, CallSteps
  <1>12. QED
    BY <1>1, <1>2, <1>3, <1>4, <1>5, <1>6, <1>7, <1>8, <1>9, <1>10, <1>11 DEF ProgressNext

LEMMA ProgressInitInv == ProgressInit => ProgressInv
  BY FileInitInv DEF ProgressInit, FileInit, ProgressInv, Positions, SavedFirst, Remembered,
                     NotRepeated, Unlogged, CallSteps

(* What was announced is in every file that may be found                   *)
(* (controller.py:155-177, util.py:37-63).                                 *)
THEOREM ProgressInvariant == ProgressSpec => []ProgressInv
  BY ProgressInitInv, ProgressNextInv, PTL DEF ProgressSpec

(* No threshold is announced twice in an import, over any crashes of the   *)
(* controller and its host (controller.py:155-177, src/README.md:224-225). *)
THEOREM AnnouncedOnce == ProgressSpec => []NotRepeated
  BY ProgressInvariant, PTL DEF ProgressInv

(* The controller uses the file as AtomicFile lets it be used, so what it  *)
(* finds there is what DurableFile promises (state.py:143-158).            *)
THEOREM ProgressUsesFile == ProgressSpec => FileSpec /\ AtomicRegister
  <1>1. ProgressInit => FileInit
    BY DEF ProgressInit
  <1>2. ProgressInv /\ [ProgressNext]_progressVars => [FileNext]_fileVars
    BY WritesArePlanned DEF progressVars
  <1>3. ProgressSpec => FileSpec
    BY <1>1, <1>2, ProgressInvariant, PTL DEF ProgressSpec, FileSpec
  <1>4. QED
    BY <1>3, ImplementsRegister
=============================================================================
