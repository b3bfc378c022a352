\* The components that share no variable, side by side.
SPECIFICATION MCSpec
CONSTANTS
  s1 = s1
  s2 = s2
  a = a
  b = b
  partial = partial
  entry = entry
  message = message
\* InstanceLock
  Controllers = {c1, c2}
  Probes = {p1, p2}
  Nobody = nobody
\* StatusReport
  Digests = {d1, d2}
  Workers = 2
  NoDigest = nodigest
  NoRecord = norecord
\* ManifestScan
  Trees <- MCTrees
  Sites = {s1, s2}
  PartialDir = partial
  NoManifest = nomanifest
\* StateRecord
  Records <- MCRecords
  Junk = junk
  Unset = unset
  NoMessage = null
\* AtomicFile and Progress
  Values <- StateFiles
  Missing = missing
  Torn = torn
  Nothing = nothing
  Files = {f1, f2}
  SizeOf <- MCSizeOf
  Thresholds = {50, 100}
\* RollingRate
  WindowSeconds = 3
  MaxBytes = 2
  Gaps = {0, 1, 2, 4}
  MaxSamples = 4
\* Balance
  Paths = {1, 2, 3, 4, 5}
  FileSizes = {0, 2, 3}
  WorkerCounts = {1, 2, 3}
\* Configuration and Pacing
  NotANumber = notanumber
  ConfigFiles <- MCConfigFiles
  Unread = unread
  Batches = {1, 2}
  PassTime = 1
  Horizon = 9
\* StateDirectory
  Snapshots = {t1, t2}
  NoFile = nofile
INVARIANTS
  TypesOK
  OneOwner
  PidNamesOwner
  GivenBack
  FailureIsExplained
  ListsARealSource
  LoadedIsSaved
  UpgradeLosesNothing
  NotRepeated
  RateIsWindowed
  NearOptimal
  SleepsRight
  BegunIsKept
PROPERTIES
  ProbeIsRight
  ReportIsSnapshot
  AtomicRegister
  StartsArePaced
CHECK_DEADLOCK TRUE
