# Verification of rsync-parallel-import

TLA+ models of the controller that copies a remote tree with parallel rsync
processes, model-checked with TLC and proved with TLAPS. Paths below are
relative to `src/rsync_parallel_import/` of the repository unless they say
otherwise.

## The system

One host runs a controller. It scans a remote source into a manifest, copies
the files with several rsync processes, repairs the whole tree with a serial
`rsync -aH`, and verifies the result. It may be stopped, crash or fail at any
time and is started again by systemd or by hand; what it knows it keeps in two
JSON files that are replaced atomically.

| Component | State | Operations | Talks to | Modelled by |
| --- | --- | --- | --- | --- |
| Controller (`controller.py`) | the phase of the import, manifest, configuration | `run`, `verify`, `stop` | everything below | Controller, StateDirectory, Progress, StatusReport |
| Scheduler (`scheduler.py`) | `remaining`, `running`, `due`, `retry_errors`, `all_successful`, `interrupted`, `next_start_at` | `run`, `balance_entries` | worker threads (futures), the state store, the monitor and the probe that the controller passes in | Scheduler, TransferPhase, Pacing, Balance |
| Rsync commands (`rsync.py`) | none | `transfer`, `reconcile` | SubprocessRunner | steps of Scheduler and Controller |
| SubprocessRunner (`process.py`) | `_stopping`, `_lock`, `_processes` | `run`, `terminate_all` | the threads of the pool, the main thread, the signal handler | ProcessRunner |
| State store (`state.py`) | `state.json` | `load`, `save`, `mutate` | atomic writes | StateRecord, AtomicFile, StateDirectory |
| Atomic writes (`util.py`) | files | `atomic_write_bytes` | the file system | AtomicFile, DurableFile, StateDirectory |
| Manifest (`manifest.py`) | `manifest.json` | `scan`, `save_manifest`, `load_manifest`, `assert_same_source` | the source, over ssh | ManifestScan |
| Progress (`progress.py`) | rate samples; thresholds in `state.json` | `entry_is_complete`, `transferred_bytes`, `newly_crossed_thresholds`, `RollingRate.add` | the destination | Progress, RollingRate |
| Import lock (`locking.py`) | a lock file | `acquire`, `release`, `lock_is_held` | `run`, `reset`, `verify`, `status` | InstanceLock |
| Command line (`cli.py`) | none | `run`, `status`, `reset`, `verify`, signal handlers | controller, lock, state directory | StatusReport, Controller, StateDirectory |
| Configuration (`config.py`) | none | `load_config` | every command | Configuration |
| systemd unit | start limit | restart on failure, SIGTERM | the controller | fairness of MCControllerLive |

What makes each of them correct:

- *Scheduler*: every open entry is in the hands of exactly one worker until it
  is recorded or has used up its attempts; nothing is recorded that was not
  copied; a stop starts nothing, charges nothing and loses no success; the loop
  ends; `last_error` is the error of something that is still wrong; starts are
  staggered, retries wait for their backoff, and the loop neither oversleeps nor
  spins; no worker gets much more than its share.
- *Controller*: manifest and state never belong to different imports; completed
  means verified; reconciliation comes after the transfer of everything; every
  restart continues with exactly the open entries; failure needs an operator.
- *SubprocessRunner*: a stop reaches the children, and `run` cleans up.
- *Import lock*: one owner, and the truth for `status`.
- *State store, atomic writes*: a reader finds a whole record, the old one or the
  new one, also after an exception, a crash or a power cut; an import that was
  begun keeps both of its files through any of these until it is reset; a record of
  an earlier version is upgraded without loss.
- *Manifest*: what is transferred is what the source held.
- *Progress*: a threshold is announced at most once; the rate is that of its window.
- *status*: what it prints was true at one moment of its call.
- *Configuration*: every configuration it accepts paces the scheduler as documented.

What makes it hard: polling of futures against a stop flag that a signal
handler sets between any two steps; two writes for one failed attempt; writes
that raise after they took effect; crashes between the manifest and the state;
a source that changes while it is copied or scanned; a handler that runs on the
thread whose lock it needs; a reader without a lock; a host that loses what was
not synced. `PROJECT.json` lists these hazards line by line with the
properties that cover them.

## Modules

```
TransferPhase   what Scheduler.run promises     DurableFile   what a state file promises
   ^        ^                                       ^
   | refines| EXTENDS                               | refines
Scheduler  Controller  ProcessRunner            AtomicFile <-EXTENDS- Progress

Configuration <-EXTENDS- Pacing   Balance   RollingRate   ManifestScan   StateRecord
StateDirectory   InstanceLock   StatusReport

MCComponents   InstanceLock, StatusReport, ManifestScan, StateRecord, StateDirectory,
               Progress, RollingRate, Balance, Pacing side by side
```

Each `<M>Proofs` module holds the theorems about `<M>`. `LockAndStatusProofs` is about
InstanceLock and StatusReport, `StoredFilesProofs` about ManifestScan, StateRecord,
StateDirectory, AtomicFile and Progress, `PacingProofs` about Pacing and RollingRate,
and `ComponentsProofs` about all of them side by side. Definitions
marked "faulty variant" are plausible bugs of the definition that follows them. No
specification uses them; they exist to show that each property notices such a bug.

**TransferPhase** is the abstract specification of one transfer phase:
entries are assigned to an rsync, copied, settled or charged with a failed
attempt, and the phase returns TRUE, returns FALSE or raises. No loop, no
threads, no batches.

**Scheduler** is `Scheduler.run`, one action per stretch of the loop between
two points at which another thread or the signal handler can be noticed:

| Action | Code |
| --- | --- |
| `Begin` | `scheduler.py:87-98`, `balance_entries` as any partition |
| `CheckStop`, `Finish` | the head of the loop, 99-103 and 280-281 |
| `Launch(w)` | 104-143 with the closure `recovery_started` |
| `Collect` | monitor and `future.done()`, 145-146 |
| `HandleSuccess(w)`, `HandleShutdown(w)`, `HandleFailure(w)` | one finished future, 147-202 |
| `RecordAttempt`, `ScheduleRetry` | 204-259 |
| `EndPass` | the sleep, 260-279 |
| `Fail`, `Unwind` | an exception of the monitor or a state write, and leaving the pool |
| `CopyEntry(w, e)`, `RsyncExit(w)` | rsync in the thread of worker w |
| `Stop` | SIGTERM or SIGINT |

`remaining`, `running`, `retry_errors`, `all_successful` and `interrupted` keep
their meaning; batches are sets of entries and `{}` is an absent key. `due` is
abstracted to a choice: a waiting batch may be due or not. `next(reversed(...))`
of a dictionary is any of its values. A write of `state.json` either happens,
happens and raises, or raises without effect.

**Pacing** is the same loop seen by the clock, which Scheduler leaves open: due
times, `backoff_seconds` and `retry_delay_seconds`, `next_start_at`, and the
length of the sleep. Time passes while the monitor runs and while futures are
handled, not only in the sleep, so a batch can become due in the middle of a
pass. Starts are taken at the clock reading at the head of the pass; the little that
may pass until the process is started in its pool thread is not in the clock. A
batch may come with attempts of an earlier run, and its count may fall when entries
are exhausted. The module EXTENDS **Configuration**, which is `load_config` as the
decision which files are accepted, without a state of its own, and runs under every
configuration that one accepts.

**Balance** is `balance_entries`, the greedy packing that Scheduler takes as any
partition. `BalanceEntries` is the call with its empty bins, `DealFile` the body of its
loop, and `NextPhase` the next call. `undealt` is what the `for` has not come to,
`bins` and `sizes` (here `loads`) keep their meaning, and the result is compared with
the best assignment of all.

**Controller** is `Controller.run` and `reset` over the whole life of an import.
`ctl` is the step of the one process that holds the import lock, and the other
variables are the two files, the destination and the source. The transfer phase
is a run of `TransferPhase`'s steps; `SchedulerStep` conjoins what holds of
rsync as long as the source has not changed. `Crash` is enabled in every step,
also in a reset. `Handle` is the exception handler: a stop and an unexpected
error leave the phase, terminal errors set it to failed.

**ManifestScan** is the manifest from `find` at the source to the entries that are
transferred. Its fault is an output that ends early under a status of 0: whole
records may be missing, and the last time may have lost digits, which
`parse_scan_output` does not notice since a missing final NUL is accepted.
`FirstScan` and `LoadManifest` are the two ways into a run, `SecondScan` is
`assert_same_source`; the source changes at any time, the configured source
between runs, and `DamageManifest` changes one field of the file.

**StateRecord** is `TransferState.from_record`, `validate` and `record` with the
migration of version 1, in processes that load, save and die in any order over
records with legal, missing and illegal fields, the progress counters included.

**AtomicFile** is `atomic_write_bytes` step by step: `path` is what a program
finds, `onDisk` the set of contents that may be found after the host has gone
down, `temp` how far the temporary file is. Any step may raise; the writer may be
killed and the host may go down between any two. **DurableFile** is the register
it implements: a write that returned survives, one that raised happened or not,
and nothing older than the last confirmed write comes back.

**StateDirectory** is `manifest.json` and `state.json` beside each other. Of a file it
keeps the snapshot it belongs to: `present` is what a program finds, `afterLoss` what
may be found after the host has gone down. A write is the rename (`Replace`) and the
fsync of the directory (`Sync`), which makes the names of both files durable; `reset`
unlinks and syncs nothing, so what it removed may come back, one file or both.
`FirstSnapshot` and `LoadSnapshot` are `_load_or_initialize`, `Mutate` every later
write of a run. Controller has the same two files with everything a run does, and no
loss of the host.

**Progress** is `_record_progress` and the end of `run` on top of that file: the
thresholds are computed from the destination, saved, and then announced. `Counts`
goes over every combination of target, partial and temporary file of
`transferred_bytes`. **RollingRate** is `RollingRate.add` for any sequence of
samples.

**InstanceLock** is `acquire`, `release` and `lock_is_held` over `flock`, with
processes that die anywhere.

**StatusReport** is `status_record` look by look (`LookForManifest` to `ProbeLock`,
six looks at the directory and one at the lock) against an owner of the lock that
runs, verifies, resets or dies. Of a run it has every write of the reported
fields; errors are reduced to whether there is one.

**ProcessRunner** is `SubprocessRunner` at the grain of its lock. The main
thread has a stack of running signal handlers, since Python runs them between
two steps of the main thread and a second signal interrupts the first handler.

## Runs

| Run | Bounds | What it shows |
| --- | --- | --- |
| `scheduler_safety` | 3 entries, 2 workers, 2 attempts, 2 messages | safety of the loop, and that it implements `TransferPhase` |
| `scheduler_liveness` | 2 entries, 2 workers, 2 attempts, 1 message | it ends, and no successful result is lost |
| `controller_safety` | 3 entries, 2 attempts, 2 snapshots | safety of an import over any number of runs |
| `controller_liveness` | 2 entries, 2 attempts, 2 snapshots | restarts bring an import to an end |
| `runner` | 2 pool threads, main thread, 2 signals | cleanup and the reach of a stop |
| `components` | below | the components that share no variable |

Why these bounds: three entries on two workers give a batch of two, so that one
failure can finish one entry, exhaust another and retry a third over the phase,
while the other worker holds a batch of its own; two attempts are the first number
with a retry; two messages tell the error of one worker from that of another.
Two snapshots let the source change and change back. Two signals nest a handler
in a handler. Runs, crashes, resets and changes of the source are not bounded,
and neither is the time at which anything happens. The only cap in a guard is
`MaxSignals`; `retryCount` is bounded by the attempts. Symmetry is used for
safety only, over entries, messages and snapshots, which are only compared.
The safety run of the scheduler starts from every state that an earlier
controller may have left, not only from a first run.

`components` checks nine parts in one run. They share no variable, and `part`
chooses the one that moves in a behaviour: the others keep their initial state, so
the states of the parts add up and are not multiplied. What two components have to
do with each other is inside of a part (Progress over AtomicFile, Pacing under
Configuration) or stated as an assumption that another part discharges
(StatusReport takes from the lock what `OneOwner`, `GivenBack` and `ProbeIsRight`
show).

| Part | Bounds | Properties |
| --- | --- | --- |
| lock | 2 controllers, 2 probes, any number of deaths and new starts | `OneOwner`, `PidNamesOwner`, `GivenBack`, `ProbeIsRight` |
| status | 2 manifests, 2 workers, any number of jobs | `ReportIsSnapshot`, `FailureIsExplained` |
| manifest | 7 trees, 2 sources | `ListsARealSource`, `LoadedIsSaved` |
| record | 2338 records: every combination of legal and missing values of 10 fields in versions 1 and 2, and one wrong value at a time | `UpgradeLosesNothing` |
| directory | 2 snapshots, any number of runs, resets, errors, kills and losses of the host | `BegunIsKept` |
| progress | 2 files of one byte, thresholds 50 and 100 | `NotRepeated`, `AtomicRegister` |
| rate | 4 samples, 0, 1, 2 or 4 seconds apart, window 3, 0 to 2 bytes | `RateIsWindowed` |
| balance | up to 5 files of 0, 2 or 3 bytes, 1 to 3 workers | `NearOptimal` |
| pacing | the two configurations that are accepted, one of them without stagger and with full jitter; 2 batches, 9 ticks (`Horizon`), passes of up to 1 tick (`PassTime`), 3 attempts | `StartsArePaced`, `SleepsRight` |

Why these are enough: two probes take each other for a controller if they can; two
manifests tell a mixture from a snapshot; a second snapshot is the one that a reset
leaves behind and a loss of the host brings back; the trees differ in one time, one
digit of a time, one size and one file, hold an empty file, a reserved path or
nothing, and two sources let a manifest belong to the other one. The destination
reaches 0, 1 and 2 of two bytes, so both thresholds are crossed alone and
together. Four samples are enough for the loop of `add` to drop one and to keep another
that is outdated, with a gap longer than the window, and for a fall between two. Five files of
2 and 3 bytes on two workers are the classic worst case of the greedy
packing (3, 3, 2, 2, 2), and the bound of `NearOptimal` is missed by the opposite
order. Nine ticks have room for both starts, a failure, a
backoff and the second attempt, with the other batch due in the same pass;
`MaxSamples` and `Horizon` are the only caps in guards.

`TypesOK` is the type invariant of the parts that have one.

Deadlock is checked except for the runner, where the self-deadlock of
`CancellationIsGraceful` is a real final state.

### Runs that find a violation

| Run | Property | What the code does |
| --- | --- | --- |
| `scheduler_return` | `TrueMeansComplete` | a stop after the head of the loop makes `run` drop a result and return True with open work; the refused scan that follows keeps it from harm, but status shows a scan error |
| `controller_failed_work` | `FailedUntilReopened` | failed entries are reconciled and cleared by a plain run when the run that exhausted them ended without its handler's verdict |
| `runner_missed` | `StopReachesEveryChild` | a child started but not yet registered is not terminated |
| `runner_blocked` | `CancellationIsGraceful` | the handler blocks on a lock that its own thread holds |
| `lock_refused` | `RefusedByController` | the shared lock of a `status` probe makes a run fail |
| `status_workers` | `WorkersAreLive` | the workers of a killed controller are shown as active while `verify`, `reset` or a run that starts holds the lock |

`PROJECT.json` quotes the statement of the repository for each.

Three of the properties that hold say exactly how far the code goes, which is less
than one might expect. `ListsARealSource` allows for two scans that were cut: the
second scan catches one cut, and nothing would catch the same cut twice.
`ReportIsSnapshot` holds of the manifest and the phase; it needs the digest of
the state for it, since a reset may remove `manifest.json` after `status` has
read it. `SleepsRight` allows for a batch that is overslept: `next_due` is the
earliest due time of all waiting batches, and when that has come during the pass the
loop sleeps the whole poll interval without a look at the others. With batches due
at 2 and 4, a pass that ends at 2 and a poll interval of 3 it wakes at 5. What it
does keep is that some batch became startable in that very pass, and that none waits
for longer than a pass and a poll interval.

### Fairness

- `Scheduler`: weak fairness of the main thread and of each rsync: threads are
  scheduled, and every rsync ends some time. That is an assumption about rsync
  and ssh (the code sets no timeout on a transfer). Strong fairness
  of `Launch(w)`: a batch that the loop finds waiting in pass after pass becomes
  due, because its backoff is bounded by `backoff_max_seconds` and time passes.
- `MCControllerLive`: at an arbitrary moment the variable `calm` becomes TRUE.
  From then on nothing raises without a cause, and a controller that has ended is
  started again (`Restart=on-failure` and `systemctl enable`; the start limit of
  the unit is not modelled). Before the calm nothing is assumed.
- `ProcessRunner`: threads run, the lock is not withheld from a waiter for ever,
  and a child that was told to terminate ends. A child that was not told to need
  not end.

The parts of `components` have safety properties only and no fairness. That the
scheduler sleeps and wakes in time is the invariant `SleepsRight`, with a bound.

## Proofs

TLAPS checks these for every value of the constants that the named assumptions
allow: any finite set of entries, any number of workers and attempts from 1
up, any sets of messages, snapshots, digests, controllers and probes, any
manifest, any thresholds, any trees and sources, any set of state records, any
number of nested signals, any set of configuration files, any sizes of files, any sequence of samples and any horizon of the clock. TLC evaluates every
assumption.

`SchedulerProofs` proves all safety properties of `scheduler_safety`: `TypeOK`,
`OneRsyncPerEntry`, `OpenWorkInPlay`, `RecordedMeansCopied`, `RetryBudget`,
`ErrorIsLive`, the action properties `RetryHistoryKept` and `NoWorkAfterStop`, and
that `Scheduler` implements `TransferPhase` (`AbsSpec`), with the keys of the
dictionary `failed` for the abstract set and `Outcome` for the result.
The inductive invariant adds what the loop knows in between: `InHand` (the
failure being handled is non-empty exactly in the steps that handle one, and its
worker has nothing else in play), `Futures` (a future belongs to a running
batch), `OnlyOpen` and `AllOpen` (the two halves of `OpenWorkInPlay`, stated so
that they survive the step that leaves the loop) and `FlagsMean`
(`all_successful` is FALSE exactly because of exhausted entries or a seen stop).
`OpenWorkInPlay` alone is not inductive: it does not say where the failed batch
is between its two writes. The refinement needs all of it, since a return of
TRUE maps to `ReturnTrue` only if an empty loop without a stop means no open
entry. `ErrorIsLive` is carried over the two writes of a failure by `ErrorsInHand`
(before the second write the message is already in both error fields), and
`NoWorkAfterStop` follows from `NothingToStart`: once the loop has seen the stop
nothing waits in the queue and nothing is in the middle of being charged.

`ControllerProofs` proves all of `controller_safety`: `TypeOK`, `DigestsAgree`,
`CompletedIsVerified`, `ReconcileAfterTransfer` and `AttemptBudget` as invariants and
the action properties `StartsScheduler` and `FailedIsSticky`. The strengthening is
`Located`: what each step of `ctl` implies about the files and the destination,
for instance that past the scan at the start the manifest and the state exist
and agree, and that from `recheck` on nothing is open unless a stop was
requested. `ReconcileAfterTransfer` rests on the stop flag: a stop that made the
scheduler return TRUE too early is still set when the next scan refuses to run.

`ProcessRunnerProofs` proves `TypeOK` and `NothingLeftBehind`. The owner of the lock
is between taking it and giving it back, in `run` or in one of the nested
handlers (`OwnerIsBusy`), and a handle or a living child exists only at the steps of
`run` that have one (`ChildInRun`); the stack of handlers is never longer than the
number of signals.

`LockAndStatusProofs` proves `OneOwner`, `PidNamesOwner`, `GivenBack` and
`ProbeIsRight` of InstanceLock: who holds a lock is at a step that holds it
(`HoldersInside`), and an exclusive holder is the only holder, of a shared lock too
(`Granted`). Of
StatusReport it proves `FailureIsExplained` and `ReportIsSnapshot`: `OwnerPlace`
says what the files hold at each step of the owner, `Paired` that the two files
match whenever both exist, and `Learnt` what a status call may conclude from its
earlier looks.

`StoredFilesProofs` proves the refinement `AtomicRegister`. The invariant `FileInv`
says what each step of the call implies about the temporary file: its contents are
safe before it replaces the file, so nothing torn is ever found. It then proves
`NotRepeated` for Progress over any sequence of crashes of the controller and its
host: `SavedFirst` (what is being announced is in the file for good, since the write
returned) and `Remembered` (whatever was announced is in every version of the file
that may be found later). This is where the directory's fsync matters: without it an
older file could come back and a threshold be announced again. `ProgressUsesFile`
shows that Progress calls the file only as AtomicFile allows. Of ManifestScan the
module proves `LoadedIsSaved` and `ListsARealSource`: a damaged record that can be
loaded is the saved one (`LoadableIsSaved`), and trees that compare as the same are
equal (`SameIsEqual`), so that one complete scan of the two vouches for the list. Of
StateRecord it proves `UpgradeLosesNothing`: the stored record is always the original
or `Recorded(FromRecord(original))` (`RecordInv`), and reading that back gives the
same state (`ReadBack`), so one upgrade is as good as many. Of StateDirectory it
proves `BegunIsKept`: `RunPlace` says what each step of a run implies about the two
files, in particular that a file is missing only as long as no import has begun.
A run works only after a write that came when both files belonged to its manifest,
and the fsync of that write has made the names of both durable: from then on there
is nothing else to come back.

`BalanceProofs` proves `NearOptimal`, for any finite set of files of any sizes and any
number m of workers. `DealtEvenly` is its first half: the bins share out what was
dealt (`Shared`), each load is the bytes of its bin (`Shape`), the files still to come
are no larger than any dealt (`SmallerToCome`), and a bin without any one of its
files has no more than any other (`Even`), which the next file keeps since it goes to
the least loaded bin. `DealtWell` is the bound 4/3 - 1/3m on the longest batch. What
the loop keeps for it is `Bounded`: for every bound D that some assignment of all
files meets, a bin meets it too or has a file of at most D/3. The step that matters
is a file p of more than D/3 that would overflow the least loaded bin: then every
file so far has more than D/3, a worker of the assignment takes at most two, and a
bin with a single file leaves no room for p, so the assignment needs a worker of its
own for each such file; counting places one-to-one gives p no place
(`NotTooMany`). At the end the small file of an overflowing bin and `Even` give the
bound with D = `BestLoad` (`BoundIsEnough`). Sums are never unfolded: `Bytes` counts
the bytes of files as a set, so what is needed of them follows from the theorems on
cardinality.

`PacingProofs` proves `SleepsRight` and `StartsArePaced` for every timing that `Accepts` lets through, any number of batches
up to the workers, and any `PassTime` and `Horizon`. The invariant `PacingInv` has three
parts beside the types: `Place` (what each step of the loop implies about the pool and
the futures), `Delayed` (a batch that waits for a retry is due no earlier than its
backoff less the jitter after its rsync ended, and a start is the stagger before
`nextStartAt`) and `InTime` (no batch has been startable for longer than a pass and a
poll interval, and how much of that is used up at each step). Of the delays it
needs that they are positive and at most the maximum, of the doubling only that a
power of two is positive (`PowersOfTwo`). `RateWindowed` proves `RateIsWindowed` for any
sequence of samples: the deque is always the part of the history from `BaseIndex` on
(`RateInv`), which a later sample only moves forward (`BaseMoves`), so what the loop of
`add` dropped earlier is never needed again.

`ComponentsProofs` puts these together: a step of one part is a stutter of the others
(`StepOfParts`), so each part runs as its own specification says (`PartsRun`), and all
invariants and action properties of the run `components` hold of its specification
(`TypesCorrect`, `ComponentsCorrect`), not only of its bounds.

Every invariant and action property of a passing run is a theorem. Only
model-checked is liveness (`Terminates`, `ResultRecorded`, `ResumesToTheEnd`,
`RegisteredAreReached`, `StartsNoMore`), which is out of the prover's reach. The
`FairSpec` of Scheduler and of ProcessRunner is `Spec` with fairness, so the safety
theorems hold of it too. `PacingSpec` and `RateSpec` keep the caps `Horizon` and
`MaxSamples`; no proof uses them but to know that `Horizon` is a number.

## Assumptions

- The configuration stays the same between the runs of one import; a lower
  `max_attempts` would make open work that has no attempts left. The source in
  ManifestScan is the exception: it may be edited between runs.
- Nobody else writes the destination. In the state directory the only other
  writer is the damage of `manifest.json` in ManifestScan.
- A scan sees the source at one moment. Its output may end early, and is not
  changed otherwise.
- A digest belongs to one manifest (SHA-256 does not collide).
- rsync children end with the controller that started them, as they do under
  systemd, which ends the whole control group.
- rsync copies an entry to the manifested size and mtime if the source still
  matches the manifest, and its status 0 means that every listed file was handled.
- `flock` works as documented for one host.
- rename is atomic; an fsync of a file makes its contents durable, one of a
  directory its names; the state directory itself is durable. After a loss of the
  host any combination of the unsynced names may be found.
- One write of `state.json` is under way at a time (the RLock of `StateStore` and the
  import lock).
- Percentages and rates are exact; the code computes them as floats. Times are
  integers.
- Python runs signal handlers on the main thread between two of its steps.

## Not modelled

- Argument vectors of rsync and ssh, and the list of files on stdin: texts built
  from constants. What the commands do is modelled; that the flags ask for it is
  tested by `tests/test_local_rsync_integration.py`.
- `validate_relative_path`, base64 and the check for duplicates in a manifest: no
  scan of `find` yields such a path, and a path is a sequence here.
- The second `os.close` in `atomic_write_bytes` after a failed write: it matters
  only if another thread has got the same descriptor in between.
- The start limit and `TimeoutStopSec` of the unit, which need systemd's clock:
  five failed starts in half an hour end the restarts that `ResumesToTheEnd`
  assumes.
- Resolving and comparing the destination and the state directory in `load_config`:
  one field of a configuration says whether they are apart.
- The formatting helpers of `util.py`, the text of `human_status`, log lines, and the
  ETA, a quotient of modelled values.
- `verify` changes no state; it appears as a user of the import lock and in
  StatusReport.
- The tests and the workflow, which are not part of the running system. They
  were read as statements of intent.

Four hazards are listed without a property: the cause of a failure that a plain
restart overwrites in `last_error` (the repository promises nothing about it),
the second close, an error of the destination that makes the monitor raise in
every run (the raise is modelled, its return is a fact about the file system), and
directories that overlap through symbolic links (a property would repeat the one
comparison that the code makes).

## State of the plan

All modules of the plan exist: `TransferPhase`, `Scheduler`, `Controller`,
`ProcessRunner`, `InstanceLock`, `StatusReport`, `AtomicFile` over `DurableFile`,
`Progress`, `RollingRate`, `Balance`, `Pacing`, `Configuration`, `ManifestScan`,
`StateRecord` and `StateDirectory`, and all of their safety properties are proved. What could be added
next is of less weight: a clock for the unit, to state how the start limit and
`restart` times bound `ResumesToTheEnd`; the refinement of Scheduler by Pacing, which
today share the code and not their variables; and a Controller over AtomicFile
instead of writes with three outcomes.
