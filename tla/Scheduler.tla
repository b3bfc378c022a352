----------------------------- MODULE Scheduler -----------------------------
(***************************************************************************)
(* Scheduler.run (scheduler.py): one transfer phase.  The main thread polls *)
(* worker threads, each of which runs one rsync over a batch of entries,   *)
(* records results in state.json and schedules retries.                    *)
(*                                                                         *)
(* The interleaving is that of the code: rsync processes copy and exit at  *)
(* any point of the loop, a stop signal arrives at any point, and every    *)
(* write of state.json is a step of its own that can fail with or without  *)
(* having replaced the file (util.py: replace, then fsync the directory).  *)
(*                                                                         *)
(* Abstracted: the clock (a waiting item may or may not be due when the    *)
(* loop looks), the sizes that balance_entries packs by (any partition is  *)
(* possible), and the order of the dicts `failed' and `retry_errors'.      *)
(***************************************************************************)
EXTENDS Integers, FiniteSets

CONSTANTS
  Entries,       \* the entries of the manifest
  Workers,       \* transfer.workers
  MaxAttempts,   \* transfer.max_attempts
  Messages,      \* what a failed rsync may print
  NoError        \* None, or an absent key of a dict of messages

ASSUME EntriesAssumption == IsFiniteSet(Entries)
ASSUME WorkersAssumption == Workers \in Nat \ {0}
ASSUME MaxAttemptsAssumption == MaxAttempts \in Nat \ {0}
ASSUME NoErrorAssumption == NoError \notin Messages /\ Messages # {}

WorkerIds == 1 .. Workers

VARIABLES
  (* state.json *)
  completed,           \* "completed"
  failed,              \* "failed": entry -> message, NoError when absent
  attempts,            \* "attempts": entry -> count, 0 when absent
  retryCount,          \* "retry_count"
  lastError,           \* "last_error"
  lastTransientError,  \* "last_transient_error"
  (* the world outside the main thread *)
  current,             \* entries whose destination file matches the manifest
  copied,              \* entries brought up to date by the rsync that works on them
  stopping,            \* SubprocessRunner.stopping
  (* locals of Scheduler.run *)
  pc,                  \* where the main thread is
  pending,             \* the argument `entries'
  remaining,           \* worker id -> batch waiting to start, {} when absent
  running,             \* worker id -> batch handed to the pool, {} when absent
  future,              \* worker id -> state of its future
  done,                \* completed_futures still to be handled in this pass
  item,                \* the worker whose failure is being handled
  unfinished,          \* the entries of that failure, {} when there is none
  message,             \* and its message
  retryErrors,         \* worker id -> message of the retry it waits for
  allSuccessful,
  interrupted

persisted ==
  <<completed, failed, attempts, retryCount, lastError, lastTransientError>>
world == <<current, copied, stopping>>
queues == <<remaining, running, future>>
hand == <<item, unfinished, message>>
flags == <<allSuccessful, interrupted>>
vars == <<persisted, world, pc, pending, queues, done, hand, retryErrors, flags>>

Failed == {e \in Entries : failed[e] # NoError}
Open == pending \ (completed \cup Failed)
Waiting == {w \in WorkerIds : remaining[w] # {}}
Running == {w \in WorkerIds : running[w] # {}}

NoBatches == [w \in WorkerIds |-> {}]
PCs == {"begin", "top", "launch", "process", "attempt", "retry",
        "raising", "returned", "raised"}

TypeOK ==
  /\ completed \in SUBSET Entries
  /\ failed \in [Entries -> Messages \cup {NoError}]
  /\ attempts \in [Entries -> Nat]
  /\ retryCount \in Nat
  /\ lastError \in Messages \cup {NoError}
  /\ lastTransientError \in Messages \cup {NoError}
  /\ current \in SUBSET Entries
  /\ copied \in SUBSET Entries
  /\ stopping \in BOOLEAN
  /\ pc \in PCs
  /\ pending \in SUBSET Entries
  /\ remaining \in [WorkerIds -> SUBSET Entries]
  /\ running \in [WorkerIds -> SUBSET Entries]
  /\ future \in [WorkerIds -> {"none", "active", "ok", "failed"}]
  /\ done \in SUBSET WorkerIds
  /\ item \in WorkerIds
  /\ unfinished \in SUBSET Entries
  /\ message \in Messages \cup {NoError}
  /\ retryErrors \in [WorkerIds -> Messages \cup {NoError}]
  /\ allSuccessful \in BOOLEAN
  /\ interrupted \in BOOLEAN

-----------------------------------------------------------------------------
(* Helpers *)

(* atomic_write_bytes raises after it has replaced state.json when the     *)
(* directory cannot be synced: the caller goes on or unwinds, and the      *)
(* change is on disk either way.                                           *)
Wrote(next) == pc' \in {next, "raising"}

(* What the closures complete and recovery_started leave in last_error: a  *)
(* message of failed work if there is any, else that of a retry still      *)
(* waiting, else None.                                                     *)
KeepError(fail, retry) == {lastError}      \* faulty variant: never withdrawn
ShownWorkers(fail, retry) ==      \* faulty variant: keys for values
  {NoError} \cup {w \in WorkerIds : retry[w] # NoError}
ShownErrors(fail, retry) ==
  LET ofFailed == {fail[e] : e \in Entries} \ {NoError}
      ofRetries == {retry[w] : w \in WorkerIds} \ {NoError}
  IN IF ofFailed # {} THEN ofFailed
     ELSE IF ofRetries # {} THEN ofRetries
     ELSE {NoError}

(* state.failed.pop(id, None) for the entries of S.                        *)
Forget(f, S) == [e \in Entries |-> IF e \in S THEN NoError ELSE f[e]]

(* balance_entries: a partition of the entries over the worker ids.        *)
IsAssignment(a) ==
  /\ \A e \in pending : \E w \in WorkerIds : e \in a[w]
  /\ \A v, w \in WorkerIds : v # w => a[v] \cap a[w] = {}

(* The part of a failed batch that completion_probe finds finished.        *)
AllIfAny(w) ==      \* faulty variant: one finished file vouches for the batch
  IF running[w] \cap current = {} THEN {} ELSE running[w]
Finished(w) == running[w] \cap current

(* The attempt being recorded is the last one that e is given.             *)
OneTooMany(e) == attempts[e] >= MaxAttempts      \* faulty variant: off by one
Exhausts(e) == attempts[e] + 1 >= MaxAttempts

(* last_transient_error after an attempt, when the entries of retry will   *)
(* be tried again.                                                         *)
OnlyIfAllRetry(retry) ==      \* faulty variant: all for any
  IF retry = unfinished THEN message ELSE lastTransientError
TransientError(retry) == IF retry # {} THEN message ELSE lastTransientError

(* all_successful after an attempt that exhausted the given entries.       *)
LastBatchDecides(exhausted) == exhausted = {}      \* faulty variant
StillSuccessful(exhausted) == allSuccessful /\ exhausted = {}

(* del remaining[worker_id]                                                *)
LeaveQueued(w) == UNCHANGED remaining      \* faulty variant: not deleted
Dequeue(w) == remaining' = [remaining EXCEPT ![w] = {}]

(* remaining[item.worker_id] = retry_item                                  *)
ForgetRetry == UNCHANGED remaining      \* faulty variant: not queued again
Requeue == remaining' = [remaining EXCEPT ![item] = unfinished]

(* remaining.clear()                                                       *)
KeepQueue == UNCHANGED remaining      \* faulty variant: a stop starts what is queued
ClearQueue == remaining' = NoBatches

Release == item' = 1 /\ unfinished' = {} /\ message' = NoError

-----------------------------------------------------------------------------
(* The main thread *)

(* No work: report and return.  Otherwise spread it over the workers.      *)
Begin ==
  /\ pc = "begin"
  /\ \/ /\ pending = {}
        /\ pc' = "returned"
        /\ UNCHANGED remaining
     \/ /\ pending # {}
        /\ remaining' \in {a \in [WorkerIds -> SUBSET pending] : IsAssignment(a)}
        /\ pc' = "top"
  /\ UNCHANGED <<persisted, world, pending, running, future, done, hand,
                 retryErrors, flags>>

(* The head of the loop: a stop drops everything that has not been started. *)
CheckStop ==
  /\ pc = "top"
  /\ Waiting \cup Running # {}
  /\ pc' = "launch"
  /\ \/ /\ stopping
        /\ interrupted' = TRUE
        /\ allSuccessful' = FALSE
        /\ ClearQueue
     \/ /\ ~stopping
        /\ UNCHANGED <<flags, remaining>>
  /\ UNCHANGED <<persisted, world, pending, running, future, done, hand, retryErrors>>

Finish ==
  /\ pc = "top"
  /\ Waiting \cup Running = {}
  /\ pc' = "returned"
  /\ UNCHANGED <<persisted, world, pending, queues, done, hand, retryErrors, flags>>

(* Hand the batch of a due worker to the pool.  Starting a retry withdraws *)
(* its message: recovery_started.  When that write fails the rsync is       *)
(* already on its way.                                                     *)
Launch(w) ==
  /\ pc = "launch"
  /\ w \in Waiting
  /\ Cardinality(Running) < Workers
  /\ running' = [running EXCEPT ![w] = remaining[w]]
  /\ future' = [future EXCEPT ![w] = "active"]
  /\ Dequeue(w)
  /\ copied' = copied \ remaining[w]
  /\ \/ /\ retryErrors[w] = NoError
        /\ UNCHANGED <<pc, retryErrors, lastError>>
     \/ /\ retryErrors[w] # NoError
        /\ retryErrors' = [retryErrors EXCEPT ![w] = NoError]
        /\ \/ /\ lastError' \in ShownErrors(failed, retryErrors')
              /\ Wrote("launch")
           \/ /\ pc' = "raising"
              /\ UNCHANGED lastError
  /\ UNCHANGED <<completed, failed, attempts, retryCount, lastTransientError,
                 current, stopping, pending, done, hand, flags>>

(* The monitor has reported; take the futures that are done by now.        *)
Collect ==
  /\ pc = "launch"
  /\ done' = {w \in Running : future[w] \in {"ok", "failed"}}
  /\ pc' = "process"
  /\ UNCHANGED <<persisted, world, pending, queues, hand, retryErrors, flags>>

(* Pop a finished future of worker w.                                      *)
Pop(w) ==
  /\ pc = "process"
  /\ w \in done
  /\ done' = done \ {w}
  /\ running' = [running EXCEPT ![w] = {}]
  /\ future' = [future EXCEPT ![w] = "none"]

(* The closure complete.                                                   *)
HandleSuccess(w) ==
  /\ Pop(w)
  /\ future[w] = "ok"
  /\ completed' = completed \cup running[w]
  /\ failed' = Forget(failed, running[w])
  /\ lastError' \in ShownErrors(failed', retryErrors)
  /\ Wrote("process")
  /\ UNCHANGED <<attempts, retryCount, lastTransientError, world, pending,
                 remaining, hand, retryErrors, flags>>

(* A failure seen during shutdown is not charged to the entries.           *)
DropResult(w) ==      \* faulty variant: looks at the stop before the result
  /\ Pop(w)
  /\ interrupted \/ stopping
  /\ UNCHANGED <<persisted, world, pc, pending, remaining, hand, retryErrors, flags>>

SkipFuture(w) ==      \* faulty variant: goes on before running.pop(future)
  /\ pc = "process" /\ w \in done
  /\ future[w] = "failed"
  /\ interrupted \/ stopping
  /\ done' = done \ {w}
  /\ UNCHANGED <<persisted, world, pc, pending, queues, hand, retryErrors, flags>>

HandleShutdown(w) ==
  /\ Pop(w)
  /\ future[w] = "failed"
  /\ interrupted \/ stopping
  /\ UNCHANGED <<persisted, world, pc, pending, remaining, hand, retryErrors, flags>>

(* The closure preserve_finished: the files of a failed batch that are     *)
(* complete at the destination are kept.                                   *)
HandleFailure(w) ==
  /\ Pop(w)
  /\ future[w] = "failed"
  /\ ~interrupted /\ ~stopping
  /\ LET finished == Finished(w)
         rest == running[w] \ finished
         next == IF rest = {} THEN "process" ELSE "attempt"
     IN /\ completed' = completed \cup finished
        /\ failed' = Forget(failed, finished)
        /\ IF finished = {} THEN pc' = next ELSE Wrote(next)
        /\ unfinished' = rest
        /\ item' = IF rest = {} THEN 1 ELSE w
        /\ \/ rest = {} /\ message' = NoError
           \/ rest # {} /\ message' \in Messages
  /\ UNCHANGED <<attempts, retryCount, lastError, lastTransientError, world,
                 pending, remaining, retryErrors, flags>>

(* The closure failed_attempt.  Entries that have attempts left go on to   *)
(* be scheduled again.                                                     *)
RecordAttempt ==
  /\ pc = "attempt"
  /\ attempts' = [e \in Entries |->
                    IF e \in unfinished THEN attempts[e] + 1 ELSE attempts[e]]
  /\ LET exhausted == {e \in unfinished : Exhausts(e)}
         retry == unfinished \ exhausted
     IN /\ failed' = [e \in Entries |->
                        IF e \in exhausted THEN message ELSE failed[e]]
        /\ lastTransientError' = TransientError(retry)
        /\ allSuccessful' = StillSuccessful(exhausted)
        /\ \/ /\ retry = {}
              /\ Wrote("process")
              /\ Release
           \/ /\ retry # {}
              /\ Wrote("retry")
              /\ unfinished' = retry
              /\ UNCHANGED <<item, message>>
  /\ lastError' = message
  /\ UNCHANGED <<completed, retryCount, world, pending, queues, done,
                 retryErrors, interrupted>>

(* The closure record_retry; then the batch waits for its backoff.         *)
ScheduleRetry ==
  /\ pc = "retry"
  /\ retryCount' = retryCount + 1
  /\ retryErrors' = [retryErrors EXCEPT ![item] = message]
  /\ Wrote("process")
  /\ Requeue
  /\ Release
  /\ UNCHANGED <<completed, failed, attempts, lastError, lastTransientError,
                 world, pending, running, future, done, flags>>

(* All futures of this pass are handled: sleep, and look again.            *)
EndPass ==
  /\ pc = "process"
  /\ done = {}
  /\ pc' = "top"
  /\ UNCHANGED <<persisted, world, pending, queues, done, hand, retryErrors, flags>>

(* The monitor, the completion probe or a write of state.json raises and   *)
(* nothing was written.                                                    *)
Fail ==
  /\ pc \in {"begin", "top", "launch", "process", "attempt", "retry"}
  /\ pc' = "raising"
  /\ UNCHANGED <<persisted, world, pending, queues, done, hand, retryErrors, flags>>

(* Leaving the ThreadPoolExecutor waits for the workers; their results are *)
(* not looked at.                                                          *)
Unwind ==
  /\ pc = "raising"
  /\ \A w \in WorkerIds : future[w] # "active"
  /\ pc' = "raised"
  /\ UNCHANGED <<persisted, world, pending, queues, done, hand, retryErrors, flags>>

-----------------------------------------------------------------------------
(* The worker threads: RsyncExecutor.transfer and the rsync it runs *)

(* rsync brings e up to date with the source, which may have left the      *)
(* manifest behind.                                                        *)
CopyEntry(w, e) ==
  /\ future[w] = "active"
  /\ e \in running[w] \ copied
  /\ copied' = copied \cup {e}
  /\ current' \in {current \cup {e}, current \ {e}}
  /\ UNCHANGED <<persisted, stopping, pc, pending, queues, done, hand, retryErrors, flags>>

(* Status 0 means that every listed file was handled.                      *)
RsyncExit(w) ==
  /\ future[w] = "active"
  /\ \/ running[w] \subseteq copied /\ future' = [future EXCEPT ![w] = "ok"]
     \/ future' = [future EXCEPT ![w] = "failed"]
  /\ UNCHANGED <<persisted, world, pc, pending, remaining, running, done, hand,
                 retryErrors, flags>>

(* SIGTERM or SIGINT; the handler runs between two steps of the main thread. *)
Stop ==
  /\ pc \notin {"returned", "raised"}
  /\ ~stopping
  /\ stopping' = TRUE
  /\ UNCHANGED <<persisted, current, copied, pc, pending, queues, done, hand,
                 retryErrors, flags>>

-----------------------------------------------------------------------------

(* What an earlier controller may have left behind, and Controller.run has *)
(* prepared: `transferring' cleared last_error, and `recover_completed'    *)
(* took the files that already matched.                                    *)
Init ==
  /\ completed \in SUBSET Entries
  /\ failed \in [Entries -> Messages \cup {NoError}]
  /\ attempts \in [Entries -> 0 .. MaxAttempts]
  /\ retryCount = 0
  /\ lastError = NoError
  /\ lastTransientError \in Messages \cup {NoError}
  /\ pending = Entries \ (completed \cup Failed)
  /\ completed \cap Failed = {}
  /\ \A e \in Failed : attempts[e] = MaxAttempts
  /\ \A e \in Entries \ Failed : attempts[e] < MaxAttempts
  /\ (\E e \in Entries \ Failed : attempts[e] > 0) => lastTransientError # NoError
  /\ current \in SUBSET (completed \cup Failed)
  /\ copied = {}
  /\ stopping \in BOOLEAN
  /\ pc = "begin"
  /\ remaining = NoBatches
  /\ running = NoBatches
  /\ future = [w \in WorkerIds |-> "none"]
  /\ done = {}
  /\ item = 1 /\ unfinished = {} /\ message = NoError
  /\ retryErrors = [w \in WorkerIds |-> NoError]
  /\ allSuccessful = TRUE
  /\ interrupted = FALSE

MainStep ==
  \/ Begin \/ CheckStop \/ Finish \/ Collect
  \/ \E w \in WorkerIds : HandleSuccess(w) \/ HandleShutdown(w) \/ HandleFailure(w)
  \/ RecordAttempt \/ ScheduleRetry \/ EndPass \/ Unwind

WorkerStep(w) == RsyncExit(w) \/ \E e \in Entries : CopyEntry(w, e)

Terminated == pc \in {"returned", "raised"} /\ UNCHANGED vars

Next ==
  \/ MainStep
  \/ \E w \in WorkerIds : Launch(w) \/ WorkerStep(w)
  \/ Fail
  \/ Stop
  \/ Terminated

Spec == Init /\ [][Next]_vars

(* The main thread runs, every rsync exits, and time passes: a batch that  *)
(* the loop finds waiting again and again becomes due.                     *)
Fairness ==
  /\ WF_vars(MainStep)
  /\ \A w \in WorkerIds : WF_vars(WorkerStep(w)) /\ SF_vars(Launch(w))

FairSpec == Spec /\ Fairness

-----------------------------------------------------------------------------
(* Properties *)

InPlay(w) == remaining[w] \cup running[w]

Looping == pc \in {"top", "launch", "process", "attempt", "retry"}

(* No entry is ever in the hands of two rsync processes, or of one rsync   *)
(* and of a batch that is still to start: the batches of the workers and   *)
(* the failure being handled never share an entry, and a worker that runs  *)
(* has nothing waiting (remaining, running, scheduler.py:92-93).           *)
OneRsyncPerEntry ==
  /\ \A w \in WorkerIds : remaining[w] = {} \/ running[w] = {}
  /\ \A v, w \in WorkerIds : v # w => InPlay(v) \cap InPlay(w) = {}
  /\ \A w \in WorkerIds : InPlay(w) \cap unfinished = {}

(* Until a stop is requested the loop has every open entry in play, and    *)
(* only open ones: none is forgotten between its failure and its retry,    *)
(* and what is recorded as completed or failed is not transferred again    *)
(* (scheduler.py:146-252).                                                 *)
OpenWorkInPlay ==
  Looping =>
    /\ \A w \in WorkerIds : InPlay(w) \cup unfinished \subseteq Open
    /\ ~stopping =>
         \A e \in Open : e \in unfinished \/ \E w \in WorkerIds : e \in InPlay(w)

(* What this phase has recorded as completed was brought up to date by an  *)
(* rsync that exited with status 0, or matches the manifest; later         *)
(* transfers and failures of other batches do not undo it                  *)
(* (scheduler.py:153-197).                                                 *)
RecordedMeansCopied == completed \cap pending \subseteq copied \cup current

(* An entry is failed exactly when it has used up max_attempts, however    *)
(* its batch was split and merged with retries: never earlier, never later *)
(* (scheduler.py:204-221).                                                 *)
RetryBudget ==
  \A e \in pending : attempts[e] <= MaxAttempts
                     /\ (e \in Failed <=> attempts[e] = MaxAttempts)

(* last_error, which status shows as the current error, is never the       *)
(* message of a worker that has recovered, and is present as long as a     *)
(* retry waits (scheduler.py:131-141, 161-168, 213).                       *)
ErrorIsLive ==
  pc \in {"top", "launch", "process"} =>
    /\ lastError # NoError => \/ \E e \in Entries : failed[e] = lastError
                              \/ \E w \in WorkerIds : retryErrors[w] = lastError
    /\ (\E w \in WorkerIds : retryErrors[w] # NoError) => lastError # NoError

(* A worker that begins to wait for a retry waits with the message that    *)
(* the retry history shows, also when the same failure exhausted other     *)
(* entries of its batch, and when several failures are handled in one pass *)
(* (scheduler.py:210-214, 231, 246-249).                                   *)
RetryHistoryKept ==
  [][\A w \in WorkerIds :
       retryErrors[w] = NoError /\ retryErrors'[w] # NoError =>
         lastTransientError' = retryErrors'[w]]_vars

(* Once the loop has seen the stop no rsync is started, no attempt is      *)
(* charged and no work is given up (scheduler.py:100-103, 172-174).        *)
NoWorkAfterStop ==
  [][interrupted =>
       /\ \A w \in WorkerIds : future'[w] = "active" => future[w] = "active"
       /\ attempts' = attempts
       /\ \A e \in Entries : failed'[e] # NoError => failed[e] # NoError]_vars

(* The phase implements its abstract specification: which entries it may   *)
(* settle or charge and what its result means to Controller.run.           *)
Outcome ==
  CASE pc = "returned" -> IF allSuccessful THEN "true" ELSE "false"
    [] pc = "raised" -> "raised"
    [] OTHER -> "running"

Abs == INSTANCE TransferPhase WITH failed <- Failed, outcome <- Outcome
AbsSpec == Abs!TransferSpec

(* Scheduler.run ends, whatever fails and is retried and whenever it is    *)
(* stopped (scheduler.py:99).                                              *)
Terminates == <>(pc \in {"returned", "raised"})

(* The files of an rsync that has exited with status 0 get recorded, also  *)
(* during a shutdown, unless the phase raises (scheduler.py:153-171).      *)
ResultRecorded ==
  \A w \in WorkerIds, e \in Entries :
    future[w] = "ok" /\ e \in running[w] ~> e \in completed \/ pc = "raised"

(* What Controller.run reads into the result: TRUE means that the transfer *)
(* phase has completed every entry it was given (controller.py:282-284).   *)
TrueMeansComplete ==
  pc = "returned" /\ allSuccessful => pending \subseteq completed
=============================================================================
