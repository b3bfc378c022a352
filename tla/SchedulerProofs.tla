-------------------------- MODULE SchedulerProofs --------------------------
(***************************************************************************)
(* Theorems about Scheduler, for every finite set of entries, every number *)
(* of workers and attempts and every set of messages.                      *)
(***************************************************************************)
EXTENDS Scheduler, TLAPS

(* What the main thread holds at each of its steps.                        *)
InHand ==
  /\ pc \in {"begin", "top", "launch", "process"} => unfinished = {}
  /\ pc \in {"attempt", "retry"} =>
       /\ unfinished # {}
       /\ message # NoError
       /\ remaining[item] = {}
       /\ running[item] = {}
  /\ pc = "begin" => /\ \A w \in WorkerIds : InPlay(w) = {}
                     /\ pending = Open
                     /\ allSuccessful

(* A future exists exactly for the batches in the pool, and one that has   *)
(* exited with status 0 has handled its whole batch.                       *)
Futures ==
  /\ \A w \in WorkerIds : future[w] = "none" <=> running[w] = {}
  /\ \A w \in WorkerIds : future[w] = "ok" => running[w] \subseteq copied
  /\ \A w \in done : future[w] \in {"ok", "failed"}
  /\ pc \in {"returned", "raised"} => \A w \in WorkerIds : future[w] # "active"

(* Only open work is in play.                                              *)
OnlyOpen ==
  /\ \A w \in WorkerIds : InPlay(w) \subseteq Open
  /\ unfinished \subseteq Open

(* All open work is in play until a stop is requested.                     *)
AllOpen ==
  Looping /\ ~stopping =>
    \A e \in Open : e \in unfinished \/ \E w \in WorkerIds : e \in InPlay(w)

(* What the two flags stand for.                                           *)
FlagsMean ==
  /\ interrupted => stopping
  /\ allSuccessful => pending \cap Failed = {}
  /\ ~allSuccessful => pending \cap Failed # {} \/ stopping

IndInv ==
  /\ TypeOK
  /\ InHand
  /\ Futures
  /\ OneRsyncPerEntry
  /\ OnlyOpen
  /\ AllOpen
  /\ FlagsMean
  /\ RetryBudget
  /\ RecordedMeansCopied

-----------------------------------------------------------------------------
(* The inductive invariant. *)

(* What last_error may become is a message or None.                        *)
LEMMA ShownErrorsType ==
  ASSUME NEW fail \in [Entries -> Messages \cup {NoError}],
         NEW retry \in [WorkerIds -> Messages \cup {NoError}]
  PROVE  ShownErrors(fail, retry) \subseteq Messages \cup {NoError}
  BY DEF ShownErrors

LEMMA NextTypeOK ==
  ASSUME TypeOK, [Next]_vars
  PROVE  TypeOK'
  <1> USE WorkersAssumption, MaxAttemptsAssumption, NoErrorAssumption
      DEF TypeOK, PCs, WorkerIds, NoBatches, persisted, world, queues, hand, flags, vars
  <1>1. CASE Begin
    BY <1>1 DEF Begin, IsAssignment
  <1>2. CASE CheckStop
    BY <1>2 DEF CheckStop, ClearQueue, NoBatches
  <1>3. CASE Finish
    BY <1>3 DEF Finish
  <1>4. CASE Collect
    BY <1>4 DEF Collect, Running
  <1>5. ASSUME NEW w \in WorkerIds, HandleSuccess(w) PROVE TypeOK'
    <2>1. failed' \in [Entries -> Messages \cup {NoError}]
      BY <1>5 DEF HandleSuccess, Forget
    <2>2. lastError' \in Messages \cup {NoError}
      BY <1>5, <2>1, ShownErrorsType DEF HandleSuccess
    <2>3. pc' \in PCs
      BY <1>5 DEF HandleSuccess, Wrote
    <2>4. completed' \in SUBSET Entries
      BY <1>5 DEF HandleSuccess, Pop
    <2>5. running' \in [WorkerIds -> SUBSET Entries]
          /\ future' \in [WorkerIds -> {"none", "active", "ok", "failed"}]
          /\ done' \in SUBSET WorkerIds
      BY <1>5 DEF HandleSuccess, Pop
    <2>6. QED
      BY <1>5, <2>1, <2>2, <2>3, <2>4, <2>5 DEF HandleSuccess
  <1>6. ASSUME NEW w \in WorkerIds, HandleShutdown(w) PROVE TypeOK'
    BY <1>6 DEF HandleShutdown, Pop
  <1>7. ASSUME NEW w \in WorkerIds, HandleFailure(w) PROVE TypeOK'
    BY <1>7 DEF HandleFailure, Pop, Wrote, Forget, Finished
  <1>8. CASE RecordAttempt
    <2>1. /\ failed' \in [Entries -> Messages \cup {NoError}]
          /\ attempts' \in [Entries -> Nat]
          /\ lastTransientError' \in Messages \cup {NoError}
          /\ lastError' \in Messages \cup {NoError}
      BY <1>8 DEF RecordAttempt, TransientError
    <2>2. pc' \in PCs /\ allSuccessful' \in BOOLEAN
      BY <1>8 DEF RecordAttempt, Wrote, StillSuccessful
    <2>3. /\ item' \in WorkerIds /\ unfinished' \in SUBSET Entries
          /\ message' \in Messages \cup {NoError}
      BY <1>8 DEF RecordAttempt, Release
    <2>4. QED
      BY <1>8, <2>1, <2>2, <2>3 DEF RecordAttempt
  <1>9. CASE ScheduleRetry
    BY <1>9 DEF ScheduleRetry, Wrote, Release, Requeue
  <1>10. CASE EndPass
    BY <1>10 DEF EndPass
  <1>11. CASE Unwind
    BY <1>11 DEF Unwind
  <1>12. ASSUME NEW w \in WorkerIds, Launch(w) PROVE TypeOK'
    <2>1. retryErrors' \in [WorkerIds -> Messages \cup {NoError}]
      BY <1>12 DEF Launch
    <2>2. lastError' \in Messages \cup {NoError}
      BY <1>12, <2>1, ShownErrorsType DEF Launch
    <2>3. pc' \in PCs
      BY <1>12 DEF Launch, Wrote
    <2>4. remaining' \in [WorkerIds -> SUBSET Entries]
          /\ running' \in [WorkerIds -> SUBSET Entries]
      BY <1>12 DEF Launch, Dequeue
    <2>5. QED
      BY <1>12, <2>1, <2>2, <2>3, <2>4 DEF Launch
  <1>13. ASSUME NEW w \in WorkerIds, RsyncExit(w) PROVE TypeOK'
    BY <1>13 DEF RsyncExit
  <1>14. ASSUME NEW w \in WorkerIds, NEW e \in Entries, CopyEntry(w, e) PROVE TypeOK'
    BY <1>14 DEF CopyEntry
  <1>15. CASE Fail
    BY <1>15 DEF Fail
  <1>16. CASE Stop
    BY <1>16 DEF Stop
  <1>17. CASE Terminated
    BY <1>17 DEF Terminated, vars
  <1>18. CASE UNCHANGED vars
    BY <1>18 DEF vars
  <1>19. QED
    BY <1>1, <1>2, <1>3, <1>4, <1>5, <1>6, <1>7, <1>8, <1>9, <1>10, <1>11,
       <1>12, <1>13, <1>14, <1>15, <1>16, <1>17, <1>18 DEF Next, MainStep,
       WorkerStep

LEMMA NextInHand ==
  ASSUME IndInv, [Next]_vars
  PROVE  InHand'
  <1> USE NoErrorAssumption, WorkersAssumption
      DEF IndInv, TypeOK, InHand, Futures, OneRsyncPerEntry, InPlay, NoBatches, Open, Failed, Looping,
          WorkerIds, persisted, world, queues, hand, flags, vars
  <1>1. CASE Begin
    BY <1>1 DEF Begin, IsAssignment
  <1>2. CASE CheckStop
    BY <1>2 DEF CheckStop, ClearQueue, NoBatches
  <1>3. CASE Finish
    BY <1>3 DEF Finish
  <1>4. CASE Collect
    BY <1>4 DEF Collect, Running
  <1>5. ASSUME NEW w \in WorkerIds, HandleSuccess(w) PROVE InHand'
    BY <1>5 DEF HandleSuccess, Pop, Wrote, Forget, ShownErrors
  <1>6. ASSUME NEW w \in WorkerIds, HandleShutdown(w) PROVE InHand'
    BY <1>6 DEF HandleShutdown, Pop
  <1>7. ASSUME NEW w \in WorkerIds, HandleFailure(w) PROVE InHand'
    BY <1>7 DEF HandleFailure, Pop, Wrote, Forget, Finished
  <1>8. CASE RecordAttempt
    BY <1>8 DEF RecordAttempt, Wrote, Release, Exhausts, StillSuccessful,
       TransientError
  <1>9. CASE ScheduleRetry
    BY <1>9 DEF ScheduleRetry, Wrote, Release, Requeue
  <1>10. CASE EndPass
    BY <1>10 DEF EndPass
  <1>11. CASE Unwind
    BY <1>11 DEF Unwind
  <1>12. ASSUME NEW w \in WorkerIds, Launch(w) PROVE InHand'
    BY <1>12 DEF Launch, Wrote, Dequeue, ShownErrors, Waiting
  <1>13. ASSUME NEW w \in WorkerIds, RsyncExit(w) PROVE InHand'
    BY <1>13 DEF RsyncExit
  <1>14. ASSUME NEW w \in WorkerIds, NEW e \in Entries, CopyEntry(w, e) PROVE InHand'
    BY <1>14 DEF CopyEntry
  <1>15. CASE Fail
    BY <1>15 DEF Fail
  <1>16. CASE Stop
    BY <1>16 DEF Stop
  <1>17. CASE Terminated
    BY <1>17 DEF Terminated, vars
  <1>18. CASE UNCHANGED vars
    BY <1>18 DEF vars
  <1>19. QED
    BY <1>1, <1>2, <1>3, <1>4, <1>5, <1>6, <1>7, <1>8, <1>9, <1>10, <1>11,
       <1>12, <1>13, <1>14, <1>15, <1>16, <1>17, <1>18 DEF Next, MainStep,
       WorkerStep

LEMMA NextFutures ==
  ASSUME IndInv, [Next]_vars
  PROVE  Futures'
  <1> USE DEF IndInv, TypeOK, Futures, InHand, OneRsyncPerEntry, InPlay, NoBatches, Running,
          persisted, world, queues, hand, flags, vars
  <1>1. CASE Begin
    BY <1>1 DEF Begin, IsAssignment
  <1>2. CASE CheckStop
    BY <1>2 DEF CheckStop, ClearQueue, NoBatches
  <1>3. CASE Finish
    BY <1>3 DEF Finish
  <1>4. CASE Collect
    BY <1>4 DEF Collect, Running
  <1>5. ASSUME NEW w \in WorkerIds, HandleSuccess(w) PROVE Futures'
    BY <1>5 DEF HandleSuccess, Pop, Wrote, Forget, ShownErrors
  <1>6. ASSUME NEW w \in WorkerIds, HandleShutdown(w) PROVE Futures'
    BY <1>6 DEF HandleShutdown, Pop
  <1>7. ASSUME NEW w \in WorkerIds, HandleFailure(w) PROVE Futures'
    BY <1>7 DEF HandleFailure, Pop, Wrote, Forget, Finished
  <1>8. CASE RecordAttempt
    BY <1>8 DEF RecordAttempt, Wrote, Release, Exhausts, StillSuccessful,
       TransientError
  <1>9. CASE ScheduleRetry
    BY <1>9 DEF ScheduleRetry, Wrote, Release, Requeue
  <1>10. CASE EndPass
    BY <1>10 DEF EndPass
  <1>11. CASE Unwind
    BY <1>11 DEF Unwind
  <1>12. ASSUME NEW w \in WorkerIds, Launch(w) PROVE Futures'
    BY <1>12 DEF Launch, Wrote, Dequeue, ShownErrors, Waiting
  <1>13. ASSUME NEW w \in WorkerIds, RsyncExit(w) PROVE Futures'
    BY <1>13 DEF RsyncExit
  <1>14. ASSUME NEW w \in WorkerIds, NEW e \in Entries, CopyEntry(w, e) PROVE Futures'
    BY <1>14 DEF CopyEntry
  <1>15. CASE Fail
    BY <1>15 DEF Fail
  <1>16. CASE Stop
    BY <1>16 DEF Stop
  <1>17. CASE Terminated
    BY <1>17 DEF Terminated, vars
  <1>18. CASE UNCHANGED vars
    BY <1>18 DEF vars
  <1>19. QED
    BY <1>1, <1>2, <1>3, <1>4, <1>5, <1>6, <1>7, <1>8, <1>9, <1>10, <1>11,
       <1>12, <1>13, <1>14, <1>15, <1>16, <1>17, <1>18 DEF Next, MainStep,
       WorkerStep

LEMMA NextOneRsync ==
  ASSUME IndInv, [Next]_vars
  PROVE  OneRsyncPerEntry'
  <1> USE DEF IndInv, TypeOK, InHand, Futures, OneRsyncPerEntry, InPlay, NoBatches,
          persisted, world, queues, hand, flags, vars
  <1>1. CASE Begin
    BY <1>1 DEF Begin, IsAssignment
  <1>2. CASE CheckStop
    BY <1>2 DEF CheckStop, ClearQueue, NoBatches
  <1>3. CASE Finish
    BY <1>3 DEF Finish
  <1>4. CASE Collect
    BY <1>4 DEF Collect, Running
  <1>5. ASSUME NEW w \in WorkerIds, HandleSuccess(w) PROVE OneRsyncPerEntry'
    BY <1>5 DEF HandleSuccess, Pop
  <1>6. ASSUME NEW w \in WorkerIds, HandleShutdown(w) PROVE OneRsyncPerEntry'
    BY <1>6 DEF HandleShutdown, Pop
  <1>7. ASSUME NEW w \in WorkerIds, HandleFailure(w) PROVE OneRsyncPerEntry'
    BY <1>7 DEF HandleFailure, Pop, Wrote, Forget, Finished
  <1>8. CASE RecordAttempt
    BY <1>8 DEF RecordAttempt, Wrote, Release, Exhausts, StillSuccessful,
       TransientError
  <1>9. CASE ScheduleRetry
    BY <1>9 DEF ScheduleRetry, Wrote, Release, Requeue
  <1>10. CASE EndPass
    BY <1>10 DEF EndPass
  <1>11. CASE Unwind
    BY <1>11 DEF Unwind
  <1>12. ASSUME NEW w \in WorkerIds, Launch(w) PROVE OneRsyncPerEntry'
    BY <1>12 DEF Launch, Wrote, Dequeue, ShownErrors, Waiting
  <1>13. ASSUME NEW w \in WorkerIds, RsyncExit(w) PROVE OneRsyncPerEntry'
    BY <1>13 DEF RsyncExit
  <1>14. ASSUME NEW w \in WorkerIds, NEW e \in Entries, CopyEntry(w, e) PROVE OneRsyncPerEntry'
    BY <1>14 DEF CopyEntry
  <1>15. CASE Fail
    BY <1>15 DEF Fail
  <1>16. CASE Stop
    BY <1>16 DEF Stop
  <1>17. CASE Terminated
    BY <1>17 DEF Terminated, vars
  <1>18. CASE UNCHANGED vars
    BY <1>18 DEF vars
  <1>19. QED
    BY <1>1, <1>2, <1>3, <1>4, <1>5, <1>6, <1>7, <1>8, <1>9, <1>10, <1>11,
       <1>12, <1>13, <1>14, <1>15, <1>16, <1>17, <1>18 DEF Next, MainStep,
       WorkerStep

LEMMA NextOnlyOpen ==
  ASSUME IndInv, [Next]_vars
  PROVE  OnlyOpen'
  <1> USE NoErrorAssumption, MaxAttemptsAssumption
      DEF IndInv, TypeOK, InHand, Futures, OneRsyncPerEntry, OnlyOpen, RetryBudget, InPlay, Open, Failed, NoBatches,
          persisted, world, queues, hand, flags, vars
  <1>1. CASE Begin
    BY <1>1 DEF Begin, IsAssignment
  <1>2. CASE CheckStop
    BY <1>2 DEF CheckStop, ClearQueue, NoBatches
  <1>3. CASE Finish
    BY <1>3 DEF Finish
  <1>4. CASE Collect
    BY <1>4 DEF Collect, Running
  <1>5. ASSUME NEW w \in WorkerIds, HandleSuccess(w) PROVE OnlyOpen'
    BY <1>5 DEF HandleSuccess, Pop, Wrote, Forget, ShownErrors
  <1>6. ASSUME NEW w \in WorkerIds, HandleShutdown(w) PROVE OnlyOpen'
    BY <1>6 DEF HandleShutdown, Pop
  <1>7. ASSUME NEW w \in WorkerIds, HandleFailure(w) PROVE OnlyOpen'
    BY <1>7 DEF HandleFailure, Pop, Wrote, Forget, Finished
  <1>8. CASE RecordAttempt
    BY <1>8 DEF RecordAttempt, Wrote, Release, Exhausts, StillSuccessful,
       TransientError
  <1>9. CASE ScheduleRetry
    BY <1>9 DEF ScheduleRetry, Wrote, Release, Requeue
  <1>10. CASE EndPass
    BY <1>10 DEF EndPass
  <1>11. CASE Unwind
    BY <1>11 DEF Unwind
  <1>12. ASSUME NEW w \in WorkerIds, Launch(w) PROVE OnlyOpen'
    BY <1>12 DEF Launch, Wrote, Dequeue, ShownErrors, Waiting
  <1>13. ASSUME NEW w \in WorkerIds, RsyncExit(w) PROVE OnlyOpen'
    BY <1>13 DEF RsyncExit
  <1>14. ASSUME NEW w \in WorkerIds, NEW e \in Entries, CopyEntry(w, e) PROVE OnlyOpen'
    BY <1>14 DEF CopyEntry
  <1>15. CASE Fail
    BY <1>15 DEF Fail
  <1>16. CASE Stop
    BY <1>16 DEF Stop
  <1>17. CASE Terminated
    BY <1>17 DEF Terminated, vars
  <1>18. CASE UNCHANGED vars
    BY <1>18 DEF vars
  <1>19. QED
    BY <1>1, <1>2, <1>3, <1>4, <1>5, <1>6, <1>7, <1>8, <1>9, <1>10, <1>11,
       <1>12, <1>13, <1>14, <1>15, <1>16, <1>17, <1>18 DEF Next, MainStep,
       WorkerStep


LEMMA NextAllOpen ==
  ASSUME IndInv, [Next]_vars
  PROVE  AllOpen'
  <1> USE NoErrorAssumption, MaxAttemptsAssumption
      DEF IndInv, TypeOK, InHand, Futures, OneRsyncPerEntry, OnlyOpen, AllOpen, FlagsMean, RetryBudget, Looping, InPlay, Open, Failed, NoBatches,
          persisted, world, queues, hand, flags, vars
  <1>1. CASE Begin
    BY <1>1 DEF Begin, IsAssignment
  <1>2. CASE CheckStop
    BY <1>2 DEF CheckStop, ClearQueue, NoBatches
  <1>3. CASE Finish
    BY <1>3 DEF Finish
  <1>4. CASE Collect
    BY <1>4 DEF Collect, Running
  <1>5. ASSUME NEW w \in WorkerIds, HandleSuccess(w) PROVE AllOpen'
    BY <1>5 DEF HandleSuccess, Pop, Wrote, Forget, ShownErrors
  <1>6. ASSUME NEW w \in WorkerIds, HandleShutdown(w) PROVE AllOpen'
    BY <1>6 DEF HandleShutdown, Pop
  <1>7. ASSUME NEW w \in WorkerIds, HandleFailure(w) PROVE AllOpen'
    BY <1>7 DEF HandleFailure, Pop, Wrote, Forget, Finished
  <1>8. CASE RecordAttempt
    BY <1>8 DEF RecordAttempt, Wrote, Release, Exhausts, StillSuccessful,
       TransientError
  <1>9. CASE ScheduleRetry
    BY <1>9 DEF ScheduleRetry, Wrote, Release, Requeue
  <1>10. CASE EndPass
    BY <1>10 DEF EndPass
  <1>11. CASE Unwind
    BY <1>11 DEF Unwind
  <1>12. ASSUME NEW w \in WorkerIds, Launch(w) PROVE AllOpen'
    BY <1>12 DEF Launch, Wrote, Dequeue, ShownErrors, Waiting
  <1>13. ASSUME NEW w \in WorkerIds, RsyncExit(w) PROVE AllOpen'
    BY <1>13 DEF RsyncExit
  <1>14. ASSUME NEW w \in WorkerIds, NEW e \in Entries, CopyEntry(w, e) PROVE AllOpen'
    BY <1>14 DEF CopyEntry
  <1>15. CASE Fail
    BY <1>15 DEF Fail
  <1>16. CASE Stop
    BY <1>16 DEF Stop
  <1>17. CASE Terminated
    BY <1>17 DEF Terminated, vars
  <1>18. CASE UNCHANGED vars
    BY <1>18 DEF vars
  <1>19. QED
    BY <1>1, <1>2, <1>3, <1>4, <1>5, <1>6, <1>7, <1>8, <1>9, <1>10, <1>11,
       <1>12, <1>13, <1>14, <1>15, <1>16, <1>17, <1>18 DEF Next, MainStep,
       WorkerStep


LEMMA NextFlagsMean ==
  ASSUME IndInv, [Next]_vars
  PROVE  FlagsMean'
  <1> USE NoErrorAssumption, MaxAttemptsAssumption
      DEF IndInv, TypeOK, InHand, OnlyOpen, FlagsMean, Looping, InPlay, Open, Failed, NoBatches,
          persisted, world, queues, hand, flags, vars
  <1>1. CASE Begin
    BY <1>1 DEF Begin, IsAssignment
  <1>2. CASE CheckStop
    BY <1>2 DEF CheckStop, ClearQueue, NoBatches
  <1>3. CASE Finish
    BY <1>3 DEF Finish
  <1>4. CASE Collect
    BY <1>4 DEF Collect, Running
  <1>5. ASSUME NEW w \in WorkerIds, HandleSuccess(w) PROVE FlagsMean'
    BY <1>5 DEF HandleSuccess, Pop, Wrote, Forget, ShownErrors
  <1>6. ASSUME NEW w \in WorkerIds, HandleShutdown(w) PROVE FlagsMean'
    BY <1>6 DEF HandleShutdown, Pop
  <1>7. ASSUME NEW w \in WorkerIds, HandleFailure(w) PROVE FlagsMean'
    BY <1>7 DEF HandleFailure, Pop, Wrote, Forget, Finished
  <1>8. CASE RecordAttempt
    BY <1>8 DEF RecordAttempt, Wrote, Release, Exhausts, StillSuccessful,
       TransientError
  <1>9. CASE ScheduleRetry
    BY <1>9 DEF ScheduleRetry, Wrote, Release, Requeue
  <1>10. CASE EndPass
    BY <1>10 DEF EndPass
  <1>11. CASE Unwind
    BY <1>11 DEF Unwind
  <1>12. ASSUME NEW w \in WorkerIds, Launch(w) PROVE FlagsMean'
    BY <1>12 DEF Launch, Wrote, Dequeue, ShownErrors, Waiting
  <1>13. ASSUME NEW w \in WorkerIds, RsyncExit(w) PROVE FlagsMean'
    BY <1>13 DEF RsyncExit
  <1>14. ASSUME NEW w \in WorkerIds, NEW e \in Entries, CopyEntry(w, e) PROVE FlagsMean'
    BY <1>14 DEF CopyEntry
  <1>15. CASE Fail
    BY <1>15 DEF Fail
  <1>16. CASE Stop
    BY <1>16 DEF Stop
  <1>17. CASE Terminated
    BY <1>17 DEF Terminated, vars
  <1>18. CASE UNCHANGED vars
    BY <1>18 DEF vars
  <1>19. QED
    BY <1>1, <1>2, <1>3, <1>4, <1>5, <1>6, <1>7, <1>8, <1>9, <1>10, <1>11,
       <1>12, <1>13, <1>14, <1>15, <1>16, <1>17, <1>18 DEF Next, MainStep,
       WorkerStep


LEMMA NextRetryBudget ==
  ASSUME IndInv, [Next]_vars
  PROVE  RetryBudget'
  <1> USE NoErrorAssumption, MaxAttemptsAssumption
      DEF IndInv, TypeOK, InHand, OnlyOpen, RetryBudget, InPlay, Open, Failed, NoBatches,
          persisted, world, queues, hand, flags, vars
  <1>1. CASE Begin
    BY <1>1 DEF Begin, IsAssignment
  <1>2. CASE CheckStop
    BY <1>2 DEF CheckStop, ClearQueue, NoBatches
  <1>3. CASE Finish
    BY <1>3 DEF Finish
  <1>4. CASE Collect
    BY <1>4 DEF Collect, Running
  <1>5. ASSUME NEW w \in WorkerIds, HandleSuccess(w) PROVE RetryBudget'
    BY <1>5 DEF HandleSuccess, Pop, Wrote, Forget, ShownErrors
  <1>6. ASSUME NEW w \in WorkerIds, HandleShutdown(w) PROVE RetryBudget'
    BY <1>6 DEF HandleShutdown, Pop
  <1>7. ASSUME NEW w \in WorkerIds, HandleFailure(w) PROVE RetryBudget'
    BY <1>7 DEF HandleFailure, Pop, Wrote, Forget, Finished
  <1>8. CASE RecordAttempt
    BY <1>8 DEF RecordAttempt, Wrote, Release, Exhausts, StillSuccessful,
       TransientError
  <1>9. CASE ScheduleRetry
    BY <1>9 DEF ScheduleRetry, Wrote, Release, Requeue
  <1>10. CASE EndPass
    BY <1>10 DEF EndPass
  <1>11. CASE Unwind
    BY <1>11 DEF Unwind
  <1>12. ASSUME NEW w \in WorkerIds, Launch(w) PROVE RetryBudget'
    BY <1>12 DEF Launch, Wrote, Dequeue, ShownErrors, Waiting
  <1>13. ASSUME NEW w \in WorkerIds, RsyncExit(w) PROVE RetryBudget'
    BY <1>13 DEF RsyncExit
  <1>14. ASSUME NEW w \in WorkerIds, NEW e \in Entries, CopyEntry(w, e) PROVE RetryBudget'
    BY <1>14 DEF CopyEntry
  <1>15. CASE Fail
    BY <1>15 DEF Fail
  <1>16. CASE Stop
    BY <1>16 DEF Stop
  <1>17. CASE Terminated
    BY <1>17 DEF Terminated, vars
  <1>18. CASE UNCHANGED vars
    BY <1>18 DEF vars
  <1>19. QED
    BY <1>1, <1>2, <1>3, <1>4, <1>5, <1>6, <1>7, <1>8, <1>9, <1>10, <1>11,
       <1>12, <1>13, <1>14, <1>15, <1>16, <1>17, <1>18 DEF Next, MainStep,
       WorkerStep


LEMMA NextRecorded ==
  ASSUME IndInv, [Next]_vars
  PROVE  RecordedMeansCopied'
  <1> USE NoErrorAssumption, MaxAttemptsAssumption
      DEF IndInv, TypeOK, InHand, Futures, OnlyOpen, RecordedMeansCopied, InPlay, Open, Failed, NoBatches,
          persisted, world, queues, hand, flags, vars
  <1>1. CASE Begin
    BY <1>1 DEF Begin, IsAssignment
  <1>2. CASE CheckStop
    BY <1>2 DEF CheckStop, ClearQueue, NoBatches
  <1>3. CASE Finish
    BY <1>3 DEF Finish
  <1>4. CASE Collect
    BY <1>4 DEF Collect, Running
  <1>5. ASSUME NEW w \in WorkerIds, HandleSuccess(w) PROVE RecordedMeansCopied'
    BY <1>5 DEF HandleSuccess, Pop, Wrote, Forget, ShownErrors
  <1>6. ASSUME NEW w \in WorkerIds, HandleShutdown(w) PROVE RecordedMeansCopied'
    BY <1>6 DEF HandleShutdown, Pop
  <1>7. ASSUME NEW w \in WorkerIds, HandleFailure(w) PROVE RecordedMeansCopied'
    BY <1>7 DEF HandleFailure, Pop, Wrote, Forget, Finished
  <1>8. CASE RecordAttempt
    BY <1>8 DEF RecordAttempt, Wrote, Release, Exhausts, StillSuccessful,
       TransientError
  <1>9. CASE ScheduleRetry
    BY <1>9 DEF ScheduleRetry, Wrote, Release, Requeue
  <1>10. CASE EndPass
    BY <1>10 DEF EndPass
  <1>11. CASE Unwind
    BY <1>11 DEF Unwind
  <1>12. ASSUME NEW w \in WorkerIds, Launch(w) PROVE RecordedMeansCopied'
    BY <1>12 DEF Launch, Wrote, Dequeue, ShownErrors, Waiting
  <1>13. ASSUME NEW w \in WorkerIds, RsyncExit(w) PROVE RecordedMeansCopied'
    BY <1>13 DEF RsyncExit
  <1>14. ASSUME NEW w \in WorkerIds, NEW e \in Entries, CopyEntry(w, e) PROVE RecordedMeansCopied'
    BY <1>14 DEF CopyEntry
  <1>15. CASE Fail
    BY <1>15 DEF Fail
  <1>16. CASE Stop
    BY <1>16 DEF Stop
  <1>17. CASE Terminated
    BY <1>17 DEF Terminated, vars
  <1>18. CASE UNCHANGED vars
    BY <1>18 DEF vars
  <1>19. QED
    BY <1>1, <1>2, <1>3, <1>4, <1>5, <1>6, <1>7, <1>8, <1>9, <1>10, <1>11,
       <1>12, <1>13, <1>14, <1>15, <1>16, <1>17, <1>18 DEF Next, MainStep,
       WorkerStep

LEMMA InitIndInv == Init => IndInv
  <1> SUFFICES ASSUME Init PROVE IndInv
    OBVIOUS
  <1> USE NoErrorAssumption, MaxAttemptsAssumption, WorkersAssumption
      DEF Init, InPlay, NoBatches, Open, Failed
  <1>1. TypeOK
    <2>1. current \in SUBSET Entries /\ attempts \in [Entries -> Nat] /\ 1 \in WorkerIds
      BY DEF WorkerIds
    <2>2. QED
      BY <2>1 DEF TypeOK, PCs
  <1>2. InHand /\ Futures /\ OneRsyncPerEntry
    BY DEF InHand, Futures, OneRsyncPerEntry
  <1>3. OnlyOpen /\ AllOpen
    BY DEF OnlyOpen, AllOpen, Looping
  <1>4. FlagsMean /\ RecordedMeansCopied
    BY DEF FlagsMean, RecordedMeansCopied
  <1>5. RetryBudget
    BY DEF RetryBudget
  <1>6. QED
    BY <1>1, <1>2, <1>3, <1>4, <1>5 DEF IndInv

LEMMA NextIndInv ==
  ASSUME IndInv, [Next]_vars
  PROVE  IndInv'
  <1>1. TypeOK'
    BY NextTypeOK DEF IndInv
  <1>2. QED
    BY <1>1, NextInHand, NextFutures, NextOneRsync, NextOnlyOpen, NextAllOpen,
       NextFlagsMean, NextRetryBudget, NextRecorded DEF IndInv

LEMMA IndInvHolds == Spec => []IndInv
  <1>1. IndInv /\ [Next]_vars => IndInv'
    BY NextIndInv
  <1>2. QED
    BY InitIndInv, <1>1, PTL DEF Spec

-----------------------------------------------------------------------------
(* The theorems. *)

(* Every variable of the loop keeps its type (scheduler.py:86-97).         *)
THEOREM TypeCorrect == Spec => []TypeOK
  <1>1. IndInv => TypeOK
    BY DEF IndInv
  <1>2. QED
    BY <1>1, IndInvHolds, PTL

(* An entry is never in the hands of two rsync processes, nor of one and   *)
(* of a batch still to start (scheduler.py:92-127).                        *)
THEOREM EntriesNotShared == Spec => []OneRsyncPerEntry
  <1>1. IndInv => OneRsyncPerEntry
    BY DEF IndInv
  <1>2. QED
    BY <1>1, IndInvHolds, PTL

(* The loop loses no open entry unless it is stopped and never works on    *)
(* one that is recorded (scheduler.py:146-252).                            *)
THEOREM NoEntryLost == Spec => []OpenWorkInPlay
  <1>1. IndInv => OpenWorkInPlay
    BY DEF IndInv, OpenWorkInPlay, OnlyOpen, AllOpen
  <1>2. QED
    BY <1>1, IndInvHolds, PTL

(* What is recorded as completed was copied or matches the manifest        *)
(* (scheduler.py:153-197).                                                 *)
THEOREM RecordsAreTrue == Spec => []RecordedMeansCopied
  <1>1. IndInv => RecordedMeansCopied
    BY DEF IndInv
  <1>2. QED
    BY <1>1, IndInvHolds, PTL

(* An entry fails with its last attempt, not before and not after          *)
(* (scheduler.py:204-221).                                                 *)
THEOREM BudgetIsExact == Spec => []RetryBudget
  <1>1. IndInv => RetryBudget
    BY DEF IndInv
  <1>2. QED
    BY <1>1, IndInvHolds, PTL

-----------------------------------------------------------------------------
(* Errors and stops. *)

(* The message of a failure is on its way into retry_errors, and nothing   *)
(* has gone wrong before the first pass.                                   *)
ErrorsInHand ==
  /\ pc = "begin" => lastError = NoError /\ \A w \in WorkerIds : retryErrors[w] = NoError
  /\ pc = "retry" => lastError = message /\ lastTransientError = message

ErrorInv == ErrorsInHand /\ ErrorIsLive

(* Once the loop has seen the stop nothing waits or is being charged.      *)
NothingToStart ==
  interrupted => /\ pc \notin {"begin", "attempt", "retry"}
                 /\ \A w \in WorkerIds : remaining[w] = {}

(* An error that is shown belongs to failed work or to a waiting retry,    *)
(* and one is shown as long as a retry waits.                              *)
LEMMA ShownErrorsLive ==
  ASSUME NEW fail \in [Entries -> Messages \cup {NoError}],
         NEW retry \in [WorkerIds -> Messages \cup {NoError}],
         NEW shown \in ShownErrors(fail, retry)
  PROVE  /\ shown # NoError => \/ \E e \in Entries : fail[e] = shown
                               \/ \E w \in WorkerIds : retry[w] = shown
         /\ (\E w \in WorkerIds : retry[w] # NoError) => shown # NoError
  BY DEF ShownErrors

(* The failed entries of a batch in play are none.                         *)
LEMMA ForgetOpen ==
  ASSUME IndInv, NEW w \in WorkerIds, NEW S \in SUBSET running[w]
  PROVE  Forget(failed, S) = failed
  <1>1. \A e \in S : e \in Entries => failed[e] = NoError
    BY DEF IndInv, TypeOK, OnlyOpen, InPlay, Open, Failed
  <1>2. failed \in [Entries -> Messages \cup {NoError}]
    BY DEF IndInv, TypeOK
  <1>3. QED
    BY <1>1, <1>2 DEF Forget

LEMMA NextErrorInv ==
  ASSUME IndInv, ErrorInv, [Next]_vars
  PROVE  ErrorInv'
  <1> USE NoErrorAssumption DEF ErrorInv, ErrorsInHand, ErrorIsLive,
          persisted, world, queues, hand, flags, vars
  <1>0. TypeOK /\ TypeOK'
    BY NextTypeOK DEF IndInv
  <1>1. CASE Begin
    BY <1>1 DEF Begin
  <1>2. CASE CheckStop
    BY <1>2 DEF CheckStop
  <1>3. CASE Finish
    BY <1>3 DEF Finish
  <1>4. CASE Collect
    BY <1>4 DEF Collect
  <1>5. ASSUME NEW w \in WorkerIds, HandleSuccess(w) PROVE ErrorInv'
    <2>1. pc' \in {"process", "raising"}
      BY <1>5 DEF HandleSuccess, Wrote
    <2>2. lastError' \in ShownErrors(failed', retryErrors) /\ retryErrors' = retryErrors
      BY <1>5 DEF HandleSuccess
    <2>3. ErrorIsLive'
      BY <1>0, <2>2, ShownErrorsLive DEF TypeOK
    <2>4. QED
      BY <2>1, <2>3
  <1>6. ASSUME NEW w \in WorkerIds, HandleShutdown(w) PROVE ErrorInv'
    BY <1>6 DEF HandleShutdown, Pop
  <1>7. ASSUME NEW w \in WorkerIds, HandleFailure(w) PROVE ErrorInv'
    <2>1. failed' = failed
      BY <1>7, ForgetOpen DEF HandleFailure, Finished
    <2>2. pc = "process" /\ pc' \in {"process", "attempt", "raising"}
      BY <1>7 DEF HandleFailure, Pop, Wrote
    <2>3. lastError' = lastError /\ retryErrors' = retryErrors
      BY <1>7 DEF HandleFailure
    <2>4. QED
      BY <2>1, <2>2, <2>3
  <1>8. CASE RecordAttempt
    <2>1. message # NoError /\ unfinished # {} /\ unfinished \subseteq Entries
      BY <1>8 DEF RecordAttempt, IndInv, InHand, TypeOK
    <2>2. lastError' = message /\ retryErrors' = retryErrors
      BY <1>8 DEF RecordAttempt
    <2>3. CASE \A e \in unfinished : Exhausts(e)
      <3>1. \A e \in unfinished : failed'[e] = lastError'
        BY <1>8, <2>1, <2>2, <2>3 DEF RecordAttempt
      <3>2. pc' \in {"process", "raising"}
        BY <1>8, <2>3 DEF RecordAttempt, Wrote
      <3>3. QED
        BY <2>1, <2>2, <3>1, <3>2
    <2>4. CASE \E e \in unfinished : ~Exhausts(e)
      <3>1. pc' \in {"retry", "raising"} /\ message' = message /\ lastTransientError' = message
        BY <1>8, <2>4 DEF RecordAttempt, Wrote, TransientError
      <3>2. QED
        BY <2>2, <3>1
    <2>5. QED
      BY <2>3, <2>4
  <1>9. CASE ScheduleRetry
    <2>1. message # NoError /\ item \in WorkerIds /\ lastError' = message
      BY <1>9 DEF ScheduleRetry, IndInv, InHand, TypeOK
    <2>2. retryErrors'[item] = message
      BY <1>0, <1>9, <2>1 DEF ScheduleRetry, TypeOK
    <2>3. pc' \in {"process", "raising"}
      BY <1>9 DEF ScheduleRetry, Wrote
    <2>4. QED
      BY <2>1, <2>2, <2>3
  <1>10. CASE EndPass
    BY <1>10 DEF EndPass
  <1>11. CASE Unwind
    BY <1>11 DEF Unwind
  <1>12. ASSUME NEW w \in WorkerIds, Launch(w) PROVE ErrorInv'
    <2>1. CASE retryErrors[w] = NoError
      BY <1>12, <2>1 DEF Launch
    <2>2. CASE lastError' \in ShownErrors(failed, retryErrors') /\ Wrote("launch")
      <3>1. failed' = failed /\ pc' \in {"launch", "raising"}
        BY <1>12, <2>2 DEF Launch, Wrote
      <3>2. ErrorIsLive'
        BY <1>0, <2>2, <3>1, ShownErrorsLive DEF TypeOK
      <3>3. QED
        BY <3>1, <3>2
    <2>3. CASE pc' = "raising"
      BY <2>3
    <2>4. QED
      BY <1>12, <2>1, <2>2, <2>3 DEF Launch
  <1>13. ASSUME NEW w \in WorkerIds, RsyncExit(w) PROVE ErrorInv'
    BY <1>13 DEF RsyncExit
  <1>14. ASSUME NEW w \in WorkerIds, NEW e \in Entries, CopyEntry(w, e) PROVE ErrorInv'
    BY <1>14 DEF CopyEntry
  <1>15. CASE Fail
    BY <1>15 DEF Fail
  <1>16. CASE Stop
    BY <1>16 DEF Stop
  <1>17. CASE Terminated
    BY <1>17 DEF Terminated
  <1>18. CASE UNCHANGED vars
    BY <1>18
  <1>19. QED
    BY <1>1, <1>2, <1>3, <1>4, <1>5, <1>6, <1>7, <1>8, <1>9, <1>10, <1>11,
       <1>12, <1>13, <1>14, <1>15, <1>16, <1>17, <1>18 DEF Next, MainStep,
       WorkerStep

LEMMA NextNothingToStart ==
  ASSUME TypeOK, NothingToStart, [Next]_vars
  PROVE  NothingToStart'
  <1> USE DEF NothingToStart, TypeOK, persisted, world, queues, hand, flags, vars
  <1>1. CASE Begin \/ CheckStop \/ Finish \/ Collect \/ EndPass \/ Unwind
    BY <1>1 DEF Begin, CheckStop, ClearQueue, NoBatches, Finish, Collect, EndPass, Unwind
  <1>2. ASSUME NEW w \in WorkerIds, HandleSuccess(w) \/ HandleShutdown(w) \/ HandleFailure(w)
        PROVE  NothingToStart'
    BY <1>2 DEF HandleSuccess, HandleShutdown, HandleFailure, Pop, Wrote
  <1>3. CASE RecordAttempt \/ ScheduleRetry
    BY <1>3 DEF RecordAttempt, ScheduleRetry
  <1>4. ASSUME NEW w \in WorkerIds, Launch(w) PROVE NothingToStart'
    BY <1>4 DEF Launch, Waiting, Wrote
  <1>5. ASSUME NEW w \in WorkerIds, WorkerStep(w) PROVE NothingToStart'
    BY <1>5 DEF WorkerStep, RsyncExit, CopyEntry
  <1>6. CASE Fail \/ Stop \/ Terminated \/ UNCHANGED vars
    BY <1>6 DEF Fail, Stop, Terminated
  <1>7. QED
    BY <1>1, <1>2, <1>3, <1>4, <1>5, <1>6 DEF Next, MainStep

LEMMA StoppedHolds == Spec => [](IndInv /\ ErrorInv /\ NothingToStart)
  <1>1. Init => ErrorInv /\ NothingToStart
    BY DEF Init, ErrorInv, ErrorsInHand, ErrorIsLive, NothingToStart
  <1>2. IndInv /\ ErrorInv /\ NothingToStart /\ [Next]_vars
          => (IndInv /\ ErrorInv /\ NothingToStart)'
    BY NextIndInv, NextErrorInv, NextNothingToStart DEF IndInv
  <1>3. QED
    BY InitIndInv, <1>1, <1>2, PTL DEF Spec

(* last_error is the message of something that is still wrong              *)
(* (scheduler.py:131-141, 161-168, 213).                                   *)
THEOREM ErrorsAreLive == Spec => []ErrorIsLive
  BY StoppedHolds, PTL DEF ErrorInv

(* A batch waits for its retry with the message that the history shows     *)
(* (scheduler.py:210-214, 231, 246-249).                                   *)
THEOREM HistoryIsKept == Spec => RetryHistoryKept
  <1>1. ASSUME IndInv, ErrorInv, [Next]_vars,
               NEW w \in WorkerIds, retryErrors[w] = NoError, retryErrors'[w] # NoError
        PROVE  lastTransientError' = retryErrors'[w]
    <2> USE DEF persisted, world, queues, hand, flags, vars
    <2>1. CASE ScheduleRetry
      <3>1. retryErrors' = [retryErrors EXCEPT ![item] = message] /\ lastTransientError' = message
        BY <1>1, <2>1 DEF ScheduleRetry, ErrorInv, ErrorsInHand
      <3>2. retryErrors \in [WorkerIds -> Messages \cup {NoError}]
        BY <1>1 DEF IndInv, TypeOK
      <3>3. QED
        BY <1>1, <3>1, <3>2
    <2>2. CASE \E v \in WorkerIds : Launch(v)
      BY <1>1, <2>2 DEF Launch, IndInv, TypeOK
    <2>3. CASE UNCHANGED retryErrors
      BY <1>1, <2>3
    <2>4. QED
      BY <1>1, <2>1, <2>2, <2>3
         DEF Next, MainStep, WorkerStep, Begin, CheckStop, Finish, Collect, HandleSuccess,
             HandleShutdown, HandleFailure, RecordAttempt, EndPass, Unwind, RsyncExit, CopyEntry,
             Fail, Stop, Terminated
  <1>2. IndInv /\ ErrorInv /\ [Next]_vars =>
          \A w \in WorkerIds : retryErrors[w] = NoError /\ retryErrors'[w] # NoError =>
            lastTransientError' = retryErrors'[w]
    BY <1>1
  <1>3. QED
    BY StoppedHolds, <1>2, PTL DEF Spec, RetryHistoryKept

(* After the loop has seen a stop nothing is started, charged or given up  *)
(* (scheduler.py:100-103, 172-174).                                        *)
THEOREM StopEndsWork == Spec => NoWorkAfterStop
  <1> DEFINE Quiet == /\ \A w \in WorkerIds : future'[w] = "active" => future[w] = "active"
                      /\ attempts' = attempts
                      /\ \A e \in Entries : failed'[e] # NoError => failed[e] # NoError
  <1>1. ASSUME TypeOK, NothingToStart, [Next]_vars, interrupted
        PROVE  Quiet
    <2> USE <1>1 DEF TypeOK, NothingToStart, persisted, world, queues, hand, flags, vars
    <2>1. CASE Begin \/ CheckStop \/ Finish \/ Collect \/ EndPass \/ Unwind
      BY <2>1 DEF Begin, CheckStop, Finish, Collect, EndPass, Unwind
    <2>2. ASSUME NEW w \in WorkerIds, HandleSuccess(w) \/ HandleShutdown(w) \/ HandleFailure(w)
          PROVE  Quiet
      BY <2>2 DEF HandleSuccess, HandleShutdown, HandleFailure, Pop, Forget
    <2>3. ~RecordAttempt /\ ~ScheduleRetry /\ ~\E w \in WorkerIds : Launch(w)
      BY DEF RecordAttempt, ScheduleRetry, Launch, Waiting
    <2>4. ASSUME NEW w \in WorkerIds, WorkerStep(w) PROVE Quiet
      BY <2>4 DEF WorkerStep, RsyncExit, CopyEntry
    <2>5. CASE Fail \/ Stop \/ Terminated \/ UNCHANGED vars
      BY <2>5 DEF Fail, Stop, Terminated
    <2>6. QED
      BY <2>1, <2>2, <2>3, <2>4, <2>5 DEF Next, MainStep
  <1>2. IndInv /\ NothingToStart /\ [Next]_vars => (interrupted => Quiet)
    BY <1>1 DEF IndInv
  <1>3. QED
    BY StoppedHolds, <1>2, PTL DEF Spec, NoWorkAfterStop

-----------------------------------------------------------------------------
(* Scheduler implements TransferPhase. *)

LEMMA InitRefines == Init => Abs!TransferInit
  <1> SUFFICES ASSUME Init PROVE Abs!TransferInit
    OBVIOUS
  <1>1. Abs!TransferTypeOK
    BY MaxAttemptsAssumption DEF Init, Abs!TransferTypeOK, Abs!Outcomes, Outcome, Failed
  <1>2. QED
    BY <1>1 DEF Init, Abs!TransferInit, Outcome

(* Each step of the code is a step of the abstract phase or leaves it      *)
(* alone.                                                                  *)
LEMMA NextRefines ==
  ASSUME IndInv, [Next]_vars
  PROVE  [Abs!TransferNext]_(Abs!transferVars)
  <1> USE DEF Abs!transferVars, Abs!disk, persisted, world, queues, hand, flags
  <1> DEFINE Stutter == UNCHANGED Abs!transferVars
  <1>1. CASE Begin
    <2>1. CASE pending = {}
      <3>1. Abs!ReturnTrue
        BY <1>1, <2>1 DEF Begin, Abs!ReturnTrue, Abs!Open, Outcome, Failed, IndInv, InHand
      <3>2. QED
        BY <3>1 DEF Abs!TransferNext, Abs!WorkStep
    <2>2. CASE pending # {}
      BY <1>1, <2>2 DEF Begin, Outcome, Failed
    <2>3. QED
      BY <2>1, <2>2
  <1>2. CASE CheckStop \/ Collect \/ ScheduleRetry \/ EndPass \/ Fail
    BY <1>2 DEF CheckStop, Collect, ScheduleRetry, EndPass, Fail, Wrote, Outcome, Failed
  <1>3. CASE Finish
    <2>1. Open = {} \/ stopping
      BY <1>3 DEF Finish, IndInv, InHand, AllOpen, Looping, InPlay, Waiting, Running, Open
    <2>2. Abs!ReturnTrue \/ Abs!ReturnFalse
      BY <1>3, <2>1 DEF Finish, Abs!ReturnTrue, Abs!ReturnFalse, Abs!Open, Open,
                        Outcome, Failed, IndInv, TypeOK, FlagsMean
    <2>3. QED
      BY <2>2 DEF Abs!TransferNext, Abs!WorkStep
  <1>4. ASSUME NEW w \in WorkerIds, HandleSuccess(w)
        PROVE  Abs!TransferNext
    <2>1. /\ running[w] # {} /\ running[w] \subseteq Open
          /\ running[w] \subseteq copied /\ running[w] \in SUBSET Entries
      BY <1>4 DEF HandleSuccess, Pop, IndInv, TypeOK, Futures, OnlyOpen, InPlay
    <2>2. Failed' = Failed
      BY <1>4, <2>1 DEF HandleSuccess, Forget, Failed, Open, IndInv, TypeOK
    <2>3. Abs!Settle(running[w])
      BY <1>4, <2>1, <2>2 DEF HandleSuccess, Pop, Wrote, Abs!Settle, Abs!Open, Open, Outcome
    <2>4. QED
      BY <2>1, <2>3 DEF Abs!TransferNext, Abs!WorkStep
  <1>5. ASSUME NEW w \in WorkerIds, HandleShutdown(w) \/ RsyncExit(w)
        PROVE  Stutter
    BY <1>5 DEF HandleShutdown, RsyncExit, Pop, Outcome, Failed
  <1>6. ASSUME NEW w \in WorkerIds, HandleFailure(w)
        PROVE  Abs!TransferNext \/ Stutter
    <2>1. /\ Finished(w) \subseteq Open /\ Finished(w) \subseteq current
          /\ Finished(w) \in SUBSET Entries
      BY <1>6 DEF HandleFailure, Finished, IndInv, TypeOK, OnlyOpen, InPlay
    <2>2. Failed' = Failed
      BY <1>6, <2>1 DEF HandleFailure, Forget, Failed, Open, IndInv, TypeOK
    <2>3. /\ Outcome = "running" /\ Outcome' = "running"
          /\ completed' = completed \cup Finished(w)
          /\ UNCHANGED <<attempts, current, copied, pending, stopping>>
      BY <1>6 DEF HandleFailure, Pop, Wrote, Outcome
    <2>4. CASE Finished(w) = {}
      BY <2>2, <2>3, <2>4
    <2>5. CASE Finished(w) # {}
      <3>1. Abs!Settle(Finished(w))
        BY <2>1, <2>2, <2>3, <2>5 DEF Abs!Settle, Abs!Open, Open
      <3>2. QED
        BY <2>1, <3>1 DEF Abs!TransferNext, Abs!WorkStep
    <2>6. QED
      BY <2>4, <2>5
  <1>7. CASE RecordAttempt
    <2>1. unfinished # {} /\ unfinished \subseteq Open /\ unfinished \in SUBSET Entries
      BY <1>7 DEF RecordAttempt, IndInv, TypeOK, InHand, OnlyOpen
    <2>2. Failed' = Failed \cup {e \in unfinished : attempts[e] + 1 >= MaxAttempts}
      BY <1>7, <2>1, NoErrorAssumption
      DEF RecordAttempt, Exhausts, Failed, IndInv, TypeOK, InHand
    <2>3. Abs!ChargeAttempt(unfinished)
      BY <1>7, <2>1, <2>2 DEF RecordAttempt, Wrote, Abs!ChargeAttempt, Abs!Open, Open, Outcome
    <2>4. QED
      BY <2>1, <2>3 DEF Abs!TransferNext, Abs!WorkStep
  <1>8. CASE Unwind
    <2>1. Abs!Raise
      BY <1>8 DEF Unwind, Abs!Raise, Outcome, Failed
    <2>2. QED
      BY <2>1 DEF Abs!TransferNext, Abs!WorkStep
  <1>9. ASSUME NEW w \in WorkerIds, Launch(w)
        PROVE  Abs!TransferNext
    <2>1. remaining[w] \subseteq Open /\ remaining[w] \in SUBSET Entries
      BY DEF IndInv, TypeOK, OnlyOpen, InPlay
    <2>2. Abs!Assign(remaining[w])
      BY <1>9, <2>1 DEF Launch, Wrote, Abs!Assign, Abs!Open, Open, Outcome, Failed
    <2>3. QED
      BY <2>1, <2>2 DEF Abs!TransferNext, Abs!WorkStep
  <1>10. ASSUME NEW w \in WorkerIds, NEW e \in Entries, CopyEntry(w, e)
         PROVE  Abs!TransferNext
    <2>1. e \in Open
      BY <1>10 DEF CopyEntry, IndInv, OnlyOpen, InPlay
    <2>2. Outcome = "running" /\ Outcome' = "running"
      BY <1>10 DEF CopyEntry, Outcome, IndInv, Futures
    <2>3. Abs!Copy(e)
      BY <1>10, <2>1, <2>2 DEF CopyEntry, Abs!Copy, Abs!Open, Open, Failed
    <2>4. QED
      BY <2>3 DEF Abs!TransferNext, Abs!WorkStep
  <1>11. CASE Stop
    <2>1. Abs!RequestStop
      BY <1>11 DEF Stop, Abs!RequestStop, Outcome, Failed, IndInv, TypeOK, PCs
    <2>2. QED
      BY <2>1 DEF Abs!TransferNext
  <1>12. CASE Terminated \/ UNCHANGED vars
    BY <1>12 DEF Terminated, vars, Outcome, Failed
  <1>13. QED
    BY <1>1, <1>2, <1>3, <1>4, <1>5, <1>6, <1>7, <1>8, <1>9, <1>10, <1>11, <1>12
    DEF Next, MainStep, WorkerStep

(* Scheduler.run keeps the promises that Controller.run relies on, for any *)
(* number of entries, workers and attempts (scheduler.py:86-281,           *)
(* controller.py:273-285).                                                 *)
THEOREM SchedulerImplementsPhase == Spec => AbsSpec
  <1>1. IndInv /\ [Next]_vars => [Abs!TransferNext]_(Abs!transferVars)
    BY NextRefines
  <1>2. QED
    BY InitRefines, <1>1, IndInvHolds, PTL DEF Spec, AbsSpec, Abs!TransferSpec
============================================================================
