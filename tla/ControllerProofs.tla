-------------------------- MODULE ControllerProofs --------------------------
(***************************************************************************)
(* Theorems about Controller, for every finite set of entries, every       *)
(* number of attempts and every set of snapshots.                          *)
(***************************************************************************)
EXTENDS Controller, TLAPS

(* Steps that only a run with agreeing manifest and state reaches.         *)
Loaded == {"check", "decide", "transferring", "recover", "transfer", "recheck",
           "reconciling", "reconcile", "lastcheck", "verify", "complete"}

(* Steps that are taken neither for a completed nor for a failed import.   *)
Working == {"transferring", "recover", "transfer", "recheck", "reconciling",
            "reconcile", "lastcheck", "verify", "complete"}

(* What each step of the run may rely on.                                  *)
Located ==
  /\ ctl = "initialize" => manifest # NoFile /\ digest = NoFile
  /\ ctl \in Loaded => manifest # NoFile /\ digest = manifest
  /\ ctl \in Working => phase \notin {"completed", "failed"}
  /\ digest = NoFile => phase = "initialized"
  /\ ctl = "transfer" => Entries = pending \cup completed \cup failed
  /\ ctl = "transfer" /\ outcome = "true" => Open = {} \/ stopping
  /\ ctl = "recheck" => Entries = completed \cup failed \/ stopping
  /\ ctl = "reconciling" => Entries = completed \cup failed
  /\ ctl = "complete" => Entries \subseteq current
  /\ ctl \notin {"transfer", "reconcile"} => copied = {}

(* The inductive invariant: the safety properties hold because of where    *)
(* the run is.                                                             *)
IndInv ==
  /\ TypeOK
  /\ Located
  /\ AttemptBudget
  /\ DigestsAgree
  /\ CompletedIsVerified
  /\ ReconcileAfterTransfer

-----------------------------------------------------------------------------
(* Lemmas about the steps of a transfer phase. *)

(* A step of the scheduler keeps the types; it records work and never      *)
(* takes a record back.                                                    *)
LEMMA WorkStepTypes ==
  ASSUME TransferTypeOK, WorkStep
  PROVE  /\ TransferTypeOK'
         /\ pending' = pending /\ stopping' = stopping
         /\ completed \subseteq completed'
         /\ failed \subseteq failed'
  <1> USE DEF TransferTypeOK, Open, disk, Outcomes
  <1>1. ASSUME NEW e \in Entries, Copy(e) PROVE TransferTypeOK' /\ UNCHANGED <<disk, pending, stopping>>
    BY <1>1 DEF Copy
  <1>2. ASSUME NEW S \in SUBSET Entries, Assign(S)
        PROVE  TransferTypeOK' /\ UNCHANGED <<disk, pending, stopping>>
    BY <1>2 DEF Assign
  <1>3. ASSUME NEW S \in SUBSET Entries, Settle(S)
        PROVE  /\ TransferTypeOK' /\ UNCHANGED <<failed, pending, stopping>>
               /\ completed \subseteq completed'
    BY <1>3 DEF Settle
  <1>4. ASSUME NEW S \in SUBSET Entries, ChargeAttempt(S)
        PROVE  /\ TransferTypeOK' /\ UNCHANGED <<completed, pending, stopping>>
               /\ failed \subseteq failed'
    BY <1>4 DEF ChargeAttempt
  <1>5. ASSUME ReturnTrue \/ ReturnFalse \/ Raise
        PROVE  TransferTypeOK' /\ UNCHANGED <<disk, pending, stopping>>
    BY <1>5 DEF ReturnTrue, ReturnFalse, Raise
  <1>6. QED
    BY <1>1, <1>2, <1>3, <1>4, <1>5 DEF WorkStep

(* Whatever the scheduler records, open work keeps an attempt and failed   *)
(* work has none left.                                                     *)
LEMMA WorkStepBudget ==
  ASSUME TransferTypeOK, AttemptBudget, WorkStep
  PROVE  AttemptBudget'
  <1> USE MaxAttemptsAssumption DEF TransferTypeOK, AttemptBudget, Open, disk
  <1>1. ASSUME NEW e \in Entries, Copy(e) PROVE AttemptBudget'
    BY <1>1 DEF Copy
  <1>2. ASSUME NEW S \in SUBSET Entries, Assign(S) PROVE AttemptBudget'
    BY <1>2 DEF Assign
  <1>3. ASSUME NEW S \in SUBSET Entries, Settle(S) PROVE AttemptBudget'
    BY <1>3 DEF Settle
  <1>4. ASSUME NEW S \in SUBSET Entries, ChargeAttempt(S) PROVE AttemptBudget'
    <2>1. \A e \in Entries :
            attempts'[e] = IF e \in S THEN attempts[e] + 1 ELSE attempts[e]
      BY <1>4 DEF ChargeAttempt
    <2>2. \A e \in S : attempts[e] < MaxAttempts /\ e \notin failed /\ e \notin completed
      BY <1>4 DEF ChargeAttempt
    <2>3. QED
      BY <1>4, <2>1, <2>2 DEF ChargeAttempt
  <1>5. ASSUME ReturnTrue \/ ReturnFalse \/ Raise PROVE AttemptBudget'
    BY <1>5 DEF ReturnTrue, ReturnFalse, Raise
  <1>6. QED
    BY <1>1, <1>2, <1>3, <1>4, <1>5 DEF WorkStep

(* When the scheduler returns TRUE nothing is left open, or it was stopped. *)
LEMMA WorkStepTrue ==
  ASSUME WorkStep, outcome' = "true"
  PROVE  Open' = {} \/ stopping'
  <1>1. \A e \in Entries : ~Copy(e)
    BY DEF Copy
  <1>2. \A S \in SUBSET Entries : ~Assign(S) /\ ~Settle(S) /\ ~ChargeAttempt(S)
    BY DEF Assign, Settle, ChargeAttempt
  <1>3. ReturnTrue
    BY <1>1, <1>2 DEF WorkStep, ReturnFalse, Raise
  <1>4. QED
    BY <1>3 DEF ReturnTrue, Open, disk

-----------------------------------------------------------------------------
(* The inductive invariant. *)

LEMMA InitIndInv == Init => IndInv
  <1> SUFFICES ASSUME Init PROVE IndInv
    OBVIOUS
  <1> USE DEF Init, NoAttempts
  <1>1. TypeOK
    BY DEF TypeOK, TransferTypeOK, Phases, Errors, Outcomes
  <1>2. Located
    BY DEF Located, Loaded, Working
  <1>3. AttemptBudget
    BY MaxAttemptsAssumption DEF AttemptBudget
  <1>4. DigestsAgree /\ CompletedIsVerified /\ ReconcileAfterTransfer
    BY DEF DigestsAgree, CompletedIsVerified, ReconcileAfterTransfer, HasState
  <1>5. QED
    BY <1>1, <1>2, <1>3, <1>4 DEF IndInv

LEMMA NextTypeOK ==
  ASSUME TypeOK, [Next]_vars
  PROVE  TypeOK'
  <1> USE DEF TypeOK, TransferTypeOK, Steps, Phases, Errors, Outcomes,
              transferVars, controlVars, disk, work, files
  <1>1. ASSUME NEW retryFailed \in BOOLEAN, Start(retryFailed) PROVE TypeOK'
    BY <1>1 DEF Start
  <1>2. CASE Prerequisites
    BY <1>2 DEF Prerequisites, Goto, Raises
  <1>3. CASE FirstManifest
    BY <1>3 DEF FirstManifest, Wrote, Goto, Raises
  <1>4. CASE RefuseMissingManifest
    BY <1>4 DEF RefuseMissingManifest, Raises
  <1>5. CASE LoadExisting
    BY <1>5 DEF LoadExisting, Goto, Raises
  <1>6. CASE InitializeState
    BY <1>6 DEF InitializeState, Wrote, Goto, Raises, NoAttempts
  <1>7. CASE Check
    BY <1>7 DEF Check, CheckSource, Goto, Raises
  <1>8. CASE AlreadyCompleted
    BY <1>8 DEF AlreadyCompleted, Leave, NoScheduler
  <1>9. CASE RefuseFailed
    BY <1>9 DEF RefuseFailed, Raises
  <1>10. CASE Proceed
    BY <1>10 DEF Proceed, Goto
  <1>11. CASE Reopen
    BY <1>11 DEF Reopen, Wrote, Goto, Raises, ReopenedAttempts
  <1>12. CASE Transferring
    BY <1>12 DEF Transferring, Wrote, Goto, Raises
  <1>13. CASE Recover
    BY <1>13 DEF Recover, Goto, Raises, PendingWork
  <1>14. CASE TransferDone
    BY <1>14 DEF TransferDone, Goto, Raises, NoScheduler
  <1>15. CASE Recheck
    BY <1>15 DEF Recheck, CheckSource, Goto, Raises
  <1>16. CASE Reconciling
    BY <1>16 DEF Reconciling, Wrote, Goto, Raises
  <1>17. CASE ReconcileDone
    BY <1>17 DEF ReconcileDone, Goto, Raises
  <1>18. CASE LastCheck
    BY <1>18 DEF LastCheck, CheckSource, Goto, Raises
  <1>19. CASE VerifyDestination
    BY <1>19 DEF VerifyDestination, DestinationMatches, Goto, Raises
  <1>20. CASE Complete
    BY <1>20 DEF Complete, Leave, NoScheduler, Raises
  <1>21. CASE Handle
    BY <1>21 DEF Handle, Leave, NoScheduler, MarksFailed
  <1>22. CASE UnlinkManifest
    BY <1>22 DEF UnlinkManifest
  <1>23. CASE UnlinkState
    BY <1>23 DEF UnlinkState, NoAttempts
  <1>24. CASE ResetDone
    BY <1>24 DEF ResetDone
  <1>25. CASE SchedulerStep
    BY <1>25, WorkStepTypes DEF SchedulerStep
  <1>26. CASE StartReset
    BY <1>26 DEF StartReset
  <1>27. CASE Fail
    BY <1>27 DEF Fail, Raises
  <1>28. CASE Stop
    BY <1>28 DEF Stop
  <1>29. CASE Crash
    BY <1>29 DEF Crash, Leave, NoScheduler
  <1>30. CASE SourceChanges
    BY <1>30 DEF SourceChanges
  <1>31. ASSUME NEW e \in Entries, ReconcileCopy(e) PROVE TypeOK'
    BY <1>31 DEF ReconcileCopy
  <1>32. CASE UNCHANGED vars
    BY <1>32 DEF vars
  <1>33. QED
    BY <1>1, <1>2, <1>3, <1>4, <1>5, <1>6, <1>7, <1>8, <1>9, <1>10, <1>11,
       <1>12, <1>13, <1>14, <1>15, <1>16, <1>17, <1>18, <1>19, <1>20, <1>21,
       <1>22, <1>23, <1>24, <1>25, <1>26, <1>27, <1>28, <1>29, <1>30, <1>31,
       <1>32 DEF Next, RunStep, ResetStep
(* The safety part of the inductive invariant, which does not repeat the    *)
(* types.                                                                  *)
Safe == Located /\ AttemptBudget /\ DigestsAgree /\ CompletedIsVerified
          /\ ReconcileAfterTransfer

LEMMA NextSafe ==
  ASSUME IndInv, [Next]_vars
  PROVE  Safe'
  <1> USE DEF IndInv, Safe, Located, Loaded, Working, AttemptBudget, DigestsAgree,
              CompletedIsVerified, ReconcileAfterTransfer, HasState, Open,
              transferVars, controlVars, disk, work, files
  <1>0. TypeOK
    OBVIOUS
  <1>1. ASSUME NEW retryFailed \in BOOLEAN, Start(retryFailed) PROVE Safe'
    BY <1>1 DEF Start
  <1>2. CASE Prerequisites
    BY <1>2 DEF Prerequisites, Goto, Raises
  <1>3. CASE FirstManifest
    BY <1>3, <1>0, SnapshotsAssumption DEF FirstManifest, Wrote, Goto, Raises,
       TypeOK
  <1>4. CASE RefuseMissingManifest
    BY <1>4 DEF RefuseMissingManifest, Raises
  <1>5. CASE LoadExisting
    BY <1>5 DEF LoadExisting, Goto, Raises
  <1>6. CASE InitializeState
    BY <1>6, MaxAttemptsAssumption, <1>0 DEF InitializeState, Wrote, Goto,
       Raises, NoAttempts, TypeOK, TransferTypeOK
  <1>7. CASE Check
    BY <1>7 DEF Check, CheckSource, Goto, Raises
  <1>8. CASE AlreadyCompleted
    BY <1>8 DEF AlreadyCompleted, Leave, NoScheduler
  <1>9. CASE RefuseFailed
    BY <1>9 DEF RefuseFailed, Raises
  <1>10. CASE Proceed
    BY <1>10 DEF Proceed, Goto
  <1>11. CASE Reopen
    BY <1>11, MaxAttemptsAssumption, <1>0 DEF Reopen, Wrote, Goto, Raises,
       ReopenedAttempts, TypeOK, TransferTypeOK
  <1>12. CASE Transferring
    BY <1>12 DEF Transferring, Wrote, Goto, Raises
  <1>13. CASE Recover
    BY <1>13, <1>0 DEF Recover, Goto, Raises, PendingWork, TypeOK,
       TransferTypeOK
  <1>14. CASE TransferDone
    BY <1>14, <1>0 DEF TransferDone, Goto, Raises, NoScheduler, TypeOK,
       TransferTypeOK
  <1>15. CASE Recheck
    BY <1>15 DEF Recheck, CheckSource, Goto, Raises
  <1>16. CASE Reconciling
    BY <1>16 DEF Reconciling, Wrote, Goto, Raises
  <1>17. CASE ReconcileDone
    BY <1>17, <1>0 DEF ReconcileDone, Goto, Raises, TypeOK, TransferTypeOK
  <1>18. CASE LastCheck
    BY <1>18 DEF LastCheck, CheckSource, Goto, Raises
  <1>19. CASE VerifyDestination
    BY <1>19, <1>0 DEF VerifyDestination, DestinationMatches, Goto, Raises,
       TypeOK, TransferTypeOK
  <1>20. CASE Complete
    BY <1>20, <1>0 DEF Complete, Leave, NoScheduler, Raises, TypeOK,
       TransferTypeOK
  <1>21. CASE Handle
    BY <1>21 DEF Handle, Leave, NoScheduler, MarksFailed
  <1>22. CASE UnlinkManifest
    BY <1>22 DEF UnlinkManifest
  <1>23. CASE UnlinkState
    BY <1>23, MaxAttemptsAssumption, <1>0 DEF UnlinkState, NoAttempts, TypeOK,
       TransferTypeOK
  <1>24. CASE ResetDone
    BY <1>24 DEF ResetDone
  <1>25. CASE SchedulerStep
    <2>1. TransferTypeOK /\ WorkStep /\ ctl = "transfer" /\ UNCHANGED controlVars
      BY <1>25 DEF SchedulerStep, TypeOK
    <2>2. AttemptBudget'
      BY <2>1, WorkStepBudget
    <2>3. /\ pending' = pending
          /\ completed \subseteq completed' /\ completed' \in SUBSET Entries
          /\ failed \subseteq failed' /\ failed' \in SUBSET Entries
      BY <2>1, WorkStepTypes DEF TransferTypeOK
    <2>4. outcome' = "true" => Open' = {} \/ stopping'
      BY <2>1, WorkStepTrue
    <2>5. Located'
      BY <2>1, <2>3, <2>4
    <2>6. QED
      BY <2>1, <2>2, <2>3, <2>5
  <1>26. CASE StartReset
    BY <1>26 DEF StartReset
  <1>27. CASE Fail
    BY <1>27 DEF Fail, Raises
  <1>28. CASE Stop
    BY <1>28 DEF Stop
  <1>29. CASE Crash
    BY <1>29 DEF Crash, Leave, NoScheduler
  <1>30. CASE SourceChanges
    BY <1>30 DEF SourceChanges
  <1>31. ASSUME NEW e \in Entries, ReconcileCopy(e) PROVE Safe'
    BY <1>31 DEF ReconcileCopy
  <1>32. CASE UNCHANGED vars
    BY <1>32 DEF vars
  <1>33. QED
    BY <1>1, <1>2, <1>3, <1>4, <1>5, <1>6, <1>7, <1>8, <1>9, <1>10, <1>11,
       <1>12, <1>13, <1>14, <1>15, <1>16, <1>17, <1>18, <1>19, <1>20, <1>21,
       <1>22, <1>23, <1>24, <1>25, <1>26, <1>27, <1>28, <1>29, <1>30, <1>31,
       <1>32 DEF Next, RunStep, ResetStep

LEMMA NextIndInv == IndInv /\ [Next]_vars => IndInv'
  BY NextTypeOK, NextSafe DEF IndInv, Safe

LEMMA IndInvHolds == Spec => []IndInv
  BY InitIndInv, NextIndInv, PTL DEF Spec

-----------------------------------------------------------------------------
(* The theorems. *)

(* Every variable keeps its type (controller.py, state.py:17-34).          *)
THEOREM TypeCorrect == Spec => []TypeOK
  <1>1. IndInv => TypeOK
    BY DEF IndInv
  <1>2. QED
    BY <1>1, IndInvHolds, PTL

(* No run ever pairs a state file with a manifest it does not belong to    *)
(* (controller.py:105-133).                                                *)
THEOREM FilesAgree == Spec => []DigestsAgree
  <1>1. IndInv => DigestsAgree
    BY DEF IndInv
  <1>2. QED
    BY <1>1, IndInvHolds, PTL

(* An import that says it is completed has every file in place             *)
(* (controller.py:303-331).                                                *)
THEOREM CompletionIsVerified == Spec => []CompletedIsVerified
  <1>1. IndInv => CompletedIsVerified
    BY DEF IndInv
  <1>2. QED
    BY <1>1, IndInvHolds, PTL

(* Reconciliation is never reached with work that is neither completed nor *)
(* failed, even when Scheduler.run returns TRUE during a stop              *)
(* (controller.py:282-294).                                                *)
THEOREM ReconciliationIsLast == Spec => []ReconcileAfterTransfer
  <1>1. IndInv => ReconcileAfterTransfer
    BY DEF IndInv
  <1>2. QED
    BY <1>1, IndInvHolds, PTL

(* Open work has attempts left and failed work has none, over all runs     *)
(* (scheduler.py:204-208, controller.py:227-238).                          *)
THEOREM BudgetKept == Spec => []AttemptBudget
  <1>1. IndInv => AttemptBudget
    BY DEF IndInv
  <1>2. QED
    BY <1>1, IndInvHolds, PTL

(* Only Recover calls the scheduler.                                       *)
LEMMA OnlyRecoverStarts ==
  ASSUME Next, outcome = "off", outcome' = "running"
  PROVE  Recover
  <1> USE DEF transferVars, work
  <1>1. ~SchedulerStep
    <2>1. \A e \in Entries : ~Copy(e)
      BY DEF Copy
    <2>2. \A S \in SUBSET Entries : ~Assign(S) /\ ~Settle(S) /\ ~ChargeAttempt(S)
      BY DEF Assign, Settle, ChargeAttempt
    <2>3. QED
      BY <2>1, <2>2 DEF SchedulerStep, WorkStep, ReturnTrue, ReturnFalse, Raise
  <1>2. /\ \A r \in BOOLEAN : ~Start(r)
        /\ \A e \in Entries : ~ReconcileCopy(e)
    BY DEF Start, ReconcileCopy
  <1>3. /\ ~Prerequisites /\ ~FirstManifest /\ ~RefuseMissingManifest
        /\ ~LoadExisting /\ ~InitializeState /\ ~Check /\ ~RefuseFailed
        /\ ~Proceed /\ ~Reopen /\ ~Transferring
    BY DEF Prerequisites, FirstManifest, RefuseMissingManifest, LoadExisting,
           InitializeState, Check, RefuseFailed, Proceed, Reopen, Transferring
  <1>4. /\ ~TransferDone /\ ~AlreadyCompleted /\ ~Complete /\ ~Handle /\ ~Crash
    BY DEF TransferDone, AlreadyCompleted, Complete, Handle, Crash, Leave, NoScheduler
  <1>5. /\ ~Recheck /\ ~Reconciling /\ ~ReconcileDone /\ ~LastCheck
        /\ ~VerifyDestination
    BY DEF Recheck, Reconciling, ReconcileDone, LastCheck, VerifyDestination
  <1>6. /\ ~UnlinkManifest /\ ~UnlinkState /\ ~ResetDone /\ ~StartReset /\ ~Fail
        /\ ~Stop /\ ~SourceChanges
    BY DEF UnlinkManifest, UnlinkState, ResetDone, StartReset, Fail, Stop, SourceChanges
  <1>7. QED
    BY <1>1, <1>2, <1>3, <1>4, <1>5, <1>6 DEF Next, RunStep, ResetStep

(* Scheduler.run is only called in a state that its specification starts   *)
(* from, with all the work that is left (controller.py:246-282).           *)
THEOREM SchedulerIsStartedRight == Spec => StartsScheduler
  <1> DEFINE Right == outcome = "off" /\ outcome' = "running" =>
                        /\ TransferInit'
                        /\ pending' = Entries \ (completed' \cup failed')
                        /\ pending' \cap current' = {}
  <1>1. ASSUME IndInv, IndInv', Next, outcome = "off", outcome' = "running"
        PROVE  /\ TransferInit'
               /\ pending' = Entries \ (completed' \cup failed')
               /\ pending' \cap current' = {}
    <2>1. Recover
      BY <1>1, OnlyRecoverStarts
    <2>2. /\ completed' = completed \cup (current \ failed) /\ failed' = failed
          /\ pending' = Entries \ (completed' \cup failed)
          /\ current' = current /\ copied' = {}
      BY <1>1, <2>1 DEF Recover, IndInv, Located, Raises, PendingWork
    <2>3. TransferTypeOK' /\ AttemptBudget'
      BY <1>1 DEF IndInv, TypeOK
    <2>4. current \subseteq Entries
      BY <1>1 DEF IndInv, TypeOK, TransferTypeOK
    <2>5. pending' \cap (completed' \cup failed') = {} /\ pending' \cap current' = {}
      BY <2>2, <2>4
    <2>6. \A e \in pending' : attempts'[e] < MaxAttempts
      BY <2>2, <2>3 DEF AttemptBudget
    <2>7. QED
      BY <1>1, <2>2, <2>3, <2>5, <2>6 DEF TransferInit
  <1>2. IndInv /\ IndInv' /\ [Next]_vars => [Right]_vars
    BY <1>1
  <1>3. QED
    BY <1>2, IndInvHolds, PTL DEF Spec, StartsScheduler, Right

(* No restart takes an import out of the failed phase by itself            *)
(* (controller.py:222-238).                                                *)
THEOREM FailureIsSticky == Spec => FailedIsSticky
  <1> DEFINE Sticky == phase = "failed" /\ phase' # "failed" => retry \/ ctl = "reset"
  <1>1. ASSUME IndInv, Next PROVE Sticky
    <2> SUFFICES ASSUME phase = "failed", phase' # "failed" PROVE retry \/ ctl = "reset"
      OBVIOUS
    <2> USE DEF files
    <2>1. /\ ~Prerequisites /\ ~FirstManifest /\ ~RefuseMissingManifest
          /\ ~LoadExisting /\ ~Check /\ ~AlreadyCompleted /\ ~RefuseFailed
          /\ ~Proceed /\ ~Recover /\ ~TransferDone /\ ~Recheck /\ ~ReconcileDone
          /\ ~LastCheck /\ ~VerifyDestination /\ ~Handle
      BY DEF Prerequisites, FirstManifest, RefuseMissingManifest, LoadExisting,
             Check, AlreadyCompleted, RefuseFailed, Proceed, Recover, TransferDone,
             Recheck, ReconcileDone, LastCheck, VerifyDestination, Handle
    <2>2. /\ ~SchedulerStep /\ ~StartReset /\ ~Fail /\ ~Stop /\ ~Crash /\ ~SourceChanges
          /\ \A r \in BOOLEAN : ~Start(r)
          /\ \A e \in Entries : ~ReconcileCopy(e)
      BY DEF SchedulerStep, controlVars, StartReset, Fail, Stop, Crash, SourceChanges,
             Start, ReconcileCopy
    <2>3. ~InitializeState /\ ~Transferring /\ ~Reconciling /\ ~Complete
      BY <1>1 DEF IndInv, Located, Working, InitializeState, Transferring,
                  Reconciling, Complete
    <2>4. Reopen \/ ResetStep
      BY <1>1, <2>1, <2>2, <2>3 DEF Next, RunStep
    <2>5. QED
      BY <2>4 DEF Reopen, ResetStep, UnlinkManifest, UnlinkState, ResetDone
  <1>2. IndInv /\ [Next]_vars => [Sticky]_vars
    BY <1>1
  <1>3. QED
    BY <1>2, IndInvHolds, PTL DEF Spec, FailedIsSticky, Sticky
=============================================================================
