------------------------- MODULE MCControllerLive ---------------------------
(***************************************************************************)
(* Liveness of Controller.  The variable `calm' becomes TRUE at an          *)
(* arbitrary moment; from then on nothing goes wrong any more and the      *)
(* controller is started again whenever it has ended, as systemd does.     *)
(***************************************************************************)
EXTENDS Controller

VARIABLE calm

(* A step that raises an exception which is neither terminal nor forced by *)
(* what happened before the calm.                                          *)
Mishap ==
  \/ err = "none" /\ err' = "other"
     /\ ~(stopping \/ outcome = "raised" \/ (manifest = NoFile /\ digest # NoFile))
  \/ outcome = "running" /\ outcome' = "raised"
  \/ Handle /\ MarksFailed /\ phase' # "failed"

ControllerStep == (RunStep \/ ResetStep) /\ ~Mishap
Progress == SchedulerStep /\ ~Mishap /\ \E S \in SUBSET Entries : Settle(S) \/ ChargeAttempt(S)
Return == SchedulerStep /\ (ReturnTrue \/ ReturnFalse)
CopyAll == \E e \in Entries \ copied : ReconcileCopy(e)

Quiet ==
  \/ Start(FALSE)
  \/ ControllerStep
  \/ SchedulerStep /\ ~Mishap
  \/ CopyAll

CalmInit == Init /\ calm = FALSE

CalmNext ==
  \/ ~calm /\ Next /\ UNCHANGED calm
  \/ ~calm /\ calm' = TRUE /\ UNCHANGED vars
  \/ calm /\ Quiet /\ UNCHANGED calm

calmVars == <<vars, calm>>
Calmly(A) == calm /\ A /\ UNCHANGED calm

(* A new process is started, a process takes its next step, the scheduler  *)
(* records results (Scheduler terminates) and rsync gets on with the tree. *)
CalmSpec ==
  /\ CalmInit
  /\ [][CalmNext]_calmVars
  /\ WF_calmVars(Calmly(Start(FALSE)))
  /\ WF_calmVars(Calmly(ControllerStep))
  /\ WF_calmVars(Calmly(Progress))
  /\ WF_calmVars(Calmly(Return))
  /\ WF_calmVars(Calmly(CopyAll))

(* Whatever has happened before -- crashes between any two writes, stops,  *)
(* failed writes, a reset cut short -- once it is over, plain restarts     *)
(* bring the import to its end: it is completed, it has failed and waits   *)
(* for an operator, or its manifest is gone and run refuses to make a new  *)
(* one (controller.py:102-143, 332-342; src/README.md:181-183).            *)
ResumesToTheEnd ==
  calm ~> HasState /\ (phase \in {"completed", "failed"} \/ manifest = NoFile)
=============================================================================
