--------------------------- MODULE ProcessRunner ---------------------------
(***************************************************************************)
(* SubprocessRunner (process.py): child processes that threads run and     *)
(* that a signal handler terminates.                                       *)
(*                                                                         *)
(* Python runs a signal handler on the main thread, between two of its     *)
(* steps; the thread goes on when the handler has returned, and a second   *)
(* signal interrupts the handler of the first.  `handlers' is that stack.  *)
(* The lock is a threading.Lock: its owner blocks on it like anyone else.  *)
(*                                                                         *)
(* Every thread has at most one child at a time, so children are named by  *)
(* their threads.                                                          *)
(***************************************************************************)
EXTENDS Integers, Sequences

CONSTANTS
  Workers,      \* the threads of the scheduler's pool
  Main,         \* the main thread
  Free,         \* the lock has no owner
  MaxSignals    \* bound: the signals that arrive during the life of the process

ASSUME ThreadsAssumption == Main \notin Workers /\ Free \notin Workers \cup {Main}
ASSUME MaxSignalsAssumption == MaxSignals \in Nat

Threads == Workers \cup {Main}

VARIABLES
  stopping,     \* _stopping
  lock,         \* owner of _lock
  registered,   \* _processes
  pc,           \* thread -> step of run(), "idle" outside of it
  child,        \* thread -> its child process
  terminated,   \* children that have been sent SIGTERM
  handlers,     \* the handlers running on the main thread, innermost last
  signals       \* how many signals have arrived

vars == <<stopping, lock, registered, pc, child, terminated, handlers, signals>>

ThreadSteps == {"idle", "check", "popen", "register", "adding", "communicate",
                "grace", "unregister", "discarding"}
HandlerSteps == {"set", "lock", "copy", "terminate"}

TypeOK ==
  /\ stopping \in BOOLEAN
  /\ lock \in Threads \cup {Free}
  /\ registered \in SUBSET Threads
  /\ pc \in [Threads -> ThreadSteps]
  /\ child \in [Threads -> {"none", "alive", "exited"}]
  /\ terminated \in SUBSET Threads
  /\ handlers \in Seq([at : HandlerSteps, processes : SUBSET Threads])
  /\ Len(handlers) <= MaxSignals
  /\ signals \in 0 .. MaxSignals

(* A thread steps unless it is the main thread inside of a handler.        *)
Runs(t) == t = Main => handlers = <<>>

At(t, step) == pc[t] = step /\ Runs(t)
Go(t, step) == pc' = [pc EXCEPT ![t] = step]

Top == handlers[Len(handlers)]
SetTop(frame) == handlers' = [handlers EXCEPT ![Len(handlers)] = frame]
Alive(t) == child[t] = "alive"

-----------------------------------------------------------------------------
(* SubprocessRunner.run *)

(* The main thread runs commands of its own only before and after the      *)
(* transfer phase, when the pool has no work.                              *)
Call(t) ==
  /\ At(t, "idle")
  /\ IF t = Main THEN \A w \in Workers : pc[w] = "idle" ELSE pc[Main] = "idle"
  /\ Go(t, "check")
  /\ UNCHANGED <<stopping, lock, registered, child, terminated, handlers, signals>>

(* Once the runner is stopping the answer is 143 and nothing is started.   *)
IgnoreStop(t) ==      \* faulty variant: starts children while it is stopping
  /\ At(t, "check")
  /\ Go(t, "popen")
  /\ UNCHANGED <<stopping, lock, registered, child, terminated, handlers, signals>>

CheckStopping(t) ==
  /\ At(t, "check")
  /\ \/ stopping /\ Go(t, "idle")
     \/ ~stopping /\ Go(t, "popen")
  /\ UNCHANGED <<stopping, lock, registered, child, terminated, handlers, signals>>

(* subprocess.Popen, which may raise OSError.                              *)
KeepHandle(t) ==      \* faulty variant: a failed start leaves a handle
  /\ At(t, "popen")
  /\ \/ child' = [child EXCEPT ![t] = "alive"] /\ Go(t, "register")
     \/ child' = [child EXCEPT ![t] = "failed"] /\ Go(t, "idle")
  /\ UNCHANGED <<stopping, lock, registered, terminated, handlers, signals>>

Popen(t) ==
  /\ At(t, "popen")
  /\ \/ child' = [child EXCEPT ![t] = "alive"] /\ Go(t, "register")
     \/ UNCHANGED child /\ Go(t, "idle")
  /\ UNCHANGED <<stopping, lock, registered, terminated, handlers, signals>>

(* with self._lock: on the way in.                                         *)
Acquire(t) ==
  /\ lock = Free
  /\ lock' = t
  /\ \/ At(t, "register") /\ Go(t, "adding")
     \/ At(t, "unregister") /\ Go(t, "discarding")
  /\ UNCHANGED <<stopping, registered, child, terminated, handlers, signals>>

Register(t) ==
  /\ At(t, "adding")
  /\ registered' = registered \cup {t}
  /\ lock' = Free
  /\ Go(t, "communicate")
  /\ UNCHANGED <<stopping, child, terminated, handlers, signals>>

(* communicate returns when the child has exited.                          *)
Communicate(t) ==
  /\ At(t, "communicate") \/ At(t, "grace")
  /\ child[t] = "exited"
  /\ Go(t, "unregister")
  /\ UNCHANGED <<stopping, lock, registered, child, terminated, handlers, signals>>

(* A command with a timeout is terminated, and killed when it has not      *)
(* ended within the time it is given.  Only the main thread passes one.    *)
Timeout ==
  /\ At(Main, "communicate")
  /\ Alive(Main)
  /\ terminated' = terminated \cup {Main}
  /\ Go(Main, "grace")
  /\ UNCHANGED <<stopping, lock, registered, child, handlers, signals>>

Kill ==
  /\ At(Main, "grace")
  /\ Alive(Main)
  /\ child' = [child EXCEPT ![Main] = "exited"]
  /\ Go(Main, "unregister")
  /\ UNCHANGED <<stopping, lock, registered, terminated, handlers, signals>>

(* The finally clause; run returns.                                        *)
ForgetDiscard(t) ==      \* faulty variant: the handle stays in _processes
  /\ At(t, "discarding")
  /\ lock' = Free
  /\ child' = [child EXCEPT ![t] = "none"]
  /\ terminated' = terminated \ {t}
  /\ Go(t, "idle")
  /\ UNCHANGED <<stopping, registered, handlers, signals>>

Discard(t) ==
  /\ At(t, "discarding")
  /\ registered' = registered \ {t}
  /\ lock' = Free
  /\ child' = [child EXCEPT ![t] = "none"]
  /\ terminated' = terminated \ {t}
  /\ Go(t, "idle")
  /\ UNCHANGED <<stopping, handlers, signals>>

-----------------------------------------------------------------------------
(* The signal handler: Controller.stop, terminate_all *)

Signal ==
  /\ signals < MaxSignals
  /\ signals' = signals + 1
  /\ handlers' = Append(handlers, [at |-> "set", processes |-> {}])
  /\ UNCHANGED <<stopping, lock, registered, pc, child, terminated>>

HandlerAt(step) == handlers # <<>> /\ Top.at = step

SetStopping ==
  /\ HandlerAt("set")
  /\ stopping' = TRUE
  /\ SetTop([at |-> "lock", processes |-> {}])
  /\ UNCHANGED <<lock, registered, pc, child, terminated, signals>>

HandlerAcquire ==
  /\ HandlerAt("lock")
  /\ lock = Free
  /\ lock' = Main
  /\ SetTop([at |-> "copy", processes |-> {}])
  /\ UNCHANGED <<stopping, registered, pc, child, terminated, signals>>

CopyProcesses ==
  /\ HandlerAt("copy")
  /\ lock' = Free
  /\ SetTop([at |-> "terminate", processes |-> registered])
  /\ UNCHANGED <<stopping, registered, pc, child, terminated, signals>>

(* The live ones among the copied handles are terminated.                  *)
TerminateOne ==      \* faulty variant: returns after the first
  \/ {t \in Top.processes : Alive(t)} = {} /\ UNCHANGED terminated
  \/ \E t \in Top.processes : Alive(t) /\ terminated' = terminated \cup {t}

TerminateAlive == terminated' = terminated \cup {t \in Top.processes : Alive(t)}

Terminate ==
  /\ HandlerAt("terminate")
  /\ TerminateAlive
  /\ handlers' = SubSeq(handlers, 1, Len(handlers) - 1)
  /\ UNCHANGED <<stopping, lock, registered, pc, child, signals>>

-----------------------------------------------------------------------------
(* A child ends, by itself or because it was told to.                      *)
ChildExits(t) ==
  /\ Alive(t)
  /\ child' = [child EXCEPT ![t] = "exited"]
  /\ UNCHANGED <<stopping, lock, registered, pc, terminated, handlers, signals>>

Init ==
  /\ stopping = FALSE
  /\ lock = Free
  /\ registered = {}
  /\ pc = [t \in Threads |-> "idle"]
  /\ child = [t \in Threads |-> "none"]
  /\ terminated = {}
  /\ handlers = <<>>
  /\ signals = 0

RunStep(t) ==
  CheckStopping(t) \/ Popen(t) \/ Acquire(t) \/ Register(t) \/ Communicate(t) \/ Discard(t)

HandlerStep == SetStopping \/ HandlerAcquire \/ CopyProcesses \/ Terminate

Next ==
  \/ \E t \in Threads : Call(t) \/ RunStep(t) \/ ChildExits(t)
  \/ Timeout \/ Kill
  \/ Signal \/ HandlerStep

Spec == Init /\ [][Next]_vars

(* Threads and handlers are scheduled; a child that was told to terminate  *)
(* does, others need not.                                                  *)
Fairness ==
  /\ \A t \in Threads : SF_vars(Acquire(t)) /\ WF_vars(RunStep(t))
  /\ \A t \in Threads : WF_vars(t \in terminated /\ ChildExits(t))
  /\ SF_vars(HandlerAcquire)
  /\ WF_vars(HandlerStep)

FairSpec == Spec /\ Fairness

-----------------------------------------------------------------------------
(* Properties *)

(* A thread that is not in run() has left nothing behind: no handle in     *)
(* _processes, no running child and no lock (process.py:36-51).            *)
NothingLeftBehind ==
  \A t \in Threads :
    pc[t] = "idle" => /\ t \notin registered
                      /\ ~Alive(t)
                      /\ lock = t => HandlerAt("copy") \/ Len(handlers) > 1

(* The main thread waits for a lock that it owns itself.                   *)
SelfDeadlock == HandlerAt("lock") /\ lock = Main

(* A child that is registered when a signal arrives is told to terminate   *)
(* or ends, whatever the other threads do with the lock meanwhile, unless  *)
(* the main thread blocks itself (process.py:53-59).                       *)
RegisteredAreReached ==
  \A t \in Threads :
    HandlerAt("set") /\ t \in registered /\ Alive(t)
      ~> t \in terminated \/ ~Alive(t) \/ SelfDeadlock

(* After a stop the threads soon start no more children, although work     *)
(* may be handed to them on and on (process.py:27-28).                     *)
StartsNoMore ==
  <>[][stopping => \A t \in Threads : Alive(t)' => Alive(t)]_vars

(* What the README says of a stop: it terminates the active rsync children *)
(* (src/README.md:262-264), so that no live child is overlooked when the   *)
(* handler has returned.                                                   *)
StopReachesEveryChild ==
  stopping /\ handlers = <<>> =>
    \A t \in Threads : Alive(t) => t \in terminated

(* What SubprocessRunner says of itself: graceful cancellation             *)
(* (process.py:9).  A stop does not block the process that it is to end.   *)
CancellationIsGraceful == ~SelfDeadlock
=============================================================================
