------------------------ MODULE ProcessRunnerProofs ------------------------
(***************************************************************************)
(* Theorems about ProcessRunner, for any pool and any number of signals.   *)
(***************************************************************************)
EXTENDS ProcessRunner, SequenceTheorems, TLAPS

Frames == [at : HandlerSteps, processes : SUBSET Threads]

(* Whoever owns the lock is between taking it and giving it back, in run() *)
(* or in a handler, which another handler may have interrupted.            *)
OwnerIsBusy ==
  \A t \in Threads : lock = t =>
    \/ pc[t] \in {"adding", "discarding"}
    \/ \E i \in 1..Len(handlers) : handlers[i].at = "copy"

(* A handle is registered, and a child lives, only at these steps.         *)
ChildInRun ==
  \A t \in Threads :
    /\ t \in registered => pc[t] \in {"communicate", "grace", "unregister", "discarding"}
    /\ Alive(t) => pc[t] \in {"register", "adding", "communicate", "grace"}

RunnerInv == TypeOK /\ Len(handlers) <= signals /\ OwnerIsBusy /\ ChildInRun

-----------------------------------------------------------------------------
(* The stack of handlers. *)

LEMMA TopFrame ==
  ASSUME handlers \in Seq(Frames), handlers # <<>>
  PROVE  Len(handlers) \in Nat /\ Len(handlers) >= 1 /\ Top \in Frames
  BY DEF Top

LEMMA SetTopKeeps ==
  ASSUME handlers \in Seq(Frames), handlers # <<>>, NEW frame \in Frames, SetTop(frame)
  PROVE  /\ handlers' \in Seq(Frames) /\ Len(handlers') = Len(handlers)
         /\ handlers'[Len(handlers)] = frame
         /\ \A i \in 1..Len(handlers) : i # Len(handlers) => handlers'[i] = handlers[i]
  <1>1. Len(handlers) \in 1..Len(handlers)
    BY TopFrame
  <1>2. QED
    BY <1>1, ExceptSeq DEF SetTop

LEMMA PopKeeps ==
  ASSUME handlers \in Seq(Frames), handlers # <<>>,
         handlers' = SubSeq(handlers, 1, Len(handlers) - 1)
  PROVE  /\ handlers' \in Seq(Frames) /\ Len(handlers') = Len(handlers) - 1
         /\ \A i \in 1..Len(handlers) - 1 : handlers'[i] = handlers[i]
  <1> DEFINE n == Len(handlers) - 1
  <1>1. n \in Int /\ n >= 0 /\ Len(handlers) = n + 1
    BY TopFrame
  <1>2. \A i \in 1..n : handlers[i] \in Frames
    BY <1>1
  <1>3. handlers' = SubSeq(handlers, 1, n)
    OBVIOUS
  <1> HIDE DEF n
  <1>4. /\ handlers' \in Seq(Frames)
        /\ Len(handlers') = IF 1 <= n THEN n - 1 + 1 ELSE 0
        /\ \A i \in 1..n - 1 + 1 : handlers'[i] = handlers[1 + i - 1]
    BY <1>1, <1>2, <1>3, SubSeqProperties
  <1>5. Len(handlers') = n
    BY <1>1, <1>4
  <1>6. \A i \in 1..n : handlers'[i] = handlers[i]
    BY <1>1, <1>4
  <1>7. QED
    BY <1>4, <1>5, <1>6 DEF n

-----------------------------------------------------------------------------
LEMMA RunnerInit == Init => RunnerInv
  <1> SUFFICES ASSUME Init PROVE RunnerInv
    OBVIOUS
  <1>1. handlers \in Seq([at : HandlerSteps, processes : SUBSET Threads]) /\ Len(handlers) = 0
    BY EmptySeq DEF Init
  <1>2. TypeOK
    <2>1. pc \in [Threads -> ThreadSteps] /\ child \in [Threads -> {"none", "alive", "exited"}]
      BY DEF Init, ThreadSteps
    <2>2. Len(handlers) <= MaxSignals /\ signals \in 0..MaxSignals
      BY <1>1, MaxSignalsAssumption DEF Init
    <2>3. /\ stopping \in BOOLEAN /\ lock \in Threads \cup {Free}
          /\ registered \in SUBSET Threads /\ terminated \in SUBSET Threads
      BY DEF Init
    <2>4. QED
      BY <1>1, <2>1, <2>2, <2>3 DEF TypeOK
  <1>3. OwnerIsBusy /\ ChildInRun
    BY ThreadsAssumption DEF Init, OwnerIsBusy, ChildInRun, Alive, Threads
  <1>4. QED
    BY <1>1, <1>2, <1>3 DEF Init, RunnerInv

LEMMA RunKeepsInv ==
  ASSUME RunnerInv, NEW t \in Threads, Call(t) \/ RunStep(t) \/ ChildExits(t)
  PROVE  RunnerInv'
  <1> USE ThreadsAssumption DEF RunnerInv, Threads, ThreadSteps
  <1>0. Len(handlers') <= signals'
    BY DEF RunStep, Call, CheckStopping, Popen, Acquire, Register, Communicate, Discard, ChildExits
  <1>1. TypeOK'
    BY DEF TypeOK, RunStep, Call, CheckStopping, Popen, Acquire, Register, Communicate, Discard,
           ChildExits, Go
  <1>2. OwnerIsBusy'
    BY DEF TypeOK, OwnerIsBusy, RunStep, Call, CheckStopping, Popen, Acquire, Register, Communicate,
           Discard, ChildExits, At, Go
  <1>3. ChildInRun'
    BY DEF TypeOK, ChildInRun, Alive, RunStep, Call, CheckStopping, Popen, Acquire, Register,
           Communicate, Discard, ChildExits, At, Go
  <1>4. QED
    BY <1>0, <1>1, <1>2, <1>3

LEMMA TimeoutKeepsInv ==
  ASSUME RunnerInv, Timeout \/ Kill
  PROVE  RunnerInv'
  <1> USE ThreadsAssumption DEF RunnerInv, Threads, ThreadSteps, Timeout, Kill
  <1>0. Len(handlers') <= signals'
    OBVIOUS
  <1>1. TypeOK'
    BY DEF TypeOK, Go
  <1>2. OwnerIsBusy'
    BY DEF TypeOK, OwnerIsBusy, At, Go
  <1>3. ChildInRun'
    BY DEF TypeOK, ChildInRun, Alive, At, Go
  <1>4. QED
    BY <1>0, <1>1, <1>2, <1>3

(* A handler is entered, works on its own frame, and is left; the frames   *)
(* below it, among them one that may own the lock, stay as they are.       *)
LEMMA SignalKeepsInv ==
  ASSUME RunnerInv, Signal \/ HandlerStep
  PROVE  RunnerInv'
  <1> USE ThreadsAssumption, MaxSignalsAssumption DEF RunnerInv
  <1>0. /\ handlers \in Seq(Frames) /\ Len(handlers) <= signals /\ signals \in 0..MaxSignals
        /\ Len(handlers) \in Nat
    BY DEF TypeOK, Frames
  <1>1. CASE Signal
    <2>1. [at |-> "set", processes |-> {}] \in Frames
      BY DEF Frames, HandlerSteps
    <2>2. /\ handlers' \in Seq(Frames) /\ Len(handlers') = Len(handlers) + 1
          /\ \A i \in 1..Len(handlers) : handlers'[i] = handlers[i]
      BY <1>0, <1>1, <2>1, AppendProperties DEF Signal
    <2>3. Len(handlers') <= signals' /\ signals' \in 0..MaxSignals
      BY <1>0, <1>1, <2>2 DEF Signal
    <2>4. TypeOK'
      BY <1>0, <1>1, <2>2, <2>3 DEF Signal, TypeOK, Frames
    <2>5. OwnerIsBusy'
      BY <1>0, <1>1, <2>2 DEF Signal, OwnerIsBusy
    <2>6. ChildInRun'
      BY <1>1 DEF Signal, ChildInRun, Alive
    <2>7. QED
      BY <2>3, <2>4, <2>5, <2>6
  <1>2. CASE SetStopping
    <2>1. [at |-> "lock", processes |-> {}] \in Frames
      BY DEF Frames, HandlerSteps
    <2>2. /\ handlers' \in Seq(Frames) /\ Len(handlers') = Len(handlers)
          /\ \A i \in 1..Len(handlers) : i # Len(handlers) => handlers'[i] = handlers[i]
          /\ handlers[Len(handlers)].at = "set"
      BY <1>0, <1>2, <2>1, SetTopKeeps DEF SetStopping, HandlerAt, Top
    <2>3. TypeOK' /\ Len(handlers') <= signals'
      BY <1>0, <1>2, <2>2 DEF SetStopping, TypeOK, Frames
    <2>4. OwnerIsBusy'
      BY <1>0, <1>2, <2>2 DEF SetStopping, OwnerIsBusy
    <2>5. ChildInRun'
      BY <1>2 DEF SetStopping, ChildInRun, Alive
    <2>6. QED
      BY <2>3, <2>4, <2>5
  <1>3. CASE HandlerAcquire
    <2>1. [at |-> "copy", processes |-> {}] \in Frames
      BY DEF Frames, HandlerSteps
    <2>2. /\ handlers' \in Seq(Frames) /\ Len(handlers') = Len(handlers)
          /\ handlers'[Len(handlers)].at = "copy"
          /\ Len(handlers) \in 1..Len(handlers')
      BY <1>0, <1>3, <2>1, SetTopKeeps, TopFrame DEF HandlerAcquire, HandlerAt
    <2>3. TypeOK' /\ Len(handlers') <= signals'
      BY <1>0, <1>3, <2>2 DEF HandlerAcquire, TypeOK, Frames, Threads
    <2>4. OwnerIsBusy'
      BY <2>2 DEF OwnerIsBusy
    <2>5. ChildInRun'
      BY <1>3 DEF HandlerAcquire, ChildInRun, Alive
    <2>6. QED
      BY <2>3, <2>4, <2>5
  <1>4. CASE CopyProcesses
    <2>1. [at |-> "terminate", processes |-> registered] \in Frames
      BY DEF Frames, HandlerSteps, TypeOK
    <2>2. handlers' \in Seq(Frames) /\ Len(handlers') = Len(handlers)
      BY <1>0, <1>4, <2>1, SetTopKeeps DEF CopyProcesses, HandlerAt
    <2>3. TypeOK' /\ Len(handlers') <= signals'
      BY <1>0, <1>4, <2>2 DEF CopyProcesses, TypeOK, Frames
    <2>4. OwnerIsBusy'
      BY <1>4 DEF CopyProcesses, OwnerIsBusy, Threads
    <2>5. ChildInRun'
      BY <1>4 DEF CopyProcesses, ChildInRun, Alive
    <2>6. QED
      BY <2>3, <2>4, <2>5
  <1>5. CASE Terminate
    <2>1. /\ handlers' \in Seq(Frames) /\ Len(handlers') = Len(handlers) - 1
          /\ \A i \in 1..Len(handlers) - 1 : handlers'[i] = handlers[i]
          /\ handlers[Len(handlers)].at = "terminate"
      BY <1>0, <1>5, PopKeeps DEF Terminate, HandlerAt, Top
    <2>2. terminated' \in SUBSET Threads
      <3>1. Top.processes \in SUBSET Threads
        BY <1>0, <1>5, TopFrame DEF Terminate, HandlerAt, Frames
      <3>2. QED
        BY <1>5, <3>1 DEF Terminate, TerminateAlive, TypeOK
    <2>3. TypeOK' /\ Len(handlers') <= signals'
      BY <1>0, <1>5, <2>1, <2>2 DEF Terminate, TypeOK, Frames
    <2>4. OwnerIsBusy'
      <3> SUFFICES ASSUME NEW t \in Threads, lock' = t
                   PROVE  \/ pc'[t] \in {"adding", "discarding"}
                          \/ \E i \in 1..Len(handlers') : handlers'[i].at = "copy"
        BY DEF OwnerIsBusy
      <3>1. lock = t /\ pc' = pc
        BY <1>5 DEF Terminate
      <3>2. ASSUME NEW i \in 1..Len(handlers), handlers[i].at = "copy"
            PROVE  i \in 1..Len(handlers') /\ handlers'[i].at = "copy"
        <4>1. i # Len(handlers)
          BY <2>1, <3>2
        <4>2. i \in 1..Len(handlers) - 1
          BY <1>0, <4>1
        <4>3. QED
          BY <2>1, <3>2, <4>2
      <3>3. QED
        BY <3>1, <3>2 DEF OwnerIsBusy
    <2>5. ChildInRun'
      BY <1>5 DEF Terminate, ChildInRun, Alive
    <2>6. QED
      BY <2>3, <2>4, <2>5
  <1>6. QED
    BY <1>1, <1>2, <1>3, <1>4, <1>5 DEF HandlerStep

-----------------------------------------------------------------------------
(* The invariant that the theorems rest on: the type of the state, the     *)
(* owner of the lock at work, and children only inside of run()            *)
(* (process.py:20-59).                                                     *)
THEOREM RunnerInvariant == Spec => []RunnerInv
  <1>1. RunnerInv /\ UNCHANGED vars => RunnerInv'
    BY DEF RunnerInv, TypeOK, OwnerIsBusy, ChildInRun, Alive, vars
  <1>2. RunnerInv /\ [Next]_vars => RunnerInv'
    BY <1>1, RunKeepsInv, TimeoutKeepsInv, SignalKeepsInv DEF Next
  <1>3. QED
    BY RunnerInit, <1>2, PTL DEF Spec

(* The state of the runner keeps its type (process.py:11-14).              *)
THEOREM TypeCorrect == Spec => []TypeOK
  BY RunnerInvariant, PTL DEF RunnerInv

(* A thread that is not in run() has left no handle, no living child and   *)
(* no lock behind, whatever timeouts and signals came (process.py:36-51).  *)
THEOREM CleansUp == Spec => []NothingLeftBehind
  <1>1. RunnerInv => NothingLeftBehind
    <2> SUFFICES ASSUME RunnerInv, NEW t \in Threads, pc[t] = "idle"
                 PROVE  /\ t \notin registered /\ ~Alive(t)
                        /\ lock = t => HandlerAt("copy") \/ Len(handlers) > 1
      BY DEF NothingLeftBehind
    <2>1. t \notin registered /\ ~Alive(t)
      BY DEF RunnerInv, ChildInRun
    <2>2. ASSUME lock = t PROVE HandlerAt("copy") \/ Len(handlers) > 1
      <3>1. PICK i \in 1..Len(handlers) : handlers[i].at = "copy"
        BY <2>2 DEF RunnerInv, OwnerIsBusy
      <3>2. Len(handlers) \in Nat /\ handlers # <<>>
        BY <3>1 DEF RunnerInv, TypeOK
      <3>3. CASE i = Len(handlers)
        BY <3>1, <3>2, <3>3 DEF HandlerAt, Top
      <3>4. CASE i # Len(handlers)
        BY <3>2, <3>4
      <3>5. QED
        BY <3>3, <3>4
    <2>3. QED
      BY <2>1, <2>2
  <1>2. QED
    BY <1>1, RunnerInvariant, PTL
=============================================================================
