---------------------------- MODULE InstanceLock ----------------------------
(***************************************************************************)
(* InstanceLock and lock_is_held (locking.py): the file lock that lets one *)
(* run, reset or verify work on the state directory, and the probe by      *)
(* which status asks whether anybody does.                                 *)
(*                                                                         *)
(* Both use flock on the same file, the owners exclusively, the probes     *)
(* shared, and neither waits.  The kernel gives a lock back when the file  *)
(* is closed, so also when the process dies.                               *)
(***************************************************************************)
EXTENDS FiniteSets

CONSTANTS
  Controllers,   \* processes of run, reset and verify
  Probes,        \* processes of status
  Nobody         \* the lock file does not exist or is empty

ASSUME ProcessesAssumption ==
  Controllers \cap Probes = {} /\ Nobody \notin Controllers \cup Probes

VARIABLES
  exclusive,     \* who holds LOCK_EX
  shared,        \* who holds LOCK_SH
  content,       \* the pid in the lock file
  created,       \* the lock file exists
  at,            \* process -> step
  answer         \* probe -> what lock_is_held found

vars == <<exclusive, shared, content, created, at, answer>>

Processes == Controllers \cup Probes

ControllerSteps == {"out", "open", "locked", "emptied", "in", "unlocked", "refused"}
ProbeSteps == {"out", "opened", "probing", "answered"}

TypeOK ==
  /\ exclusive \in SUBSET Controllers
  /\ shared \in SUBSET Probes
  /\ content \in Controllers \cup {Nobody}
  /\ created \in BOOLEAN
  /\ at \in [Processes -> ControllerSteps \cup ProbeSteps]
  /\ \A c \in Controllers : at[c] \in ControllerSteps
  /\ \A p \in Probes : at[p] \in ProbeSteps
  /\ answer \in [Probes -> {"none", "held", "free"}]

Go(p, step) == at' = [at EXCEPT ![p] = step]

(* flock(2) with LOCK_NB.                                                  *)
LocksFree == exclusive = {} /\ shared = {}
NoExclusive == exclusive = {}

-----------------------------------------------------------------------------
(* acquire and release *)

(* path.open("a+"): the file is created when it is missing and is not      *)
(* truncated.                                                              *)
OpenTruncating(c) ==      \* faulty variant: path.open("w+")
  /\ at[c] = "out"
  /\ created' = TRUE
  /\ content' = Nobody
  /\ Go(c, "open")
  /\ UNCHANGED <<exclusive, shared, answer>>

Open(c) ==
  /\ at[c] = "out"
  /\ created' = TRUE
  /\ Go(c, "open")
  /\ UNCHANGED <<exclusive, shared, content, answer>>

LockShared(c) ==      \* faulty variant: does not mind other holders
  /\ at[c] = "open"
  /\ exclusive' = exclusive \cup {c}
  /\ Go(c, "locked")
  /\ UNCHANGED <<shared, content, created, answer>>

Lock(c) ==
  /\ at[c] = "open"
  /\ LocksFree
  /\ exclusive' = exclusive \cup {c}
  /\ Go(c, "locked")
  /\ UNCHANGED <<shared, content, created, answer>>

(* BlockingIOError becomes LockError.                                      *)
Refuse(c) ==
  /\ at[c] = "open"
  /\ ~LocksFree
  /\ Go(c, "refused")
  /\ UNCHANGED <<exclusive, shared, content, created, answer>>

(* The pid replaces what the last owner wrote, in two steps.               *)
Truncate(c) ==
  /\ at[c] = "locked"
  /\ content' = Nobody
  /\ Go(c, "emptied")
  /\ UNCHANGED <<exclusive, shared, created, answer>>

WritePid(c) ==
  /\ at[c] = "emptied"
  /\ content' = c
  /\ Go(c, "in")
  /\ UNCHANGED <<exclusive, shared, created, answer>>

(* LOCK_UN and close; the pid stays in the file.                           *)
Release(c) ==
  /\ at[c] = "in"
  /\ exclusive' = exclusive \ {c}
  /\ Go(c, "unlocked")
  /\ UNCHANGED <<shared, content, created, answer>>

Leave(c) ==
  /\ at[c] \in {"unlocked", "refused"}
  /\ Go(c, "out")
  /\ UNCHANGED <<exclusive, shared, content, created, answer>>

-----------------------------------------------------------------------------
(* lock_is_held *)

OpenForProbe(p) ==
  /\ at[p] = "out"
  /\ \/ ~created /\ Go(p, "answered") /\ answer' = [answer EXCEPT ![p] = "free"]
     \/ created /\ Go(p, "opened") /\ UNCHANGED answer
  /\ UNCHANGED <<exclusive, shared, content, created>>

ProbeExclusive(p) ==      \* faulty variant: takes the lock it asks about
  /\ at[p] = "opened"
  /\ \/ /\ LocksFree
        /\ exclusive' = exclusive \cup {p}
        /\ answer' = [answer EXCEPT ![p] = "free"]
        /\ Go(p, "probing")
     \/ /\ ~LocksFree
        /\ answer' = [answer EXCEPT ![p] = "held"]
        /\ Go(p, "answered")
        /\ UNCHANGED exclusive
  /\ UNCHANGED <<shared, content, created>>

Probe(p) ==
  /\ at[p] = "opened"
  /\ \/ /\ NoExclusive
        /\ shared' = shared \cup {p}
        /\ answer' = [answer EXCEPT ![p] = "free"]
        /\ Go(p, "probing")
     \/ /\ ~NoExclusive
        /\ answer' = [answer EXCEPT ![p] = "held"]
        /\ Go(p, "answered")
        /\ UNCHANGED shared
  /\ UNCHANGED <<exclusive, content, created>>

LeakProbe(p) ==      \* faulty variant: the handle is not closed
  /\ at[p] = "probing"
  /\ Go(p, "answered")
  /\ UNCHANGED <<exclusive, shared, content, created, answer>>

Unprobe(p) ==
  /\ at[p] = "probing"
  /\ shared' = shared \ {p}
  /\ Go(p, "answered")
  /\ UNCHANGED <<exclusive, content, created, answer>>

LeaveProbe(p) ==
  /\ at[p] = "answered"
  /\ answer' = [answer EXCEPT ![p] = "none"]
  /\ Go(p, "out")
  /\ UNCHANGED <<exclusive, shared, content, created>>

-----------------------------------------------------------------------------
(* A process dies at any step and may be started again.                    *)
Die(p) ==
  /\ at[p] # "out"
  /\ exclusive' = exclusive \ {p}
  /\ shared' = shared \ {p}
  /\ answer' = [q \in Probes |-> IF q = p THEN "none" ELSE answer[q]]
  /\ Go(p, "out")
  /\ UNCHANGED <<content, created>>

Init ==
  /\ exclusive = {} /\ shared = {}
  /\ content = Nobody /\ created = FALSE
  /\ at = [p \in Processes |-> "out"]
  /\ answer = [p \in Probes |-> "none"]

ControllerStep(c) ==
  Open(c) \/ Lock(c) \/ Refuse(c) \/ Truncate(c) \/ WritePid(c) \/ Release(c) \/ Leave(c)

ProbeStep(p) == OpenForProbe(p) \/ Probe(p) \/ Unprobe(p) \/ LeaveProbe(p)

Next ==
  \/ \E c \in Controllers : ControllerStep(c)
  \/ \E p \in Probes : ProbeStep(p)
  \/ \E p \in Processes : Die(p)

Spec == Init /\ [][Next]_vars

-----------------------------------------------------------------------------
(* Properties *)

Inside(c) == at[c] \in {"locked", "emptied", "in"}

(* At most one run, reset or verify works on the state directory, and none *)
(* is in while a probe holds the file (locking.py:16-31 and 52-66).        *)
OneOwner ==
  /\ \A c, d \in Controllers : Inside(c) /\ Inside(d) => c = d
  /\ \A c \in Controllers, p \in Probes : Inside(c) => at[p] # "probing"

(* While an import runs the lock file names it, although others open the   *)
(* file and are refused (locking.py:18-30).                                *)
PidNamesOwner == \A c \in Controllers : at[c] = "in" => content = c

(* A probe that says the lock is held has seen a process that holds it; it *)
(* does not take another probe for a controller (locking.py:52-66).        *)
ProbeIsRight ==
  [][\A p \in Probes :
       answer'[p] = "held" /\ answer[p] # "held" =>
         \E c \in Controllers : Inside(c)]_vars

(* The lock does not outlive its users: when they have gone, or died, it   *)
(* can be taken (locking.py:33-37, 65-66).                                 *)
GivenBack ==
  \A p \in Processes : p \in exclusive \cup shared => at[p] \in {"locked", "emptied", "in", "probing"}

(* What the error message says: the lock is refused because another        *)
(* controller holds it (locking.py:23-25).                                 *)
RefusedByController ==
  [][\A c \in Controllers :
       at[c] = "open" /\ at'[c] = "refused" =>
         \E d \in Controllers : Inside(d)]_vars
=============================================================================
