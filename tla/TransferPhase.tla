--------------------------- MODULE TransferPhase ---------------------------
(***************************************************************************)
(* What Scheduler.run promises to Controller.run, with the event loop, the *)
(* worker pool and the retry clock left out.                               *)
(*                                                                         *)
(* One transfer phase works on the set `pending' of manifest entries.  It  *)
(* moves entries from open to completed or failed in state.json and ends   *)
(* by returning TRUE or FALSE or by raising.  The module Scheduler         *)
(* implements it; the module Controller is built on it.                    *)
(***************************************************************************)
EXTENDS Integers, FiniteSets

CONSTANTS
  Entries,       \* the entries of the manifest
  MaxAttempts    \* transfer.max_attempts

ASSUME EntriesAssumption == IsFiniteSet(Entries)
ASSUME MaxAttemptsAssumption == MaxAttempts \in Nat \ {0}

VARIABLES
  completed,     \* state.json: "completed"
  failed,        \* state.json: the keys of "failed"
  attempts,      \* state.json: "attempts"; an absent key is 0
  current,       \* entries whose destination file has the manifested size and mtime
  pending,       \* the entries handed to this transfer phase
  copied,        \* entries that the rsync process now working on them has brought up to date
  stopping,      \* SubprocessRunner.stopping
  outcome        \* how the phase stands: see Outcomes

transferVars ==
  <<completed, failed, attempts, current, pending, copied, stopping, outcome>>

disk == <<completed, failed, attempts>>

Outcomes == {"off", "running", "true", "false", "raised"}

(* Work that has neither been recorded as completed nor exhausted its      *)
(* attempts.                                                               *)
Open == pending \ (completed \cup failed)

TransferTypeOK ==
  /\ completed \in SUBSET Entries
  /\ failed \in SUBSET Entries
  /\ attempts \in [Entries -> Nat]
  /\ current \in SUBSET Entries
  /\ pending \in SUBSET Entries
  /\ copied \in SUBSET Entries
  /\ stopping \in BOOLEAN
  /\ outcome \in Outcomes

-----------------------------------------------------------------------------

(* An rsync process brings e up to date with the source.  When the source  *)
(* has moved on since the manifest was taken, the copy no longer matches   *)
(* the manifest.                                                           *)
Copy(e) ==
  /\ outcome = "running"
  /\ e \in Open
  /\ copied' = copied \cup {e}
  /\ \/ current' = current \cup {e}
     \/ current' = current \ {e}
  /\ UNCHANGED <<disk, pending, stopping, outcome>>

(* A new rsync process takes over S and looks at every file again.         *)
Assign(S) ==
  /\ outcome = "running"
  /\ S \subseteq Open
  /\ copied' = copied \ S
  /\ UNCHANGED <<disk, current, pending, stopping, outcome>>

(* Entries are recorded as completed: the rsync they were assigned to has  *)
(* exited with status 0, or it has failed after the destination file       *)
(* already matched the manifest.                                           *)
Settle(S) ==
  /\ outcome = "running"
  /\ S # {} /\ S \subseteq Open
  /\ S \subseteq copied \cup current
  /\ completed' = completed \cup S
  /\ UNCHANGED <<failed, attempts, current, pending, copied, stopping, outcome>>

(* One failed attempt is charged to every entry of S; those that reach the *)
(* limit become failed in the same write.                                  *)
ChargeAttempt(S) ==
  /\ outcome = "running"
  /\ S # {} /\ S \subseteq Open
  /\ attempts' = [e \in Entries |-> IF e \in S THEN attempts[e] + 1 ELSE attempts[e]]
  /\ failed' = failed \cup {e \in S : attempts[e] + 1 >= MaxAttempts}
  /\ UNCHANGED <<completed, current, pending, copied, stopping, outcome>>

(* TRUE is returned only when no entry of this phase exhausted its         *)
(* attempts and nothing is left open -- unless a stop was requested: then  *)
(* TRUE does not mean that the work is done.                               *)
ReturnTrue ==
  /\ outcome = "running"
  /\ pending \cap failed = {}
  /\ Open = {} \/ stopping
  /\ outcome' = "true"
  /\ UNCHANGED <<disk, current, pending, copied, stopping>>

ReturnFalse ==
  /\ outcome = "running"
  /\ pending \cap failed # {} \/ stopping
  /\ Open = {} \/ stopping
  /\ outcome' = "false"
  /\ UNCHANGED <<disk, current, pending, copied, stopping>>

(* The progress monitor or a write of state.json raised; no further result *)
(* is recorded.                                                            *)
Raise ==
  /\ outcome = "running"
  /\ outcome' = "raised"
  /\ UNCHANGED <<disk, current, pending, copied, stopping>>

(* SIGTERM or SIGINT.                                                      *)
RequestStop ==
  /\ outcome = "running"
  /\ ~stopping
  /\ stopping' = TRUE
  /\ UNCHANGED <<disk, current, pending, copied, outcome>>

WorkStep ==
  \/ \E e \in Entries : Copy(e)
  \/ \E S \in SUBSET Entries : Assign(S) \/ Settle(S) \/ ChargeAttempt(S)
  \/ ReturnTrue
  \/ ReturnFalse
  \/ Raise

TransferNext == WorkStep \/ RequestStop

(* A phase starts with work that is neither completed nor failed and that  *)
(* still has attempts left.  A stop may have been requested already.       *)
TransferInit ==
  /\ TransferTypeOK
  /\ outcome = "running"
  /\ pending \cap (completed \cup failed) = {}
  /\ \A e \in pending : attempts[e] < MaxAttempts
  /\ copied = {}

TransferSpec == TransferInit /\ [][TransferNext]_transferVars
=============================================================================
