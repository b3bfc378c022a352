----------------------------- MODULE StateRecord -----------------------------
(***************************************************************************)
(* TransferState.from_record, record and validate (state.py): what is read *)
(* from state.json, also from one that version 1.0.0 has written, and what *)
(* is written back.                                                        *)
(*                                                                         *)
(* A record has the fields that the migration and the checks look at; a    *)
(* JSON value of a wrong type is the value Junk, a missing key is Unset.   *)
(* "progress" is the record of the keys that are there.  Version 1 has no  *)
(* last_transient_error.                                                   *)
(***************************************************************************)
EXTENDS Integers

CONSTANTS
  Records,         \* the contents of state.json that are tried
  Junk, Unset,     \* see above
  NoMessage        \* null

VARIABLES
  stored,          \* the record in state.json
  memory,          \* TransferState of the running process, Unset if none
  original         \* history: state.json before anything was written to it

recordVars == <<stored, memory, original>>

-----------------------------------------------------------------------------
LegalPhases == {"initialized", "transfer", "reconciliation", "completed", "failed"}

(* data.get(key, default).                                                 *)
Get(value, default) == IF value = Unset THEN default ELSE value

NoProgress ==
  [transferred_bytes |-> 0, total_bytes |-> 0, rate |-> 0, eta |-> NoMessage,
   active_workers |-> 0, total_workers |-> 0]

Progress(record) ==
  [key \in DOMAIN NoProgress |->
     IF key \in DOMAIN record.progress THEN record.progress[key] ELSE NoProgress[key]]

Terminal(record) == Get(record.failed, {}) # {} \/ record.phase = "failed"

(* Version 1 had one field for errors of both kinds.                       *)
DroppedError(record) ==      \* faulty variant: an old error is forgotten
  IF record.version = 1
  THEN [current |-> IF Terminal(record) THEN Get(record.last_error, NoMessage) ELSE NoMessage,
        transient |-> NoMessage]
  ELSE [current |-> Get(record.last_error, NoMessage),
        transient |-> Get(record.last_transient_error, NoMessage)]

MigratedError(record) ==
  LET old == Get(record.last_error, NoMessage)
  IN IF record.version # 1
     THEN [current |-> old, transient |-> Get(record.last_transient_error, NoMessage)]
     ELSE IF Terminal(record) THEN [current |-> old, transient |-> NoMessage]
     ELSE [current |-> NoMessage, transient |-> old]

(* from_record before it validates.                                        *)
FromRecord(record) ==
  [digest |-> record.digest,
   phase |-> record.phase,
   completed |-> Get(record.completed, {}),
   failed |-> Get(record.failed, {}),
   attempts |-> Get(record.attempts, 0),
   retry_count |-> Get(record.retry_count, 0),
   thresholds |-> Get(record.thresholds, {}),
   progress |-> Progress(record),
   last_error |-> MigratedError(record).current,
   last_transient_error |-> MigratedError(record).transient]

(* TransferState.validate, with the conversions that raise before it.      *)
Valid(state) ==
  /\ state.digest \notin {"", Unset}
  /\ state.phase \in LegalPhases
  /\ Junk \notin state.completed \cup state.failed
  /\ state.attempts # Junk /\ state.attempts >= 0
  /\ state.retry_count # Junk /\ state.retry_count >= 0
  /\ state.thresholds \subseteq {10 * n : n \in 1..10}
  /\ \A key \in DOMAIN NoProgress : state.progress[key] # Junk
  /\ state.progress.transferred_bytes >= 0 /\ state.progress.total_bytes >= 0
  /\ state.last_error # Junk /\ state.last_transient_error # Junk

Readable(record) == record.version \in {1, 2} /\ Valid(FromRecord(record))

(* record().                                                               *)
Recorded(state) ==
  [version |-> 2,
   digest |-> state.digest, phase |-> state.phase, completed |-> state.completed,
   failed |-> state.failed, attempts |-> state.attempts, retry_count |-> state.retry_count,
   thresholds |-> state.thresholds, progress |-> state.progress, last_error |-> state.last_error,
   last_transient_error |-> state.last_transient_error]

(* No value of the program is the mark for a missing one.                  *)
ASSUME UnsetAssumption ==
  /\ Unset # {} /\ Unset # 0 /\ Unset # NoMessage
  /\ Unset \notin Records
  /\ \A record \in Records : Recorded(FromRecord(record)) # Unset

-----------------------------------------------------------------------------
(* StateStore.load, by status too; a record that is refused stays as it is. *)
LoadState ==
  /\ memory = Unset /\ stored # Unset
  /\ Readable(stored)
  /\ memory' = FromRecord(stored)
  /\ UNCHANGED <<stored, original>>

(* save, at the end of mutate.                                             *)
SaveState ==
  /\ memory # Unset
  /\ Valid(memory)
  /\ stored' = Recorded(memory)
  /\ UNCHANGED <<memory, original>>

(* The process ends or dies, before it has saved or after.                 *)
ForgetState ==
  /\ memory # Unset
  /\ memory' = Unset
  /\ UNCHANGED <<stored, original>>

(* A state.json of an earlier process, of this version or of 1.0.0.        *)
PutState ==
  /\ stored = Unset
  /\ stored' \in Records
  /\ original' = stored'
  /\ UNCHANGED memory

RemoveState ==
  /\ memory = Unset /\ stored # Unset
  /\ stored' = Unset /\ original' = Unset
  /\ UNCHANGED memory

RecordInit == stored = Unset /\ original = Unset /\ memory = Unset

RecordNext == PutState \/ LoadState \/ SaveState \/ ForgetState \/ RemoveState

RecordSpec == RecordInit /\ [][RecordNext]_recordVars

-----------------------------------------------------------------------------
(* Properties *)

(* A state.json of version 1 is upgraded by the next write without losing  *)
(* anything, in any sequence of loads, writes and processes that die: its  *)
(* work, attempts, retries, thresholds and progress stay, and its one      *)
(* error is shown either as the current one, if the import had failed, or  *)
(* as history.  A record of version 2 comes back as it was.  What cannot   *)
(* be read is not overwritten (state.py:85-131, src/README.md:169-171).    *)
UpgradeLosesNothing ==
  LET old == original IN
  stored # Unset =>
    /\ ~Readable(old) => stored = old
    /\ Readable(old) =>
         LET now == FromRecord(stored) IN
         /\ Readable(stored)
         /\ \A field \in {"completed", "failed", "attempts", "retry_count", "thresholds"} :
              old[field] # Unset => now[field] = old[field]
         /\ \A key \in DOMAIN old.progress \cap DOMAIN NoProgress : now.progress[key] = old.progress[key]
         /\ old.version = 2 =>
              \A field \in {"last_error", "last_transient_error"} :
                old[field] # Unset => now[field] = old[field]
         /\ old.version = 1 /\ old.last_error \notin {Unset, NoMessage} =>
              \/ Terminal(old) /\ now.last_error = old.last_error
              \/ ~Terminal(old) /\ now.last_error = NoMessage /\ now.last_transient_error = old.last_error
=============================================================================
