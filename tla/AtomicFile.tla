------------------------------ MODULE AtomicFile ------------------------------
(***************************************************************************)
(* atomic_write_bytes (util.py): the steps by which state.json and         *)
(* manifest.json are replaced, with an error after any of them, a writer   *)
(* that is killed, and a host that goes down and loses what was not synced.*)
(* The writers exclude each other (the RLock of StateStore, the import     *)
(* lock), so one call is under way at a time.                              *)
(*                                                                         *)
(* Of the file system it is assumed that rename is atomic, that an fsync   *)
(* of the file makes its contents and one of the directory makes its       *)
(* names durable, and that the state directory itself is durable.          *)
(***************************************************************************)
CONSTANTS
  Values,      \* whole contents
  Missing,     \* there is no file
  Torn,        \* contents that were cut short
  Nothing      \* no call is under way

ASSUME ContentsAssumption ==
  /\ Missing \notin Values
  /\ Torn \notin Values \cup {Missing}
  /\ Nothing \notin Values \cup {Missing, Torn}

VARIABLES
  path,        \* what a program finds under the name of the file
  onDisk,      \* what may be found there after the host has gone down
  temp,        \* the temporary file of the call
  writing,     \* the data of the call
  step,        \* how far the call is
  litter       \* temporary files of dead writers lie in the directory

fileVars == <<path, onDisk, temp, writing, step, litter>>

CallSteps == {"made", "written", "synced", "replaced", "failed"}

FileTypeOK ==
  /\ path \in Values \cup {Missing, Torn}
  /\ onDisk \in SUBSET (Values \cup {Missing, Torn})
  /\ temp \in {"none", "partial", "whole", "safe"}
  /\ writing \in Values \cup {Nothing}
  /\ step \in CallSteps \cup {"idle", "returned", "raised"}
  /\ litter \in BOOLEAN

FileInit ==
  /\ path \in Values \cup {Missing}
  /\ onDisk = {path}
  /\ temp = "none"
  /\ writing = Nothing
  /\ step = "idle"
  /\ litter = FALSE

-----------------------------------------------------------------------------
(* The call *)

(* mkdir and mkstemp; an error here leaves nothing behind.                 *)
BeginWrite(v) ==
  /\ step = "idle"
  /\ \/ writing' = v /\ temp' = "partial" /\ step' = "made"
     \/ step' = "raised" /\ UNCHANGED <<writing, temp>>
  /\ UNCHANGED <<path, onDisk, litter>>

(* fchmod, write and flush.                                                *)
WriteTemp ==
  /\ step = "made"
  /\ temp' = "whole"
  /\ step' = "written"
  /\ UNCHANGED <<path, onDisk, writing, litter>>

SkipSync ==      \* faulty variant: no fsync of the file
  /\ step = "written"
  /\ step' = "synced"
  /\ UNCHANGED <<path, onDisk, temp, writing, litter>>

SyncTemp ==
  /\ step = "written"
  /\ temp' = "safe"
  /\ step' = "synced"
  /\ UNCHANGED <<path, onDisk, writing, litter>>

(* What a file replaced by the temporary one may hold after the host has   *)
(* gone down.                                                              *)
AfterReplace == onDisk \cup {writing} \cup (IF temp = "safe" THEN {} ELSE {Torn})

ReplaceFile ==
  /\ step = "synced"
  /\ path' = writing
  /\ onDisk' = AfterReplace
  /\ temp' = "none"
  /\ step' = "replaced"
  /\ UNCHANGED <<writing, litter>>

SyncDirectory ==
  /\ step = "replaced"
  /\ onDisk' = {path}
  /\ step' = "returned"
  /\ writing' = Nothing
  /\ UNCHANGED <<path, temp, litter>>

(* Any step raises.  The handler closes the descriptor once more, which is *)
(* left out here.                                                          *)
StepFails ==
  /\ step \in CallSteps \ {"failed"}
  /\ step' = "failed"
  /\ UNCHANGED <<path, onDisk, temp, writing, litter>>

(* The handler removes the temporary file, if it can and if it is there.   *)
CleanUp ==
  /\ step = "failed"
  /\ \/ UNCHANGED litter
     \/ temp # "none" /\ litter' = TRUE
  /\ temp' = "none"
  /\ writing' = Nothing
  /\ step' = "raised"
  /\ UNCHANGED <<path, onDisk>>

(* The caller goes on.                                                     *)
CallOver ==
  /\ step \in {"returned", "raised"}
  /\ step' = "idle"
  /\ UNCHANGED <<path, onDisk, temp, writing, litter>>

CallStep == WriteTemp \/ SyncTemp \/ ReplaceFile \/ SyncDirectory \/ StepFails \/ CleanUp

-----------------------------------------------------------------------------
(* Around it *)

NoCall ==
  /\ step' = "idle"
  /\ writing' = Nothing
  /\ temp' = "none"
  /\ litter' = (litter \/ temp # "none")

KillWriter ==
  /\ NoCall
  /\ UNCHANGED <<path, onDisk>>

(* The system writes the directory back without being told to.             *)
WriteBack ==
  /\ onDisk' = {path}
  /\ UNCHANGED <<path, temp, writing, step, litter>>

HostGoesDown ==
  /\ path' \in onDisk
  /\ onDisk' = {path'}
  /\ NoCall

(* reset_state unlinks everything in the directory and syncs nothing.      *)
UnlinkFile ==
  /\ step = "idle"
  /\ path' = Missing
  /\ onDisk' = onDisk \cup {Missing}
  /\ litter' = FALSE
  /\ UNCHANGED <<temp, writing, step>>

FileNext ==
  \/ \E v \in Values : BeginWrite(v)
  \/ CallStep \/ CallOver
  \/ KillWriter \/ WriteBack \/ HostGoesDown \/ UnlinkFile

FileSpec == FileInit /\ [][FileNext]_fileVars

-----------------------------------------------------------------------------
(* Properties *)

Durable == INSTANCE DurableFile WITH
  visible <- path, survivors <- onDisk, asked <- writing

(* A reader finds a whole value, the old or the new one; a write that has  *)
(* returned survives the host, one that raised has happened or not, and    *)
(* nothing older than the last confirmed write comes back                  *)
(* (util.py:37-63, src/README.md:164-165).                                 *)
AtomicRegister == Durable!Spec
=============================================================================
