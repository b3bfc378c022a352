---------------------------- MODULE MCComponents ----------------------------
(***************************************************************************)
(* Model checking of the components that are small by themselves.  They    *)
(* share no variable, so one run checks them side by side: `part' says     *)
(* which of them moves in a behaviour, and the others keep their initial   *)
(* state.  A state of one part is never multiplied with those of another.  *)
(***************************************************************************)
EXTENDS InstanceLock, StatusReport, ManifestScan, StateRecord, Progress, RollingRate, Balance, Pacing,
        StateDirectory

CONSTANTS
  s1, s2,              \* sources
  a, b, partial,       \* components of paths
  entry,               \* an entry of state.json
  message              \* an error

VARIABLE part

-----------------------------------------------------------------------------
(* Manifests: another time, fewer digits of a time, another size, a file   *)
(* more, an empty file, a reserved path and no file at all.                *)
MCTrees ==
  LET Tree(paths, size_, mtime_) == [p \in paths |-> [size |-> size_, mtime |-> mtime_]]
  IN {Tree({<<a>>}, 1, 17), Tree({<<a>>}, 1, 10), Tree({<<a>>}, 2, 17), Tree({<<a>>, <<b>>}, 1, 17),
      Tree({<<b>>}, 0, 175), Tree({<<a>>, <<b, partial>>}, 1, 17), <<>>}

(* state.json: every combination of legal and missing values, and one      *)
(* wrong value at a time in both versions.                                 *)
Measured ==
  [transferred_bytes |-> 1, total_bytes |-> 2, rate |-> 3, eta |-> 4, active_workers |-> 5, total_workers |-> 6]

LegalRecords ==
  {record \in
     [version : 1..2, digest : {"d"}, phase : {"transfer", "failed"},
      completed : {Unset, {entry}}, failed : {Unset, {entry}}, attempts : {Unset, 1},
      retry_count : {Unset, 2}, thresholds : {Unset, {10, 20}},
      progress : {<<>>, [transferred_bytes |-> 1], Measured},
      last_error : {Unset, NoMessage, message}, last_transient_error : {Unset, NoMessage, message}] :
   record.version = 1 => record.last_transient_error = Unset}

MCRecords ==
  LET Whole == [version |-> 2, digest |-> "d", phase |-> "transfer", completed |-> {entry},
                failed |-> {}, attempts |-> 1, retry_count |-> 2, thresholds |-> {10, 20},
                progress |-> Measured, last_error |-> NoMessage, last_transient_error |-> message]
      Spoilt(whole) ==
        {[whole EXCEPT !.version = 3], [whole EXCEPT !.digest = ""], [whole EXCEPT !.phase = "bogus"],
         [whole EXCEPT !.completed = {entry, Junk}], [whole EXCEPT !.failed = {Junk}],
         [whole EXCEPT !.thresholds = {15}], [whole EXCEPT !.last_error = Junk],
         [whole EXCEPT !.last_transient_error = Junk]}
          \cup {[whole EXCEPT !.attempts = v] : v \in {-1, Junk}}
          \cup {[whole EXCEPT !.retry_count = v] : v \in {-1, Junk}}
          \cup {[whole EXCEPT !.progress.transferred_bytes = v] : v \in {-1, Junk}}
          \cup {[whole EXCEPT !.progress.total_bytes = v] : v \in {-1, Junk}}
          \cup {[whole EXCEPT !.progress.eta = Junk]}
  IN LegalRecords \cup Spoilt(Whole) \cup Spoilt([Whole EXCEPT !.version = 1, !.last_transient_error = Unset])

(* Progress: files of one byte.                                            *)
MCSizeOf == [f \in Files |-> 1]

(* Configurations: two that are accepted with other timing, and one wrong  *)
(* value for each key.                                                     *)
Example ==
  [tables |-> "known", login |-> "plain", paths |-> "absolute", trees |-> "apart",
   partial |-> "component", workers |-> 2, attempts |-> 3,
   initial |-> 2, maximum |-> 4, stagger |-> 2, jitter |-> 1, poll |-> 3, window |-> 1, timeout |-> 1]

MCConfigFiles ==
  {Example, [Example EXCEPT !.stagger = 0, !.jitter = 2]}
    \cup {[Example EXCEPT ![key] = "wrong"] : key \in {"tables", "login", "paths", "trees", "partial"}}
    \cup {[Example EXCEPT ![key] = v] :
            key \in {"workers", "attempts", "initial", "maximum", "poll", "window", "timeout"}, v \in {NotANumber, 0}}
    \cup {[Example EXCEPT ![key] = v] : key \in {"stagger", "jitter"}, v \in {NotANumber, -1}}
    \cup {[Example EXCEPT !.workers = 257], [Example EXCEPT !.attempts = 101],
          [Example EXCEPT !.jitter = 3], [Example EXCEPT !.maximum = 1]}

-----------------------------------------------------------------------------
(* Type correctness of the parts (locking.py:12-66, cli.py:58-116,         *)
(* util.py:37-63).                                                         *)
TypesOK == TypeOK /\ StatusTypeOK /\ ProgressTypeOK

Parts == {"lock", "status", "manifest", "record", "progress", "rate", "balance", "pacing", "directory"}

MCInit ==
  /\ part \in Parts
  /\ Init /\ StatusInit /\ RecordInit /\ ProgressInit /\ RateInit
  /\ BalanceInit /\ PacingInit /\ DirectoryInit
  /\ ManifestInit /\ site = s1 /\ tree = <<>>

MCVars ==
  <<part, vars, statusVars, manifestVars, recordVars, progressVars, rateVars, balanceVars, pacingVars, directoryVars>>

MCNext ==
  \/ /\ part = "lock" /\ Next
     /\ UNCHANGED <<part, statusVars, manifestVars, recordVars, progressVars, rateVars, balanceVars, pacingVars, directoryVars>>
  \/ /\ part = "status" /\ StatusNext
     /\ UNCHANGED <<part, vars, manifestVars, recordVars, progressVars, rateVars, balanceVars, pacingVars, directoryVars>>
  \/ /\ part = "manifest" /\ ManifestNext
     /\ UNCHANGED <<part, vars, statusVars, recordVars, progressVars, rateVars, balanceVars, pacingVars, directoryVars>>
  \/ /\ part = "record" /\ RecordNext
     /\ UNCHANGED <<part, vars, statusVars, manifestVars, progressVars, rateVars, balanceVars, pacingVars, directoryVars>>
  \/ /\ part = "progress" /\ ProgressNext
     /\ UNCHANGED <<part, vars, statusVars, manifestVars, recordVars, rateVars, balanceVars, pacingVars, directoryVars>>
  \/ /\ part = "rate" /\ RateNext
     /\ UNCHANGED <<part, vars, statusVars, manifestVars, recordVars, progressVars, balanceVars, pacingVars, directoryVars>>
  \/ /\ part = "balance" /\ BalanceNext
     /\ UNCHANGED <<part, vars, statusVars, manifestVars, recordVars, progressVars, rateVars, pacingVars, directoryVars>>
  \/ /\ part = "directory" /\ DirectoryNext
     /\ UNCHANGED <<part, vars, statusVars, manifestVars, recordVars, progressVars, rateVars, balanceVars, pacingVars>>
  \/ /\ part = "pacing" /\ PacingNext
     /\ UNCHANGED <<part, vars, statusVars, manifestVars, recordVars, progressVars, rateVars, balanceVars, directoryVars>>

MCSpec == MCInit /\ [][MCNext]_MCVars
=============================================================================
