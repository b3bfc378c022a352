----------------------------- MODULE RollingRate -----------------------------
(***************************************************************************)
(* RollingRate (progress.py): the byte rate over a window of samples.      *)
(*                                                                         *)
(* A controller process has one RollingRate and adds a sample in every     *)
(* pass of the loop, at any distance in time.  The byte count falls when   *)
(* rsync throws partial data away.  Time and bytes are integers; a rate is *)
(* kept as the bytes and the seconds it is the quotient of.                *)
(***************************************************************************)
EXTENDS Integers, SequencesExt

CONSTANTS
  WindowSeconds,   \* window_seconds
  MaxBytes,        \* bytes of the manifest
  Gaps,            \* seconds between two samples
  MaxSamples       \* bound: samples of one process

(* The clock is monotonic.                                                 *)
ASSUME RateAssumption ==
  WindowSeconds \in Nat /\ MaxBytes \in Nat /\ Gaps \subseteq Nat

VARIABLES
  samples,         \* the deque, oldest first, of [at, bytes]
  everAdded,       \* history: every sample of the process, oldest first
  rate             \* what add returned, [bytes, seconds]

rateVars == <<samples, everAdded, rate>>

NoRate == [bytes |-> 0, seconds |-> 1]

RateInit ==
  /\ samples = <<>>
  /\ everAdded = <<>>
  /\ rate = NoRate

-----------------------------------------------------------------------------
(* A falling byte count starts a new window.                               *)
ClearedIfFallen(deque, count) ==
  IF deque # <<>> /\ count < Last(deque).bytes THEN <<>> ELSE deque

(* The popleft loop: what is older than the window is dropped, but for the *)
(* newest of it, and two samples are kept.                                 *)
TrimmedToWindow(deque, cutoff) ==      \* faulty variant: nothing older stays
  SelectSeq(deque, LAMBDA s : s.at >= cutoff)

Trimmed(deque, cutoff) ==
  LET dropped == {i \in 1..Len(deque) - 2 : deque[i + 1].at <= cutoff}
      first == CHOOSE i \in 0..Len(deque) : i \in dropped \cup {0} /\ \A j \in dropped : j <= i
  IN SubSeq(deque, first + 1, Len(deque))

RateOf(deque) ==
  LET oldest == Head(deque)
      newest == Last(deque)
  IN IF Len(deque) < 2 \/ newest.at <= oldest.at THEN NoRate
     ELSE [bytes |-> newest.bytes - oldest.bytes, seconds |-> newest.at - oldest.at]

(* RollingRate.add in _record_progress.                                    *)
AddSample(now, count) ==
  /\ Len(everAdded) < MaxSamples
  /\ samples' = Trimmed(Append(ClearedIfFallen(samples, count), [at |-> now, bytes |-> count]),
                        now - WindowSeconds)
  /\ everAdded' = Append(everAdded, [at |-> now, bytes |-> count])
  /\ rate' = RateOf(samples')

(* A new process has no samples.                                           *)
RestartRate ==
  /\ everAdded # <<>>
  /\ samples' = <<>>
  /\ everAdded' = <<>>
  /\ UNCHANGED rate      \* it stays in state.json

RateNext ==
  \/ \E gap \in Gaps, count \in 0..MaxBytes :
       AddSample((IF everAdded = <<>> THEN 0 ELSE Last(everAdded).at) + gap, count)
  \/ RestartRate

RateSpec == RateInit /\ [][RateNext]_rateVars

-----------------------------------------------------------------------------
(* Properties *)

(* Where the byte count fell, and where it fell last or began.             *)
Falls(added) == {i \in 2..Len(added) : added[i].bytes < added[i - 1].bytes}
LastFall(added) == CHOOSE i \in Falls(added) \cup {1} : \A j \in Falls(added) : j <= i

(* The sample the rate is measured from: the newest since the fall that is *)
(* at least a window old, or the first one as long as there is none.       *)
Old(added) ==
  {i \in LastFall(added)..Len(added) - 1 : added[i].at <= Last(added).at - WindowSeconds}
BaseIndex(added) == CHOOSE i \in Old(added) \cup {LastFall(added)} : \A j \in Old(added) : j <= i

RateBase == everAdded[BaseIndex(everAdded)]

(* The rate is that of the bytes which arrived since the sample at the     *)
(* start of the window, over any sequence of samples, long pauses and      *)
(* falling byte counts: it never spans a fall, never divides by zero, and  *)
(* reaches over more than a window only by the pause at its start          *)
(* (progress.py:29-42, src/README.md:212-216).                             *)
RateIsWindowed ==
  everAdded # <<>> =>
    LET newest == Last(everAdded)
    IN rate = IF newest.at = RateBase.at THEN NoRate
              ELSE [bytes |-> newest.bytes - RateBase.bytes, seconds |-> newest.at - RateBase.at]
=============================================================================
