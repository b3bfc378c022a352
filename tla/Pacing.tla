-------------------------------- MODULE Pacing --------------------------------
(***************************************************************************)
(* The clock of Scheduler.run (scheduler.py): due times, the backoff with  *)
(* jitter, the stagger between starts and the length of the sleep.  What   *)
(* Scheduler leaves open (a waiting batch is due or not) is decided here;  *)
(* what it decides (entries, records, errors) is left out.                 *)
(*                                                                         *)
(* A pass reads the clock several times and takes time: the monitor looks  *)
(* at every destination file.  A tick is the quarter of a second the loop  *)
(* sleeps when a batch has ended.  A batch starts at the reading of the    *)
(* clock at the head of the pass, which is what next_start_at counts from; *)
(* the pool starts its process a little later.                             *)
(***************************************************************************)
EXTENDS Configuration, FiniteSetsExt

CONSTANTS
  Batches,         \* worker ids of balance_entries
  PassTime,        \* bound: ticks a pass takes at most
  Horizon,         \* bound: the last tick
  Unread           \* no configuration is read yet

(* balance_entries makes at most as many batches as there are workers.     *)
ASSUME BatchesAssumption ==
  /\ IsFiniteSet(Batches)
  /\ \A file \in ConfigFiles : Accepts(file) => Cardinality(Batches) <= file.workers

ASSUME BoundsAssumption == PassTime \in Nat /\ Horizon \in Nat

VARIABLES
  timing,          \* the [transfer] table of the accepted file
  clock,           \* time.monotonic
  waiting, due,    \* keys of remaining; batch -> when it may start, 0 if it does not wait
  active, exited,  \* keys of running; those whose future is done
  ended,           \* history: batch -> when its last rsync exited, Never while one runs
  tries,           \* batch -> the most attempts any of its entries has had
  nextStartAt,
  lastStart,       \* history: the last start of any batch, Never if starts are not staggered
  stage, spent,    \* where the loop is, and for how long in this pass
  finished,        \* completed_futures that are still to be handled
  anyFinished,     \* there were some in this pass
  sleepNow, wake   \* when the loop went to sleep, and until when

pacingVars == <<timing, clock, waiting, due, active, exited, ended, tries, nextStartAt,
                lastStart, stage, spent, finished, anyFinished, sleepNow, wake>>

Queue == <<waiting, due, tries>>
Nap == <<sleepNow, wake>>

Never == -1

PacingInit ==
  /\ timing = Unread
  /\ clock = 0
  /\ waiting = Batches /\ due = [b \in Batches |-> 0]
  /\ active = {} /\ exited = {}
  /\ ended = [b \in Batches |-> Never]
  /\ tries = [b \in Batches |-> 0]
  /\ nextStartAt = 0 /\ lastStart = Never
  /\ stage = "off" /\ spent = 0
  /\ finished = {} /\ anyFinished = FALSE
  /\ sleepNow = 0 /\ wake = 0

-----------------------------------------------------------------------------
(* Delays *)

(* backoff_seconds.                                                        *)
Backoff(attempt) == Min({timing.maximum, timing.initial * 2 ^ (attempt - 1)})

(* retry_delay_seconds, for a jitter source that gives 0, a half or 1.     *)
RetryDelays(attempt) ==
  {Min({timing.maximum, (Backoff(attempt) * (2 + draw * timing.jitter)) \div 2}) :
     draw \in {-1, 0, 1}}

-----------------------------------------------------------------------------
(* The loop *)

(* The settings of a file that the loop reads.                             *)
Timing(file) ==
  [key \in {"workers", "attempts", "initial", "maximum", "stagger", "jitter", "poll"} |-> file[key]]

(* Entries that an earlier run has tried keep their attempts.              *)
BeginLoop ==
  /\ stage = "off"
  /\ \E file \in {f \in ConfigFiles : Accepts(f)} :
       /\ timing' = Timing(file)
       /\ tries' \in [Batches -> 0..file.attempts - 1]
  /\ stage' = "head"
  /\ UNCHANGED <<clock, waiting, due, active, exited, ended, nextStartAt, lastStart, spent,
                 finished, anyFinished, Nap>>

Ready == {b \in waiting : due[b] <= clock}

(* How many of them are started in one pass.                               *)
LaunchCount ==
  IF clock < nextStartAt THEN 0
  ELSE Min({Cardinality(Ready), timing.workers - Cardinality(active),
            IF timing.stagger = 0 THEN timing.workers ELSE 1})

(* The head of the loop and the launch.                                    *)
ForgetStart(launched) == nextStartAt      \* faulty variant: next_start_at is not set
StartAfter(launched) ==
  IF launched # {} /\ timing.stagger > 0 THEN clock + timing.stagger ELSE nextStartAt

StartBatches ==
  /\ stage = "head"
  /\ waiting \cup active # {}
  /\ \E launched \in kSubset(LaunchCount, Ready) :
       /\ waiting' = waiting \ launched
       /\ active' = active \cup launched
       /\ due' = [b \in Batches |-> IF b \in launched THEN 0 ELSE due[b]]
       /\ ended' = [b \in Batches |-> IF b \in launched THEN Never ELSE ended[b]]
       /\ lastStart' = IF launched = {} \/ timing.stagger = 0 THEN lastStart ELSE clock
       /\ nextStartAt' = StartAfter(launched)
  /\ stage' = "monitor"
  /\ UNCHANGED <<timing, clock, exited, tries, spent, finished, anyFinished, Nap>>

EndLoop ==
  /\ stage = "head"
  /\ waiting \cup active = {}
  /\ stage' = "over"
  /\ UNCHANGED <<timing, clock, Queue, active, exited, ended, nextStartAt, lastStart, spent,
                 finished, anyFinished, Nap>>

(* The monitor returns, and the futures are looked at.                     *)
CollectFutures ==
  /\ stage = "monitor"
  /\ finished' = exited
  /\ anyFinished' = (exited # {})
  /\ stage' = "handling"
  /\ UNCHANGED <<timing, clock, Queue, active, exited, ended, nextStartAt, lastStart, spent, Nap>>

(* A finished batch is done with, or what is left of it waits again: its   *)
(* attempts are the most of those entries, which may be fewer than before  *)
(* when others are exhausted.                                              *)
SettleBatch(b) ==
  /\ b \in finished
  /\ finished' = finished \ {b}
  /\ active' = active \ {b}
  /\ exited' = exited \ {b}
  /\ \/ UNCHANGED Queue
     \/ \E attempt \in 1..Min({tries[b] + 1, timing.attempts - 1}) :
          /\ tries' = [tries EXCEPT ![b] = attempt]
          /\ waiting' = waiting \cup {b}
          /\ \E delay \in RetryDelays(attempt) : due' = [due EXCEPT ![b] = clock + delay]
  /\ UNCHANGED <<timing, clock, ended, nextStartAt, lastStart, stage, spent, anyFinished, Nap>>

(* The length of the sleep.                                                *)
NextDue == Min({due[b] : b \in waiting})

UntilDue == {NextDue - clock : b \in {w \in waiting : NextDue > clock}}

UntilStagger ==
  {nextStartAt - clock : b \in {w \in waiting : /\ due[w] <= clock
                                                /\ Cardinality(active) < timing.workers
                                                /\ nextStartAt > clock}}

DueOnly ==      \* faulty variant: the stagger is not looked at
  Min({timing.poll} \cup (IF anyFinished THEN {1} ELSE {}) \cup UntilDue)
SleepFor ==
  Min({timing.poll} \cup (IF anyFinished THEN {1} ELSE {}) \cup UntilDue \cup UntilStagger)

GoToSleep ==
  /\ stage = "handling"
  /\ finished = {}
  /\ IF waiting \cup active # {}
     THEN stage' = "asleep" /\ sleepNow' = clock /\ wake' = clock + SleepFor
     ELSE stage' = "head" /\ UNCHANGED Nap
  /\ spent' = 0
  /\ anyFinished' = FALSE
  /\ UNCHANGED <<timing, clock, Queue, active, exited, ended, nextStartAt, lastStart, finished>>

WakeUp ==
  /\ stage = "asleep"
  /\ clock >= wake
  /\ stage' = "head"
  /\ sleepNow' = 0 /\ wake' = 0
  /\ UNCHANGED <<timing, clock, Queue, active, exited, ended, nextStartAt, lastStart, spent,
                 finished, anyFinished>>

-----------------------------------------------------------------------------
(* The rest *)

(* rsync exits at any time, with any status.                               *)
RsyncEnds(b) ==
  /\ b \in active \ exited
  /\ exited' = exited \cup {b}
  /\ ended' = [ended EXCEPT ![b] = clock]
  /\ UNCHANGED <<timing, clock, Queue, active, nextStartAt, lastStart, stage, spent,
                 finished, anyFinished, Nap>>

Tick ==
  /\ clock < Horizon
  /\ clock' = clock + 1
  /\ \/ stage = "asleep" /\ clock < wake /\ UNCHANGED spent
     \/ stage \in {"monitor", "handling"} /\ spent < PassTime /\ spent' = spent + 1
  /\ UNCHANGED <<timing, Queue, active, exited, ended, nextStartAt, lastStart, stage,
                 finished, anyFinished, Nap>>

(* The loop is over, or the bound of the model is reached.                 *)
Rest ==
  /\ stage = "over" \/ clock = Horizon
  /\ UNCHANGED pacingVars

PacingNext ==
  \/ BeginLoop \/ StartBatches \/ EndLoop \/ CollectFutures
  \/ \E b \in Batches : SettleBatch(b) \/ RsyncEnds(b)
  \/ GoToSleep \/ WakeUp \/ Tick \/ Rest

PacingSpec == PacingInit /\ [][PacingNext]_pacingVars

-----------------------------------------------------------------------------
(* Properties *)

(* When a waiting batch could start.                                       *)
StartableAt(b) == Max({due[b], nextStartAt})

(* The least that must lie between a failure and the next attempt.         *)
LeastDelay(attempt) == (Backoff(attempt) * (2 - timing.jitter)) \div 2

(* Starts do not come in bursts: two of them are the stagger apart, also   *)
(* when batches become due together, and a batch that failed is not tried  *)
(* again before its backoff, less the jitter, has passed since its rsync   *)
(* ended, nor given a longer delay than the maximum.  Attempts of an       *)
(* earlier run lengthen the backoff, and do not delay the first start      *)
(* (scheduler.py:104-143 and 230-252, src/README.md:173-178).              *)
StartsArePaced ==
  [][/\ \A b \in active' \ active :
          /\ lastStart # Never => clock - lastStart >= timing.stagger
          /\ ended[b] # Never => tries[b] > 0 /\ clock - ended[b] >= LeastDelay(tries[b])
          /\ timing.stagger > 0 => active' \ active = {b}
     /\ due' # due => \A b \in Batches : due'[b] <= clock + timing.maximum]_pacingVars

(* The loop does sleep, so it cannot spin, and for the poll interval at    *)
(* most.  It sleeps past the moment at which a batch may start only if     *)
(* some batch became startable while the pass was under way: then it does  *)
(* not look at the others, and a batch that becomes due during the sleep   *)
(* waits too.  No batch waits for more than a pass and a poll interval     *)
(* (scheduler.py:260-279, config.py:201).                                  *)
SleepsRight ==
  /\ stage = "asleep" =>
       /\ sleepNow < wake /\ wake <= sleepNow + timing.poll
       /\ \A b \in waiting :
            \/ wake <= StartableAt(b)
            \/ \E c \in waiting : StartableAt(c) \in sleepNow - PassTime .. sleepNow
  /\ stage \notin {"off", "over"} =>
       \A b \in waiting : clock <= StartableAt(b) + PassTime + timing.poll
=============================================================================
