---------------------------- MODULE PacingProofs ----------------------------
(***************************************************************************)
(* Theorems about Pacing, under every configuration that Configuration     *)
(* accepts, and about RollingRate, for any files, batches, times and       *)
(* samples.                                                                *)
(***************************************************************************)
EXTENDS Pacing, RollingRate, BalanceProofs, SequenceTheorems

LEMMA PowersOfTwo ==
  ASSUME NEW k \in Nat
  PROVE  2 ^ k \in Nat \ {0}
  <1>1. IsFiniteSet(1..k) /\ Cardinality(1..k) = k
    BY FS_Interval
  <1>2. IsFiniteSet(SUBSET (1..k)) /\ Cardinality(SUBSET (1..k)) = 2 ^ k
    BY <1>1, FS_SUBSET
  <1>3. Cardinality(SUBSET (1..k)) \in Nat /\ Cardinality(SUBSET (1..k)) # 0
    BY <1>2, FS_CardinalityType, FS_EmptySet
  <1>4. QED
    BY <1>2, <1>3

LEMMA MinOfTwo ==
  ASSUME NEW m \in Int, NEW n \in Int
  PROVE  Min({m, n}) = IF m <= n THEN m ELSE n
  BY DEF Min

-----------------------------------------------------------------------------
(* The inductive invariant *)

Staged == {"monitor", "handling"}

(* What load_config lets through.                                          *)
TimingOK ==
  /\ timing.workers \in Nat /\ Cardinality(Batches) <= timing.workers
  /\ timing.attempts \in Nat
  /\ timing.initial \in Nat \ {0} /\ timing.maximum \in Nat \ {0}
  /\ timing.stagger \in Nat
  /\ timing.jitter \in 0..2
  /\ timing.poll \in Nat \ {0}

PacingTypeOK ==
  /\ stage # "off" => TimingOK
  /\ clock \in Nat
  /\ waiting \subseteq Batches /\ due \in [Batches -> Nat]
  /\ active \subseteq Batches /\ exited \subseteq active
  /\ ended \in [Batches -> Nat \cup {Never}]
  /\ tries \in [Batches -> Nat]
  /\ nextStartAt \in Nat /\ lastStart \in Nat \cup {Never}
  /\ stage \in Staged \cup {"off", "head", "asleep", "over"}
  /\ spent \in 0..PassTime
  /\ finished \subseteq exited
  /\ sleepNow \in Nat /\ wake \in Nat

(* Where the loop is.                                                      *)
Place ==
  /\ waiting \cap active = {}
  /\ stage = "off" => /\ clock = 0 /\ active = {} /\ lastStart = Never
                      /\ \A b \in Batches : due[b] = 0 /\ ended[b] = Never
  /\ stage # "handling" => finished = {}
  /\ stage \notin Staged => spent = 0

(* What a start has to wait for is after what it is counted from.          *)
Delayed ==
  /\ lastStart # Never => nextStartAt = lastStart + timing.stagger
  /\ \A b \in Batches : ended[b] <= clock
  /\ \A b \in exited : ended[b] # Never
  /\ \A b \in waiting : ended[b] # Never =>
       tries[b] > 0 /\ due[b] - ended[b] >= LeastDelay(tries[b])
  /\ stage # "off" => \A b \in Batches : due[b] <= clock + timing.maximum

(* How late the loop may be for a waiting batch, at each place.            *)
InTime ==
  /\ stage = "head" => \A b \in waiting : clock <= StartableAt(b) + PassTime + timing.poll
  /\ stage \in Staged => \A b \in waiting : clock - spent <= StartableAt(b)
  /\ stage = "asleep" =>
       /\ sleepNow < wake /\ wake <= sleepNow + timing.poll
       /\ sleepNow <= clock /\ clock <= wake
       /\ \A b \in waiting : sleepNow <= StartableAt(b) + PassTime
       /\ (\A b \in waiting : StartableAt(b) > sleepNow) => \A b \in waiting : wake <= StartableAt(b)

PacingInv == PacingTypeOK /\ Place /\ Delayed /\ InTime

-----------------------------------------------------------------------------
(* Delays *)

LEMMA BackoffType ==
  ASSUME TimingOK, NEW attempt \in Nat \ {0}
  PROVE  Backoff(attempt) \in Nat \ {0} /\ Backoff(attempt) <= timing.maximum
  <1>1. 2 ^ (attempt - 1) \in Nat \ {0}
    BY PowersOfTwo
  <1> DEFINE nominal == timing.initial * 2 ^ (attempt - 1)
  <1>2. nominal \in Nat \ {0}
    BY <1>1 DEF TimingOK
  <1> HIDE DEF nominal
  <1>3. Min({timing.maximum, nominal}) \in {timing.maximum, nominal}
        /\ Min({timing.maximum, nominal}) <= timing.maximum
    BY <1>2, MinOfNats DEF TimingOK
  <1>4. QED
    BY <1>2, <1>3 DEF TimingOK, Backoff, nominal

(* A retry waits for its backoff less the jitter, and for the maximum at   *)
(* most.                                                                   *)
LEMMA RetryDelayBounds ==
  ASSUME TimingOK, NEW attempt \in Nat \ {0}, NEW delay \in RetryDelays(attempt)
  PROVE  /\ delay \in Nat
         /\ LeastDelay(attempt) <= delay
         /\ delay <= timing.maximum
  <1> DEFINE B == Backoff(attempt)
             J == timing.jitter
  <1>1. B \in Nat /\ B <= timing.maximum /\ timing.maximum \in Nat /\ J \in 0..2
    BY BackoffType DEF TimingOK
  <1>2. PICK draw \in {-1, 0, 1} : delay = Min({timing.maximum, (B * (2 + draw * J)) \div 2})
    BY DEF RetryDelays
  <1> DEFINE drawn == (B * (2 + draw * J)) \div 2
             least == (B * (2 - J)) \div 2
  <1>3. drawn \in Nat /\ least \in Nat /\ least <= drawn /\ least <= timing.maximum
    <2> HIDE DEF B, J
    <2>1. CASE J = 0
      BY <1>1, <2>1
    <2>2. CASE J = 1
      BY <1>1, <2>2
    <2>3. CASE J = 2
      BY <1>1, <2>3
    <2>4. QED
      BY <1>1, <2>1, <2>2, <2>3
  <1>4. least = LeastDelay(attempt)
    BY DEF LeastDelay
  <1> HIDE DEF drawn, least
  <1>5. delay \in {timing.maximum, drawn} /\ delay <= timing.maximum
    BY <1>1, <1>2, <1>3, MinOfNats DEF drawn
  <1>6. QED
    BY <1>1, <1>3, <1>4, <1>5

(* The settings of an accepted file.                                       *)
LEMMA AcceptedTiming ==
  ASSUME NEW file \in ConfigFiles, Accepts(file), timing' = Timing(file)
  PROVE  TimingOK'
  <1>1. \A key \in Numbers : file[key] \in Int \cup {NotANumber}
    BY FilesAssumption
  <1>2. /\ file["workers"] \in Int \cup {NotANumber} /\ file["attempts"] \in Int \cup {NotANumber}
        /\ file["initial"] \in Int \cup {NotANumber} /\ file["maximum"] \in Int \cup {NotANumber}
        /\ file["stagger"] \in Int \cup {NotANumber} /\ file["jitter"] \in Int \cup {NotANumber}
        /\ file["poll"] \in Int \cup {NotANumber}
    BY <1>1 DEF Numbers
  <1>3. Cardinality(Batches) <= file.workers
    BY BatchesAssumption
  <1>4. QED
    BY <1>2, <1>3 DEF TimingOK, Timing, Accepts, InRange, Positive, AtLeastZero

-----------------------------------------------------------------------------
(* The invariant is inductive *)

LEMMA PacingInitInv == PacingInit => PacingInv
  <1> SUFFICES ASSUME PacingInit PROVE PacingInv
    OBVIOUS
  <1> USE BoundsAssumption DEF PacingInit, Never
  <1>1. PacingTypeOK
    BY DEF PacingTypeOK, Staged
  <1>2. Place
    BY DEF Place, Staged
  <1>3. Delayed
    BY DEF Delayed
  <1>4. InTime
    BY DEF InTime, Staged
  <1>5. QED
    BY <1>1, <1>2, <1>3, <1>4 DEF PacingInv

LEMMA StartableAtIs ==
  ASSUME PacingTypeOK, NEW b \in Batches
  PROVE  StartableAt(b) = IF due[b] >= nextStartAt THEN due[b] ELSE nextStartAt
  BY MaxOfTwo DEF PacingTypeOK, StartableAt

LEMMA BeginKeeps ==
  ASSUME PacingInv, BeginLoop
  PROVE  PacingInv'
  <1> USE DEF PacingInv, PacingTypeOK, Place, BeginLoop, Queue, Nap
  <1>0. PICK file \in {f \in ConfigFiles : Accepts(f)} :
          timing' = Timing(file) /\ tries' \in [Batches -> 0..file.attempts - 1]
    OBVIOUS
  <1>1. TimingOK'
    BY <1>0, AcceptedTiming
  <1>2. PacingTypeOK'
    <2>1. timing'.attempts = file.attempts
      BY <1>0 DEF Timing
    <2>2. tries' \in [Batches -> Nat]
      BY <1>0, <1>1, <2>1 DEF TimingOK
    <2>3. QED
      BY <1>1, <2>2 DEF Staged
  <1>3. Place'
    BY DEF Staged
  <1>4. Delayed'
    BY <1>1 DEF Delayed, TimingOK
  <1>5. InTime'
    <2>1. ASSUME NEW b \in Batches PROVE StartableAt(b)' \in Nat
      BY <1>2, StartableAtIs DEF StartableAt
    <2>2. QED
      BY <1>1, <2>1, BoundsAssumption DEF InTime, TimingOK, Staged
  <1>6. QED
    BY <1>2, <1>3, <1>4, <1>5

(* Which batches are started in one pass: all that are due, or one of      *)
(* them if starts are staggered, or none before the next start.            *)
LEMMA LaunchIs ==
  ASSUME PacingInv, stage # "off", NEW launched \in kSubset(LaunchCount, Ready)
  PROVE  /\ launched \subseteq Ready
         /\ launched # {} => clock >= nextStartAt
         /\ launched # {} /\ timing.stagger > 0 => Cardinality(launched) = 1
         /\ clock >= nextStartAt => launched = Ready \/ (timing.stagger > 0 /\ launched # {})
  <1> DEFINE R == Cardinality(Ready)
             A == Cardinality(active)
             w == timing.workers
             choices == {R, w - A, IF timing.stagger = 0 THEN w ELSE 1}
  <1>1. /\ IsFiniteSet(Ready) /\ R \in Nat
        /\ IsFiniteSet(active) /\ A \in Nat
        /\ R + A <= w
        /\ w \in Nat /\ timing.stagger \in Nat
    <2>1. Ready \subseteq Batches /\ active \subseteq Batches /\ Ready \cap active = {}
      BY DEF PacingInv, PacingTypeOK, Place, Ready
    <2>2. IsFiniteSet(Ready) /\ IsFiniteSet(active) /\ IsFiniteSet(Ready \cup active)
      BY <2>1, BatchesAssumption, FS_Subset
    <2>3. Cardinality(Ready \cup active) = R + A
      <3>1. Cardinality(Ready \cup active) = R + A - Cardinality(Ready \cap active)
        BY <2>2, FS_Union
      <3>2. Cardinality(Ready \cap active) = 0
        BY <2>1, FS_EmptySet
      <3>3. R \in Nat /\ A \in Nat
        BY <2>2, FS_CardinalityType
      <3>4. QED
        BY <3>1, <3>2, <3>3
    <2>4. Cardinality(Ready \cup active) <= Cardinality(Batches)
      BY <2>1, BatchesAssumption, FS_Subset
    <2>5. Cardinality(Batches) <= w /\ w \in Nat /\ timing.stagger \in Nat
      BY DEF PacingInv, PacingTypeOK, TimingOK
    <2>6. R \in Nat /\ A \in Nat /\ Cardinality(Batches) \in Nat
      BY <2>2, BatchesAssumption, FS_CardinalityType
    <2>7. QED
      BY <2>2, <2>3, <2>4, <2>5, <2>6
  <1>2. launched \subseteq Ready /\ Cardinality(launched) = LaunchCount
    BY DEF kSubset
  <1>3. IsFiniteSet(launched) /\ (Cardinality(launched) = 0 <=> launched = {})
        /\ (Cardinality(launched) = R => launched = Ready)
    BY <1>1, <1>2, FS_Subset, FS_EmptySet
  <1>4. clock \in Nat /\ nextStartAt \in Nat
    BY DEF PacingInv, PacingTypeOK
  <1>5. CASE clock < nextStartAt
    BY <1>2, <1>3, <1>4, <1>5 DEF LaunchCount
  <1>6. CASE clock >= nextStartAt
    <2>1. LaunchCount = Min(choices)
      BY <1>4, <1>6 DEF LaunchCount
    <2> HIDE DEF R, A, w
    <2>2. choices \in SUBSET Nat /\ choices # {}
      BY <1>1
    <2>3. Min(choices) \in choices /\ \A m \in choices : Min(choices) <= m
      BY <2>2, MinOfNats, Zenon
    <2>4. timing.stagger = 0 => Min(choices) = R
      BY <1>1, <2>3
    <2>5. timing.stagger > 0 => Min(choices) <= 1
      BY <1>1, <2>3
    <2>6. timing.stagger > 0 /\ R # 0 => Min(choices) # 0
      BY <1>1, <2>3
    <2>7. R = 0 => Ready = {}
      BY <1>1, FS_EmptySet DEF R
    <2>8. Min(choices) \in Nat
      BY <2>2, <2>3
    <2> HIDE DEF choices
    <2>9. CASE timing.stagger = 0
      BY <1>2, <1>3, <1>6, <2>1, <2>4, <2>9, <1>4
    <2>10. CASE timing.stagger > 0
      BY <1>2, <1>3, <1>6, <2>1, <2>5, <2>6, <2>7, <2>8, <2>10, <1>4
    <2>11. QED
      BY <1>1, <2>9, <2>10
  <1>7. QED
    BY <1>4, <1>5, <1>6

LEMMA StartKeeps ==
  ASSUME PacingInv, StartBatches
  PROVE  PacingInv'
  <1> USE DEF Staged, Nap
  <1>1. PICK launched \in kSubset(LaunchCount, Ready) :
          /\ waiting' = waiting \ launched
          /\ active' = active \cup launched
          /\ due' = [b \in Batches |-> IF b \in launched THEN 0 ELSE due[b]]
          /\ ended' = [b \in Batches |-> IF b \in launched THEN Never ELSE ended[b]]
          /\ lastStart' = IF launched = {} \/ timing.stagger = 0 THEN lastStart ELSE clock
          /\ nextStartAt' = StartAfter(launched)
    BY DEF StartBatches
  <1>2. /\ stage = "head" /\ stage' = "monitor"
        /\ UNCHANGED <<timing, clock, exited, tries, spent, finished, sleepNow, wake>>
    BY DEF StartBatches
  <1>3. /\ launched \subseteq Ready
        /\ launched # {} => clock >= nextStartAt
        /\ clock >= nextStartAt => launched = Ready \/ (timing.stagger > 0 /\ launched # {})
    BY <1>2, LaunchIs
  <1>4. TimingOK /\ TimingOK'
    BY <1>2 DEF PacingInv, PacingTypeOK, TimingOK
  <1> USE DEF PacingInv, PacingTypeOK, Place, Ready, StartAfter, TimingOK, Never
  <1>5. PacingTypeOK'
    BY <1>1, <1>2, <1>3, <1>4
  <1>6. Place'
    BY <1>1, <1>2, <1>3
  <1>7. Delayed'
    <2>1. \A b \in Batches : LeastDelay(tries[b])' = LeastDelay(tries[b])
      BY <1>2 DEF LeastDelay, Backoff
    <2>2. QED
      BY <1>1, <1>2, <1>3, <1>4, <2>1 DEF Delayed
  <1>8. InTime'
    <2>1. ASSUME NEW b \in waiting' PROVE clock <= StartableAt(b)'
      <3>1. b \in Batches /\ StartableAt(b)' = IF due'[b] >= nextStartAt' THEN due'[b] ELSE nextStartAt'
        BY <1>5, MaxOfTwo DEF StartableAt
      <3>2. CASE clock < nextStartAt
        BY <1>1, <1>3, <3>1, <3>2, <1>5
      <3>3. CASE clock >= nextStartAt /\ launched = Ready
        BY <1>1, <3>1, <3>3, <1>5
      <3>4. CASE timing.stagger > 0 /\ launched # {}
        BY <1>1, <1>4, <3>1, <3>4, <1>5
      <3>5. QED
        BY <1>3, <3>2, <3>3, <3>4
    <2>2. QED
      BY <1>2, <2>1, <1>5 DEF InTime
  <1>9. QED
    BY <1>5, <1>6, <1>7, <1>8

LEMMA SettleKeeps ==
  ASSUME PacingInv, NEW b \in Batches, SettleBatch(b)
  PROVE  PacingInv'
  <1> USE DEF PacingInv, PacingTypeOK, Place, Staged, Queue, Nap
  <1>1. /\ b \in finished /\ stage = "handling" /\ TimingOK
        /\ finished' = finished \ {b} /\ active' = active \ {b} /\ exited' = exited \ {b}
        /\ UNCHANGED <<timing, clock, ended, nextStartAt, lastStart, stage, spent, sleepNow, wake>>
    BY DEF SettleBatch
  <1>2. TimingOK' /\ \A c \in Batches : LeastDelay(tries[c])' = (LeastDelay(tries'[c]))
    BY <1>1 DEF TimingOK, LeastDelay, Backoff
  <1>3. CASE UNCHANGED Queue
    <2>1. PacingTypeOK' /\ Place'
      BY <1>1, <1>2, <1>3
    <2>2. Delayed'
      BY <1>1, <1>2, <1>3 DEF Delayed
    <2>3. InTime'
      BY <1>1, <1>3 DEF InTime, StartableAt
    <2>4. QED
      BY <2>1, <2>2, <2>3
  <1>4. ASSUME NEW attempt \in 1..Min({tries[b] + 1, timing.attempts - 1})
        PROVE  attempt \in Nat \ {0}
    <2>1. tries[b] + 1 \in Int /\ timing.attempts - 1 \in Int
      BY <1>1 DEF TimingOK
    <2>2. Min({tries[b] + 1, timing.attempts - 1}) \in Int
      BY <2>1, MinOfTwo
    <2>3. QED
      BY <2>2
  <1>5. ASSUME NEW attempt \in Nat \ {0}, tries' = [tries EXCEPT ![b] = attempt],
               waiting' = waiting \cup {b},
               NEW delay \in RetryDelays(attempt), due' = [due EXCEPT ![b] = clock + delay]
        PROVE  PacingInv'
    <2>1. tries'[b] \in Nat \ {0} /\ tries'[b] = attempt
      BY <1>5
    <2>2. delay \in Nat /\ LeastDelay(tries'[b]) <= delay /\ delay <= timing.maximum
      BY <1>1, <1>5, <2>1, RetryDelayBounds
    <2>3. PacingTypeOK' /\ Place'
      BY <1>1, <1>2, <1>5, <2>2
    <2>4. Delayed'
      <3>1. LeastDelay(tries'[b]) \in Int
        BY <1>1, <2>1, BackoffType DEF LeastDelay, TimingOK
      <3>2. ended[b] # Never /\ ended[b] <= clock /\ ended[b] \in Nat
        BY <1>1 DEF Delayed
      <3>3. due'[b] - ended'[b] >= LeastDelay(tries'[b])
        BY <1>1, <1>5, <2>2, <3>1, <3>2
      <3>4. \A c \in waiting : c # b /\ due'[c] = due[c] /\ tries'[c] = tries[c]
        BY <1>1, <1>5
      <3>5. timing.maximum \in Nat
        BY <1>1 DEF TimingOK
      <3>6. QED
        BY <1>1, <1>2, <1>5, <2>2, <3>2, <3>3, <3>4, <3>5 DEF Delayed
    <2>5. InTime'
      <3>1. ASSUME NEW c \in waiting' PROVE clock - spent <= StartableAt(c)'
        <4>1. StartableAt(c)' = IF due'[c] >= nextStartAt' THEN due'[c] ELSE nextStartAt'
          <5>1. due'[c] \in Int /\ nextStartAt' \in Int
            BY <2>3, <3>1 DEF PacingTypeOK
          <5>2. Max({due'[c], nextStartAt'}) = IF due'[c] >= nextStartAt' THEN due'[c] ELSE nextStartAt'
            BY <5>1, MaxOfTwo
          <5>3. QED
            BY <5>2 DEF StartableAt
        <4>2. CASE c = b
          BY <1>5, <2>2, <2>3, <4>1, <4>2
        <4>3. CASE c # b
          BY <1>1, <1>5, <4>3 DEF InTime, StartableAt
        <4>4. QED
          BY <4>2, <4>3
      <3>2. QED
        BY <1>1, <3>1 DEF InTime
    <2>6. QED
      BY <2>3, <2>4, <2>5
  <1>6. QED
    BY <1>3, <1>4, <1>5 DEF SettleBatch

LEMMA SleepForIs ==
  ASSUME PacingInv, stage = "handling"
  PROVE  /\ SleepFor \in Nat \ {0}
         /\ SleepFor <= timing.poll
         /\ (\A b \in waiting : StartableAt(b) > clock) =>
              \A b \in waiting : clock + SleepFor <= StartableAt(b)
  <1> DEFINE bounds == {timing.poll} \cup (IF anyFinished THEN {1} ELSE {}) \cup UntilDue \cup UntilStagger
  <1>1. /\ TimingOK /\ clock \in Nat /\ nextStartAt \in Nat /\ due \in [Batches -> Nat]
        /\ waiting \subseteq Batches /\ timing.poll \in Nat \ {0}
    BY DEF PacingInv, PacingTypeOK, TimingOK
  <1>2. waiting # {} => /\ NextDue \in Nat
                        /\ \A b \in waiting : NextDue <= due[b]
                        /\ \E b \in waiting : NextDue = due[b]
    <2> DEFINE dues == {due[b] : b \in waiting}
    <2>1. dues \in SUBSET Nat
      BY <1>1
    <2>2. waiting # {} => dues # {}
      OBVIOUS
    <2>3. waiting # {} => Min(dues) \in dues /\ \A m \in dues : Min(dues) <= m
      BY <2>1, <2>2, MinOfNats, Zenon
    <2>4. NextDue = Min(dues)
      BY DEF NextDue
    <2>5. QED
      BY <1>1, <2>1, <2>3, <2>4
  <1>3. UntilDue \subseteq Nat \ {0} /\ UntilStagger \subseteq Nat \ {0}
    BY <1>1, <1>2 DEF UntilDue, UntilStagger
  <1>4. bounds \in SUBSET Nat /\ bounds # {} /\ 0 \notin bounds /\ timing.poll \in bounds
    <2>1. {timing.poll} \subseteq Nat \ {0} /\ (IF anyFinished THEN {1} ELSE {}) \subseteq Nat \ {0}
      BY <1>1
    <2>2. QED
      BY <2>1, <1>3
  <1> HIDE DEF bounds
  <1>5. Min(bounds) \in bounds /\ \A m \in bounds : Min(bounds) <= m
    BY <1>4, MinOfNats, Zenon
  <1>6. SleepFor = Min(bounds) /\ SleepFor \in Nat \ {0} /\ \A m \in bounds : SleepFor <= m
    BY <1>4, <1>5 DEF SleepFor, bounds
  <1>7. ASSUME \A b \in waiting : StartableAt(b) > clock, NEW b \in waiting
        PROVE  clock + SleepFor <= StartableAt(b)
    <2>1. \A c \in waiting : StartableAt(c) = IF due[c] >= nextStartAt THEN due[c] ELSE nextStartAt
      BY <1>1, MaxOfTwo DEF StartableAt
    <2>2. CASE NextDue > clock
      <3>1. NextDue - clock \in bounds
        BY <1>7, <2>2 DEF UntilDue, bounds
      <3>2. SleepFor <= NextDue - clock /\ NextDue \in Nat /\ NextDue <= due[b] /\ due[b] \in Nat
        BY <1>1, <1>2, <1>6, <1>7, <3>1
      <3>3. due[b] <= StartableAt(b) /\ StartableAt(b) \in Nat
        BY <1>1, <1>7, <2>1
      <3>4. QED
        BY <1>1, <1>6, <3>2, <3>3
    <2>3. CASE NextDue <= clock
      <3>1. PICK c \in waiting : due[c] <= clock /\ nextStartAt > clock
        BY <1>1, <1>2, <1>7, <2>1, <2>3
      <3>2. Cardinality(active) < timing.workers
        <4>1. active \subseteq Batches \ {c} /\ c \in Batches
          BY <3>1 DEF PacingInv, PacingTypeOK, Place
        <4>2. /\ IsFiniteSet(Batches \ {c}) /\ Cardinality(Batches \ {c}) = Cardinality(Batches) - 1
              /\ Cardinality(Batches) \in Nat
          BY <4>1, BatchesAssumption, FS_RemoveElement, FS_CardinalityType
        <4>3. Cardinality(active) <= Cardinality(Batches \ {c}) /\ Cardinality(active) \in Nat
          BY <4>1, <4>2, FS_Subset, FS_CardinalityType
        <4>4. QED
          BY <1>1, <4>2, <4>3 DEF TimingOK
      <3>3. nextStartAt - clock \in bounds
        BY <3>1, <3>2 DEF UntilStagger, bounds
      <3>4. SleepFor <= nextStartAt - clock
        BY <1>6, <3>3
      <3>5. nextStartAt <= StartableAt(b) /\ StartableAt(b) \in Nat
        BY <1>1, <1>7, <2>1
      <3>6. QED
        BY <1>1, <1>6, <3>4, <3>5
    <2>4. QED
      BY <1>1, <1>2, <1>7, <2>2, <2>3
  <1>8. QED
    BY <1>4, <1>6, <1>7

LEMMA SleepKeeps ==
  ASSUME PacingInv, GoToSleep
  PROVE  PacingInv'
  <1> USE DEF PacingInv, PacingTypeOK, Place, Staged, Queue, Nap
  <1>1. /\ stage = "handling" /\ TimingOK /\ finished = {} /\ spent' = 0
        /\ UNCHANGED <<timing, clock, waiting, due, tries, active, exited, ended, nextStartAt, lastStart, finished>>
    BY DEF GoToSleep
  <1>2. TimingOK' /\ \A c \in Batches : LeastDelay(tries[c])' = LeastDelay(tries[c])
    BY <1>1 DEF TimingOK, LeastDelay, Backoff
  <1>3. \A b \in Batches : StartableAt(b)' = StartableAt(b) /\ StartableAt(b) \in Nat
    BY <1>1, StartableAtIs DEF StartableAt
  <1>4. Delayed'
    BY <1>1, <1>2 DEF Delayed, GoToSleep
  <1>5. CASE stage' = "asleep" /\ sleepNow' = clock /\ wake' = clock + SleepFor
    <2>1. PacingTypeOK' /\ Place'
      BY <1>1, <1>2, <1>5, SleepForIs, BoundsAssumption
    <2>2. InTime'
      BY <1>1, <1>3, <1>5, SleepForIs, BoundsAssumption DEF InTime, TimingOK
    <2>3. QED
      BY <1>4, <2>1, <2>2
  <1>6. CASE waiting = {} /\ stage' = "head" /\ UNCHANGED Nap
    <2>1. PacingTypeOK' /\ Place'
      BY <1>1, <1>2, <1>6, BoundsAssumption
    <2>2. InTime'
      BY <1>1, <1>6 DEF InTime
    <2>3. QED
      BY <1>4, <2>1, <2>2
  <1>7. QED
    BY <1>5, <1>6 DEF GoToSleep

LEMMA TickKeeps ==
  ASSUME PacingInv, Tick
  PROVE  PacingInv'
  <1> USE DEF PacingInv, PacingTypeOK, Place, Staged, Queue, Nap
  <1>1. /\ clock' = clock + 1 /\ TimingOK
        /\ stage \in {"asleep", "monitor", "handling"}
        /\ stage = "asleep" => clock < wake /\ spent' = spent
        /\ stage \in Staged => spent' = spent + 1 /\ spent < PassTime
        /\ UNCHANGED <<timing, waiting, due, tries, active, exited, ended, nextStartAt,
                       lastStart, stage, finished, sleepNow, wake>>
    BY DEF Tick
  <1>2. TimingOK' /\ \A b \in Batches : LeastDelay(tries[b])' = LeastDelay(tries[b])
    BY <1>1 DEF TimingOK, LeastDelay, Backoff
  <1>3. \A b \in Batches : StartableAt(b)' = StartableAt(b) /\ StartableAt(b) \in Nat
    BY <1>1, StartableAtIs DEF StartableAt
  <1>4. PacingTypeOK' /\ Place'
    BY <1>1, <1>2, BoundsAssumption
  <1>5. Delayed'
    BY <1>1, <1>2 DEF Delayed, TimingOK, Never
  <1>6. InTime'
    BY <1>1, <1>3 DEF InTime, TimingOK
  <1>7. QED
    BY <1>4, <1>5, <1>6

(* The steps that leave the clock, the queue and the settings alone.       *)
LEMMA OthersKeep ==
  ASSUME PacingInv,
         \/ EndLoop \/ CollectFutures \/ WakeUp \/ UNCHANGED pacingVars
         \/ \E b \in Batches : RsyncEnds(b)
  PROVE  PacingInv'
  <1> USE DEF PacingInv, PacingTypeOK, Place, Staged, Queue, Nap
  <1>1. UNCHANGED <<timing, clock, waiting, due, tries, active, nextStartAt, lastStart, spent>>
    BY DEF EndLoop, CollectFutures, WakeUp, RsyncEnds, pacingVars
  <1>2. /\ TimingOK => TimingOK'
        /\ \A b \in Batches : LeastDelay(tries[b])' = LeastDelay(tries[b])
        /\ \A b \in Batches : StartableAt(b)' = StartableAt(b) /\ StartableAt(b) \in Nat
    BY <1>1, StartableAtIs DEF TimingOK, LeastDelay, Backoff, StartableAt
  <1>3. CASE EndLoop \/ CollectFutures
    BY <1>1, <1>2, <1>3 DEF EndLoop, CollectFutures, Delayed, InTime
  <1>4. CASE WakeUp
    <2>1. /\ stage = "asleep" /\ stage' = "head" /\ sleepNow' = 0 /\ wake' = 0
          /\ UNCHANGED <<exited, ended, finished>>
      BY <1>4 DEF WakeUp
    <2>2. PacingTypeOK' /\ Place'
      BY <1>1, <1>2, <2>1
    <2>3. Delayed'
      BY <1>1, <1>2, <2>1 DEF Delayed
    <2>4. InTime'
      BY <1>1, <1>2, <2>1, BoundsAssumption DEF InTime, TimingOK
    <2>5. QED
      BY <2>2, <2>3, <2>4
  <1>5. CASE UNCHANGED pacingVars
    BY <1>1, <1>2, <1>5 DEF pacingVars, Delayed, InTime
  <1>6. ASSUME NEW b \in Batches, RsyncEnds(b) PROVE PacingInv'
    <2>1. /\ b \in active \ exited /\ exited' = exited \cup {b} /\ ended' = [ended EXCEPT ![b] = clock]
          /\ UNCHANGED <<stage, finished, sleepNow, wake>>
      BY <1>6 DEF RsyncEnds
    <2>2. PacingTypeOK' /\ Place'
      BY <1>1, <1>2, <2>1
    <2>3. Delayed'
      BY <1>1, <1>2, <2>1 DEF Delayed, Never
    <2>4. InTime'
      BY <1>1, <1>2, <2>1 DEF InTime
    <2>5. QED
      BY <2>2, <2>3, <2>4
  <1>7. QED
    BY <1>3, <1>4, <1>5, <1>6

(* The bounds on starts, delays and sleeps hold at every step, for any     *)
(* accepted configuration (scheduler.py:84-281).                           *)
THEOREM PacingInvariant == PacingSpec => []PacingInv
  <1>1. PacingInv /\ [PacingNext]_pacingVars => PacingInv'
    BY BeginKeeps, StartKeeps, SettleKeeps, SleepKeeps, TickKeeps, OthersKeep DEF PacingNext, Rest
  <1>2. QED
    BY PacingInitInv, <1>1, PTL DEF PacingSpec

-----------------------------------------------------------------------------
(* The properties *)

(* The loop never spins, sleeps past the start of a batch only if some     *)
(* batch became startable during the pass before, and is late by a pass    *)
(* and a poll interval at most (scheduler.py:260-279).                     *)
THEOREM SleepIsRight == PacingSpec => []SleepsRight
  <1>1. PacingInv => SleepsRight
    <2> SUFFICES ASSUME PacingInv PROVE SleepsRight
      OBVIOUS
    <2>1. ASSUME stage \notin {"off", "over"}, NEW b \in waiting
          PROVE  clock <= StartableAt(b) + PassTime + timing.poll
      <3>1. StartableAt(b) \in Nat /\ TimingOK /\ PassTime \in Nat /\ clock \in Nat /\ spent \in 0..PassTime
        BY <2>1, StartableAtIs, BoundsAssumption DEF PacingInv, PacingTypeOK
      <3>2. CASE stage \in {"head", "asleep"}
        BY <2>1, <3>1, <3>2 DEF PacingInv, PacingTypeOK, InTime, TimingOK
      <3>3. CASE stage \in Staged
        BY <2>1, <3>1, <3>3 DEF PacingInv, InTime, TimingOK
      <3>4. QED
        BY <2>1, <3>2, <3>3 DEF PacingInv, PacingTypeOK
    <2>2. ASSUME stage = "asleep", NEW b \in waiting, ~(wake <= StartableAt(b))
          PROVE  \E c \in waiting : StartableAt(c) \in sleepNow - PassTime .. sleepNow
      <3>1. PICK c \in waiting : ~(StartableAt(c) > sleepNow)
        BY <2>2 DEF PacingInv, InTime
      <3>2. StartableAt(c) \in Nat /\ sleepNow \in Nat /\ PassTime \in Nat
        BY <3>1, StartableAtIs, BoundsAssumption DEF PacingInv, PacingTypeOK
      <3>3. sleepNow <= StartableAt(c) + PassTime
        BY <2>2, <3>1 DEF PacingInv, InTime
      <3>4. QED
        BY <3>1, <3>2, <3>3
    <2>3. QED
      BY <2>1, <2>2 DEF PacingInv, InTime, SleepsRight
  <1>2. QED
    BY <1>1, PacingInvariant, PTL

(* Two starts are the stagger apart, a retry waits for its backoff less    *)
(* the jitter and for the maximum at most, whatever becomes due together   *)
(* (scheduler.py:104-143 and 230-252).                                     *)
THEOREM StartsPaced == PacingSpec => StartsArePaced
  <1> DEFINE Paced ==
        /\ \A b \in active' \ active :
             /\ lastStart # Never => clock - lastStart >= timing.stagger
             /\ ended[b] # Never => tries[b] > 0 /\ clock - ended[b] >= LeastDelay(tries[b])
             /\ timing.stagger > 0 => active' \ active = {b}
        /\ due' # due => \A b \in Batches : due'[b] <= clock + timing.maximum
  <1>1. PacingInv /\ PacingInv' /\ [PacingNext]_pacingVars => [Paced]_pacingVars
    <2> SUFFICES ASSUME PacingInv, PacingInv', PacingNext PROVE Paced
      OBVIOUS
    <2> USE DEF Queue, Nap
    <2>1. CASE StartBatches
      <3>1. PICK launched \in kSubset(LaunchCount, Ready) : active' = active \cup launched
        BY <2>1 DEF StartBatches
      <3>2. /\ stage = "head" /\ clock' = clock /\ timing' = timing /\ stage' = "monitor"
        BY <2>1 DEF StartBatches
      <3>3. /\ launched \subseteq Ready
            /\ launched # {} => clock >= nextStartAt
            /\ launched # {} /\ timing.stagger > 0 => Cardinality(launched) = 1
        BY <3>2, LaunchIs
      <3>4. active' \ active = launched
        BY <3>1, <3>3 DEF PacingInv, Place, Ready
      <3>5. ASSUME NEW b \in launched
            PROVE  /\ lastStart # Never => clock - lastStart >= timing.stagger
                   /\ ended[b] # Never => tries[b] > 0 /\ clock - ended[b] >= LeastDelay(tries[b])
        <4>1. /\ b \in waiting /\ due[b] <= clock /\ b \in Batches /\ timing.stagger \in Nat
              /\ clock \in Nat /\ due[b] \in Nat /\ ended[b] \in Nat \cup {Never} /\ tries[b] \in Nat
              /\ nextStartAt \in Nat /\ lastStart \in Nat \cup {Never} /\ TimingOK
          BY <3>2, <3>3, <3>5 DEF PacingInv, PacingTypeOK, TimingOK, Ready
        <4>2. tries[b] > 0 => LeastDelay(tries[b]) \in Int
          BY <4>1, BackoffType DEF LeastDelay, TimingOK
        <4>3. QED
          BY <3>3, <4>1, <4>2 DEF PacingInv, Delayed, Never
      <3>6. ASSUME NEW b \in launched, timing.stagger > 0 PROVE launched = {b}
        <4>1. IsFiniteSet(launched)
          BY <3>3, BatchesAssumption, FS_Subset DEF PacingInv, PacingTypeOK, Ready
        <4>2. \E x : launched = {x}
          BY <3>3, <3>6, <4>1, FS_Singleton
        <4>3. QED
          BY <4>2
      <3>7. \A b \in Batches : due'[b] <= clock + timing.maximum
        BY <3>2 DEF PacingInv, Delayed
      <3>8. QED
        BY <3>4, <3>5, <3>6, <3>7
    <2>2. ASSUME NEW b \in Batches, SettleBatch(b) PROVE Paced
      <3>1. active' \subseteq active /\ stage' = stage /\ stage = "handling"
            /\ clock' = clock /\ timing' = timing
        BY <2>2 DEF SettleBatch, PacingInv, Place
      <3>2. \A c \in Batches : due'[c] <= clock + timing.maximum
        BY <3>1 DEF PacingInv, Delayed
      <3>3. QED
        BY <3>1, <3>2
    <2>3. CASE \/ BeginLoop \/ EndLoop \/ CollectFutures \/ GoToSleep \/ WakeUp \/ Tick \/ Rest
               \/ \E b \in Batches : RsyncEnds(b)
      BY <2>3 DEF BeginLoop, EndLoop, CollectFutures, GoToSleep, WakeUp, Tick, Rest, RsyncEnds, pacingVars
    <2>4. QED
      BY <2>1, <2>2, <2>3 DEF PacingNext
  <1>2. QED
    BY <1>1, PacingInvariant, PTL DEF PacingSpec, StartsArePaced

-----------------------------------------------------------------------------
(* The rate *)

Samples == [at : Nat, bytes : Nat]

LEMMA LastFallIs ==
  ASSUME NEW added \in Seq(Samples), added # <<>>
  PROVE  /\ LastFall(added) \in 1..Len(added)
         /\ LastFall(added) \in Falls(added) \cup {1}
         /\ \A i \in Falls(added) : i <= LastFall(added)
  <1>1. Falls(added) \cup {1} \in SUBSET (0..Len(added)) /\ Len(added) \in Nat \ {0}
    BY DEF Falls
  <1>2. \E i \in Falls(added) \cup {1} : \A j \in Falls(added) \cup {1} : j <= i
    BY <1>1, GreatestIndex
  <1>3. /\ LastFall(added) \in Falls(added) \cup {1}
        /\ \A i \in Falls(added) : i <= LastFall(added)
    BY <1>2 DEF LastFall
  <1>4. QED
    BY <1>1, <1>3 DEF Falls

LEMMA BaseIndexIs ==
  ASSUME NEW added \in Seq(Samples), added # <<>>
  PROVE  /\ BaseIndex(added) \in LastFall(added)..Len(added)
         /\ BaseIndex(added) \in Old(added) \cup {LastFall(added)}
         /\ \A i \in Old(added) : i <= BaseIndex(added)
  <1>1. LastFall(added) \in 1..Len(added) /\ Len(added) \in Nat
    BY LastFallIs
  <1>2. Old(added) \cup {LastFall(added)} \in SUBSET (0..Len(added))
    BY <1>1 DEF Old
  <1>3. \E i \in Old(added) \cup {LastFall(added)} :
          \A j \in Old(added) \cup {LastFall(added)} : j <= i
    BY <1>1, <1>2, GreatestIndex
  <1>4. /\ BaseIndex(added) \in Old(added) \cup {LastFall(added)}
        /\ \A i \in Old(added) : i <= BaseIndex(added)
    BY <1>3 DEF BaseIndex
  <1>5. QED
    BY <1>1, <1>4 DEF Old

-----------------------------------------------------------------------------
(* The popleft loop leaves an end of the deque.                            *)
LEMMA TrimmedIs ==
  ASSUME NEW deque \in Seq(Samples), deque # <<>>, NEW cutoff \in Int
  PROVE  LET dropped == {i \in 1..Len(deque) - 2 : deque[i + 1].at <= cutoff}
         IN \E first \in dropped \cup {0} :
              /\ \A j \in dropped : j <= first
              /\ Trimmed(deque, cutoff) = SubSeq(deque, first + 1, Len(deque))
  <1> DEFINE dropped == {i \in 1..Len(deque) - 2 : deque[i + 1].at <= cutoff}
             first == CHOOSE i \in 0..Len(deque) : i \in dropped \cup {0} /\ \A j \in dropped : j <= i
  <1>1. Len(deque) \in Nat /\ dropped \cup {0} \in SUBSET (0..Len(deque))
    OBVIOUS
  <1>2. \E i \in dropped \cup {0} : \A j \in dropped \cup {0} : j <= i
    BY <1>1, GreatestIndex
  <1>3. \E i \in 0..Len(deque) : i \in dropped \cup {0} /\ \A j \in dropped : j <= i
    BY <1>1, <1>2
  <1> HIDE DEF dropped
  <1>4. first \in dropped \cup {0} /\ \A j \in dropped : j <= first
    BY <1>3
  <1>5. Trimmed(deque, cutoff) = SubSeq(deque, first + 1, Len(deque))
    BY DEF Trimmed, dropped
  <1>6. QED
    BY <1>4, <1>5 DEF dropped

-----------------------------------------------------------------------------
(* The deque is what was added from the base of the rate on.               *)
RateInv ==
  /\ everAdded \in Seq(Samples)
  /\ \A i, j \in 1..Len(everAdded) : i <= j => everAdded[i].at <= everAdded[j].at
  /\ samples = IF everAdded = <<>> THEN <<>> ELSE SubSeq(everAdded, BaseIndex(everAdded), Len(everAdded))
  /\ everAdded # <<>> => rate = RateOf(samples)

(* What is added later is at the end, and a fall in it is a fall of the    *)
(* whole.                                                                  *)
LEMMA AddedKeeps ==
  ASSUME RateInv, NEW sample \in Samples, everAdded' = Append(everAdded, sample),
         everAdded # <<>> => Last(everAdded).at <= sample.at
  PROVE  /\ everAdded' \in Seq(Samples) /\ everAdded' # <<>>
         /\ Len(everAdded') = Len(everAdded) + 1 /\ Len(everAdded) \in Nat
         /\ everAdded'[Len(everAdded) + 1] = sample
         /\ \A i \in 1..Len(everAdded) : everAdded'[i] = everAdded[i]
         /\ \A i, j \in 1..Len(everAdded') : i <= j => everAdded'[i].at <= everAdded'[j].at
  <1>1. /\ everAdded' \in Seq(Samples) /\ everAdded' # <<>>
        /\ Len(everAdded') = Len(everAdded) + 1 /\ Len(everAdded) \in Nat
        /\ everAdded'[Len(everAdded) + 1] = sample
        /\ \A i \in 1..Len(everAdded) : everAdded'[i] = everAdded[i]
    BY DEF RateInv
  <1>2. ASSUME NEW i \in 1..Len(everAdded'), NEW j \in 1..Len(everAdded'), i <= j
        PROVE  everAdded'[i].at <= everAdded'[j].at
    <2>1. \A k \in 1..Len(everAdded') : everAdded'[k].at \in Nat
      <3>1. \A k \in 1..Len(everAdded') : everAdded'[k] \in Samples
        BY <1>1
      <3>2. QED
        BY <3>1 DEF Samples
    <2>2. CASE j <= Len(everAdded)
      BY <1>1, <1>2, <2>2 DEF RateInv
    <2>3. CASE j = Len(everAdded) + 1 /\ i <= Len(everAdded)
      <3>1. everAdded # <<>> /\ Len(everAdded) \in 1..Len(everAdded) /\ i \in 1..Len(everAdded)
        BY <1>1, <1>2, <2>3
      <3>2. everAdded[i].at <= everAdded[Len(everAdded)].at
        BY <1>1, <3>1 DEF RateInv
      <3>3. everAdded[Len(everAdded)].at <= sample.at
        BY <3>1 DEF Last
      <3>4. everAdded'[i] = everAdded[i] /\ everAdded'[Len(everAdded)] = everAdded[Len(everAdded)]
            /\ everAdded'[j] = sample
        BY <1>1, <2>3, <3>1
      <3>5. everAdded'[i].at \in Nat /\ everAdded'[Len(everAdded)].at \in Nat /\ everAdded'[j].at \in Nat
        BY <1>1, <2>1, <2>3
      <3>6. QED
        BY <3>2, <3>3, <3>4, <3>5
    <2>4. CASE i = Len(everAdded) + 1 /\ j = Len(everAdded) + 1
      BY <1>1, <2>1, <2>4
    <2>5. QED
      BY <1>1, <1>2, <2>2, <2>3, <2>4
  <1>3. QED
    BY <1>1, <1>2

(* One sample more, and not fewer bytes.                                   *)
Grown(added, sample, longer) ==
  /\ added \in Seq(Samples) /\ Len(added) \in Nat \ {0}
  /\ sample \in Samples
  /\ longer \in Seq(Samples) /\ Len(longer) = Len(added) + 1
  /\ longer[Len(added) + 1] = sample
  /\ \A i \in 1..Len(added) : longer[i] = added[i]
  /\ added[Len(added)].at <= sample.at /\ added[Len(added)].bytes <= sample.bytes

(* The base moves on to the last sample before the cutoff.                 *)
MovesBy(added, sample, longer, first) ==
  /\ first \in Nat
  /\ first # 0 => /\ BaseIndex(added) + first <= Len(added)
                  /\ longer[BaseIndex(added) + first].at <= sample.at - WindowSeconds
  /\ \A i \in BaseIndex(added) + 1..Len(added) :
       longer[i].at <= sample.at - WindowSeconds => i <= BaseIndex(added) + first

LEMMA BaseMoves ==
  ASSUME NEW added, NEW sample, NEW longer, NEW first,
         Grown(added, sample, longer), MovesBy(added, sample, longer, first)
  PROVE  BaseIndex(longer) = BaseIndex(added) + first
  <1>0. PICK n : n = Len(added)
    OBVIOUS
  <1>b. PICK B : B = BaseIndex(added)
    OBVIOUS
  <1>g. /\ n \in Nat \ {0} /\ added \in Seq(Samples) /\ Len(added) = n
        /\ sample \in Samples /\ longer \in Seq(Samples) /\ Len(longer) = n + 1
        /\ longer[n + 1] = sample /\ \A i \in 1..n : longer[i] = added[i]
        /\ added[n].at <= sample.at /\ added[n].bytes <= sample.bytes
    BY <1>0 DEF Grown
  <1>m. /\ first \in Nat
        /\ first # 0 => B + first <= n /\ longer[B + first].at <= sample.at - WindowSeconds
        /\ \A i \in B + 1..n : longer[i].at <= sample.at - WindowSeconds => i <= B + first
    BY <1>0, <1>b DEF MovesBy
  <1>1. \A i \in 1..n : added[i].at \in Nat /\ added[i].bytes \in Nat
    <2>1. \A i \in 1..n : added[i] \in Samples
      BY <1>g
    <2>2. QED
      BY <2>1 DEF Samples
  <1>2. sample.at \in Nat /\ sample.bytes \in Nat /\ WindowSeconds \in Nat
    BY <1>g, RateAssumption DEF Samples
  <1>3. LastFall(longer) = LastFall(added)
    <2>1. Falls(longer) = Falls(added)
      BY <1>g, <1>1, <1>2 DEF Falls
    <2>2. QED
      BY <2>1 DEF LastFall
  <1>4. PICK k : k = LastFall(added)
    OBVIOUS
  <1>5. PICK C : C = BaseIndex(longer)
    OBVIOUS
  <1>6. Old(longer) = {i \in k..n : longer[i].at <= sample.at - WindowSeconds}
    BY <1>g, <1>3, <1>4 DEF Old, Last
  <1>7. Old(added) = {i \in k..n - 1 : added[i].at <= added[n].at - WindowSeconds}
    BY <1>g, <1>4 DEF Old, Last
  <1>8. k \in 1..n /\ B \in k..n /\ B \in Old(added) \cup {k}
    BY <1>g, <1>b, <1>4, LastFallIs, BaseIndexIs
  <1>9. /\ C \in k..(n + 1)
        /\ C \in Old(longer) \cup {k}
        /\ \A i \in Old(longer) : i <= C
    BY <1>g, <1>3, <1>4, <1>5, BaseIndexIs
  <1>10. B \in Old(longer) \cup {k}
    <2>1. CASE B = k
      BY <2>1
    <2>2. CASE B \in Old(added)
      <3>1. B \in k..n - 1 /\ added[B].at <= added[n].at - WindowSeconds
        BY <2>2, <1>7
      <3>2. B \in k..n /\ B \in 1..n /\ n \in 1..n
        BY <3>1, <1>g, <1>8
      <3>3. longer[B].at = added[B].at /\ added[n].at <= sample.at
        BY <3>2, <1>g
      <3>4. added[B].at \in Nat /\ added[n].at \in Nat
        BY <3>2, <1>1
      <3>5. longer[B].at <= sample.at - WindowSeconds
        BY <3>1, <3>3, <3>4, <1>2
      <3>6. QED
        BY <3>2, <3>5, <1>6
    <2>3. QED
      BY <2>1, <2>2, <1>8
  <1>11. B + first <= C
    BY <1>g, <1>m, <1>6, <1>8, <1>9, <1>10
  <1>12. C <= B + first
    BY <1>g, <1>m, <1>6, <1>8, <1>9
  <1>13. QED
    BY <1>g, <1>b, <1>m, <1>5, <1>8, <1>9, <1>11, <1>12

(* The deque with the new sample.                                          *)
LEMMA DequeGrows ==
  ASSUME NEW added, NEW sample, NEW longer, Grown(added, sample, longer),
         NEW B \in 1..Len(added)
  PROVE  Append(SubSeq(added, B, Len(added)), sample) = SubSeq(longer, B, Len(added) + 1)
  <1>0. PICK n : n = Len(added)
    OBVIOUS
  <1> /\ n \in Nat \ {0} /\ added \in Seq(Samples) /\ Len(added) = n
      /\ sample \in Samples /\ longer \in Seq(Samples) /\ Len(longer) = n + 1
      /\ longer[n + 1] = sample /\ \A i \in 1..n : longer[i] = added[i]
      /\ B \in 1..n
    BY <1>0 DEF Grown
  <1>1. PICK deque : deque = SubSeq(added, B, n)
    OBVIOUS
  <1>2. PICK grown : grown = SubSeq(longer, B, n + 1)
    OBVIOUS
  <1>3. /\ deque \in Seq(Samples) /\ Len(deque) = n - B + 1
        /\ \A i \in 1..n - B + 1 : deque[i] = added[B + i - 1]
    <2>1. \A i \in B..n : added[i] \in Samples
      OBVIOUS
    <2>2. QED
      BY <1>1, <2>1, SubSeqProperties
  <1>4. /\ grown \in Seq(Samples) /\ Len(grown) = n + 2 - B
        /\ \A i \in 1..n + 2 - B : grown[i] = longer[B + i - 1]
    <2>1. \A i \in B..n + 1 : longer[i] \in Samples
      OBVIOUS
    <2>2. /\ SubSeq(longer, B, n + 1) \in Seq(Samples)
          /\ Len(SubSeq(longer, B, n + 1)) = (n + 1) - B + 1
          /\ \A i \in 1..(n + 1) - B + 1 : SubSeq(longer, B, n + 1)[i] = longer[B + i - 1]
      BY <2>1, SubSeqProperties
    <2>3. QED
      BY <1>2, <2>2
  <1>5. /\ Append(deque, sample) \in Seq(Samples)
        /\ Len(Append(deque, sample)) = n + 2 - B
        /\ \A i \in 1..n - B + 1 : Append(deque, sample)[i] = deque[i]
        /\ Append(deque, sample)[n + 2 - B] = sample
    BY <1>3, AppendProperties
  <1>6. \A i \in 1..n + 2 - B : Append(deque, sample)[i] = grown[i]
    <2> SUFFICES ASSUME NEW i \in 1..n + 2 - B PROVE Append(deque, sample)[i] = grown[i]
      OBVIOUS
    <2>1. CASE i \in 1..n - B + 1
      <3>1. B + i - 1 \in 1..n
        BY <2>1
      <3>2. longer[B + i - 1] = added[B + i - 1]
        BY <3>1
      <3>3. QED
        BY <1>3, <1>4, <1>5, <2>1, <3>2
    <2>2. CASE i = n + 2 - B
      BY <1>4, <1>5, <2>2
    <2>3. i \in 1..n - B + 1 \/ i = n + 2 - B
      OBVIOUS
    <2>4. QED
      BY <2>1, <2>2, <2>3
  <1>7. Append(deque, sample) = grown
    BY <1>4, <1>5, <1>6, SeqEqual
  <1>8. QED
    BY <1>0, <1>1, <1>2, <1>7

LEMMA RisingKeeps ==
  ASSUME RateInv, everAdded # <<>>, NEW sample \in Samples, everAdded' = Append(everAdded, sample),
         Last(everAdded).at <= sample.at, Last(everAdded).bytes <= sample.bytes
  PROVE  Trimmed(Append(samples, sample), sample.at - WindowSeconds)
           = SubSeq(everAdded', BaseIndex(everAdded'), Len(everAdded'))
  <1>1. PICK n : n = Len(everAdded)
    OBVIOUS
  <1>2. PICK B : B = BaseIndex(everAdded)
    OBVIOUS
  <1>3. PICK longer : longer = everAdded'
    OBVIOUS
  <1>4. /\ longer \in Seq(Samples) /\ Len(longer) = n + 1 /\ n \in Nat \ {0}
        /\ longer[n + 1] = sample /\ \A i \in 1..n : longer[i] = everAdded[i]
        /\ everAdded \in Seq(Samples)
        /\ everAdded[n].at <= sample.at /\ everAdded[n].bytes <= sample.bytes
    BY <1>1, <1>3, AddedKeeps DEF RateInv, Last
  <1>g. Grown(everAdded, sample, longer)
    BY <1>1, <1>4 DEF Grown
  <1>5. B \in 1..n
    BY <1>1, <1>2, <1>4, LastFallIs, BaseIndexIs
  <1>6. PICK deque : deque = Append(samples, sample)
    OBVIOUS
  <1>7. /\ deque = SubSeq(longer, B, n + 1)
        /\ deque \in Seq(Samples) /\ Len(deque) = n + 2 - B /\ deque # <<>>
        /\ \A i \in 1..n + 2 - B : deque[i] = longer[B + i - 1]
    <2>1. samples = SubSeq(everAdded, B, n)
      BY <1>1, <1>2 DEF RateInv
    <2>2. PICK grown : grown = SubSeq(longer, B, n + 1)
      OBVIOUS
    <2>3. /\ Append(samples, sample) = grown
          /\ grown \in Seq(Samples)
          /\ Len(grown) = n + 2 - B
          /\ \A i \in 1..n + 2 - B : grown[i] = longer[B + i - 1]
      <3>1. B \in 1..Len(everAdded)
        BY <1>1, <1>5
      <3>2. Append(SubSeq(everAdded, B, Len(everAdded)), sample) = SubSeq(longer, B, Len(everAdded) + 1)
        BY <1>g, <3>1, DequeGrows, Zenon
      <3>3. Append(samples, sample) = grown
        BY <1>1, <2>1, <2>2, <3>2
      <3>4. \A i \in B..n + 1 : longer[i] \in Samples
        BY <1>4, <1>5
      <3>5. /\ SubSeq(longer, B, n + 1) \in Seq(Samples)
            /\ Len(SubSeq(longer, B, n + 1)) = (n + 1) - B + 1
            /\ \A i \in 1..(n + 1) - B + 1 : SubSeq(longer, B, n + 1)[i] = longer[B + i - 1]
        BY <1>4, <1>5, <3>4, SubSeqProperties
      <3>6. (n + 1) - B + 1 = n + 2 - B
        BY <1>4, <1>5
      <3>7. /\ grown \in Seq(Samples) /\ Len(grown) = n + 2 - B
            /\ \A i \in 1..n + 2 - B : grown[i] = longer[B + i - 1]
        BY <2>2, <3>5, <3>6
      <3>8. QED
        BY <3>3, <3>7, Zenon
    <2>4. n + 2 - B # 0
      BY <1>4, <1>5
    <2>5. deque # <<>>
      BY <1>6, <2>3, <2>4
    <2>6. QED
      BY <1>6, <2>2, <2>3, <2>5
  <1>8. PICK cutoff \in Int : cutoff = sample.at - WindowSeconds
    BY RateAssumption DEF Samples
  <1>9. PICK first \in {i \in 1..Len(deque) - 2 : deque[i + 1].at <= cutoff} \cup {0} :
          /\ \A j \in {i \in 1..Len(deque) - 2 : deque[i + 1].at <= cutoff} : j <= first
          /\ Trimmed(deque, cutoff) = SubSeq(deque, first + 1, Len(deque))
    BY <1>7, TrimmedIs
  <1>10. first \in Nat /\ first <= n - B
    BY <1>4, <1>5, <1>7, <1>9
  <1>11. first # 0 => longer[B + first].at <= cutoff
    BY <1>4, <1>5, <1>7, <1>9, <1>10
  <1>12. ASSUME NEW i \in B + 1..n, longer[i].at <= cutoff PROVE i <= B + first
    <2>1. i - B \in 1..Len(deque) - 2 /\ deque[i - B + 1] = longer[i]
      BY <1>4, <1>5, <1>7
    <2>2. i - B <= first
      BY <1>9, <1>12, <2>1
    <2>3. QED
      BY <1>4, <1>5, <1>10, <2>2
  <1>13. BaseIndex(longer) = B + first
    <2>1. first # 0 => B + first <= n /\ longer[B + first].at <= sample.at - WindowSeconds
      BY <1>4, <1>5, <1>8, <1>10, <1>11
    <2>2. \A i \in B + 1..n : longer[i].at <= sample.at - WindowSeconds => i <= B + first
      BY <1>8, <1>12
    <2>3. MovesBy(everAdded, sample, longer, first)
      BY <1>1, <1>2, <1>10, <2>1, <2>2 DEF MovesBy
    <2>4. QED
      BY <1>2, <1>g, <2>3, BaseMoves
  <1>14. SubSeq(deque, first + 1, Len(deque)) = SubSeq(longer, B + first, n + 1)
    <2>1. PICK left : left = SubSeq(deque, first + 1, n + 2 - B)
      OBVIOUS
    <2>2. PICK right : right = SubSeq(longer, B + first, n + 1)
      OBVIOUS
    <2>3. PICK length : length = n + 2 - B - first
      OBVIOUS
    <2>4. /\ left \in Seq(Samples) /\ Len(left) = length
          /\ \A i \in 1..length : left[i] = deque[first + i]
      <3>1. \A i \in first + 1..n + 2 - B : deque[i] \in Samples
        BY <1>4, <1>5, <1>7, <1>10
      <3>2. QED
        BY <1>4, <1>5, <1>10, <2>1, <2>3, <3>1, SubSeqProperties
    <2>5. /\ right \in Seq(Samples) /\ Len(right) = length
          /\ \A i \in 1..length : right[i] = longer[B + first + i - 1]
      <3>1. \A i \in B + first..n + 1 : longer[i] \in Samples
        BY <1>4, <1>5, <1>10
      <3>2. QED
        BY <1>4, <1>5, <1>10, <2>2, <2>3, <3>1, SubSeqProperties
    <2>6. \A i \in 1..length : left[i] = right[i]
      BY <1>4, <1>5, <1>7, <1>10, <2>3, <2>4, <2>5
    <2>7. left = right
      BY <2>4, <2>5, <2>6, SeqEqual
    <2>8. QED
      BY <1>7, <2>1, <2>2, <2>7
  <1>15. QED
    BY <1>3, <1>4, <1>6, <1>8, <1>9, <1>13, <1>14

LEMMA OneElement ==
  ASSUME NEW s \in Seq(Samples), Len(s) = 1
  PROVE  s = <<s[1]>>
  <1>1. s[1] \in Samples
    <2>1. 1 \in 1..Len(s)
      OBVIOUS
    <2>2. QED
      BY <2>1, ElementOfSeq
  <1>2. PICK one : one = <<s[1]>>
    OBVIOUS
  <1>3. one \in Seq(Samples) /\ Len(one) = 1 /\ one[1] = s[1]
    BY <1>1, <1>2
  <1>4. \A i \in 1..Len(s) : s[i] = one[i]
    BY <1>3
  <1>5. s = one
    BY <1>3, <1>4, SeqEqual
  <1>6. QED
    BY <1>2, <1>5

(* A new window is the new sample alone.                                   *)
LEMMA WindowOfOne ==
  ASSUME NEW sample \in Samples, NEW cutoff \in Int
  PROVE  Trimmed(Append(<<>>, sample), cutoff) = <<sample>>
  <1>1. /\ Append(<<>>, sample) = <<sample>> /\ <<sample>> \in Seq(Samples)
        /\ Len(<<sample>>) = 1 /\ <<sample>> # <<>> /\ <<sample>>[1] = sample
    OBVIOUS
  <1>2. PICK first \in {i \in 1..Len(<<sample>>) - 2 : <<sample>>[i + 1].at <= cutoff} \cup {0} :
          Trimmed(<<sample>>, cutoff) = SubSeq(<<sample>>, first + 1, Len(<<sample>>))
    BY <1>1, TrimmedIs
  <1>3. first = 0
    BY <1>1, <1>2
  <1>4. SubSeq(<<sample>>, 1, 1) = <<sample>>
    <2>1. PICK all : all = <<sample>>
      OBVIOUS
    <2>2. all \in Seq(Samples) /\ Len(all) = 1 /\ all[1] = sample
      BY <1>1, <2>1
    <2>3. /\ SubSeq(all, 1, 1) \in Seq(Samples)
          /\ Len(SubSeq(all, 1, 1)) = 1 - 1 + 1
          /\ \A i \in 1..1 - 1 + 1 : SubSeq(all, 1, 1)[i] = all[1 + i - 1]
      <3>1. \A i \in 1..1 : all[i] \in Samples
        BY <2>2
      <3>2. QED
        BY <3>1, SubSeqProperties
    <2>4. PICK part : part = SubSeq(all, 1, 1)
      OBVIOUS
    <2>5. part \in Seq(Samples) /\ Len(part) = 1 /\ part[1] = sample
      BY <2>2, <2>3, <2>4
    <2>6. part = <<part[1]>>
      BY <2>5, OneElement
    <2>7. QED
      BY <2>1, <2>4, <2>5, <2>6
  <1>5. QED
    BY <1>1, <1>2, <1>3, <1>4

LEMMA BaseOfNewWindow ==
  ASSUME NEW added \in Seq(Samples), added # <<>>,
         Len(added) = 1 \/ added[Len(added)].bytes < added[Len(added) - 1].bytes
  PROVE  SubSeq(added, BaseIndex(added), Len(added)) = <<Last(added)>>
  <1>1. PICK n \in Nat \ {0} : n = Len(added)
    OBVIOUS
  <1>2. LastFall(added) = n
    <2>1. LastFall(added) \in 1..n /\ \A i \in Falls(added) : i <= LastFall(added)
      BY <1>1, LastFallIs
    <2>2. CASE n = 1
      BY <2>1, <2>2
    <2>3. CASE n # 1
      <3>1. n \in Falls(added)
        BY <1>1, <2>3 DEF Falls
      <3>2. QED
        BY <1>1, <2>1, <3>1
    <2>4. QED
      BY <2>2, <2>3
  <1>3. BaseIndex(added) = n
    BY <1>1, <1>2, BaseIndexIs
  <1>4. /\ SubSeq(added, n, n) \in Seq(Samples) /\ Len(SubSeq(added, n, n)) = 1
        /\ SubSeq(added, n, n)[1] = added[n]
    <2>1. \A i \in n..n : added[i] \in Samples
      BY <1>1
    <2>2. /\ SubSeq(added, n, n) \in Seq(Samples)
          /\ Len(SubSeq(added, n, n)) = n - n + 1
          /\ \A i \in 1..n - n + 1 : SubSeq(added, n, n)[i] = added[n + i - 1]
      BY <1>1, <2>1, SubSeqProperties
    <2>3. QED
      BY <1>1, <2>2
  <1>5. SubSeq(added, n, n) = <<added[n]>>
    BY <1>4, OneElement
  <1>6. QED
    BY <1>1, <1>3, <1>5 DEF Last

(* The deque ends with the sample added last.                              *)
LEMMA DequeEnds ==
  ASSUME RateInv, everAdded # <<>>
  PROVE  /\ samples \in Seq(Samples) /\ samples # <<>>
         /\ Len(samples) = Len(everAdded) - BaseIndex(everAdded) + 1
         /\ Head(samples) = everAdded[BaseIndex(everAdded)]
         /\ Last(samples) = Last(everAdded)
  <1>1. PICK n \in Nat \ {0} : n = Len(everAdded)
    BY DEF RateInv
  <1>2. PICK B : B = BaseIndex(everAdded)
    OBVIOUS
  <1>3. everAdded \in Seq(Samples) /\ samples = SubSeq(everAdded, B, n)
    BY <1>1, <1>2 DEF RateInv
  <1>4. B \in 1..n
    BY <1>1, <1>2, <1>3, LastFallIs, BaseIndexIs
  <1>5. /\ samples \in Seq(Samples) /\ Len(samples) = n - B + 1
        /\ \A i \in 1..n - B + 1 : samples[i] = everAdded[B + i - 1]
    <2>1. \A i \in B..n : everAdded[i] \in Samples
      BY <1>1, <1>3, <1>4
    <2>2. QED
      BY <1>1, <1>3, <1>4, <2>1, SubSeqProperties
  <1>6. samples[1] = everAdded[B] /\ samples[n - B + 1] = everAdded[n] /\ n - B + 1 # 0
    BY <1>1, <1>4, <1>5
  <1>7. samples # <<>> /\ Head(samples) = samples[1]
    BY <1>5, <1>6
  <1>8. QED
    BY <1>1, <1>2, <1>5, <1>6, <1>7 DEF Last

LEMMA AddSampleKeeps ==
  ASSUME RateInv, NEW now \in Nat, NEW count \in Nat, AddSample(now, count),
         everAdded # <<>> => Last(everAdded).at <= now
  PROVE  RateInv'
  <1>1. PICK sample \in Samples : sample = [at |-> now, bytes |-> count]
    BY DEF Samples
  <1>2. sample.at = now /\ sample.bytes = count
    BY <1>1
  <1>3. /\ samples' = Trimmed(Append(ClearedIfFallen(samples, count), sample), sample.at - WindowSeconds)
        /\ everAdded' = Append(everAdded, sample)
        /\ rate' = RateOf(samples')
    BY <1>1, <1>2 DEF AddSample
  <1>4. /\ everAdded' \in Seq(Samples) /\ everAdded' # <<>>
        /\ Len(everAdded') = Len(everAdded) + 1 /\ Len(everAdded) \in Nat
        /\ everAdded'[Len(everAdded) + 1] = sample
        /\ \A i \in 1..Len(everAdded) : everAdded'[i] = everAdded[i]
        /\ \A i, j \in 1..Len(everAdded') : i <= j => everAdded'[i].at <= everAdded'[j].at
    BY <1>2, <1>3, AddedKeeps
  <1>5. sample.at - WindowSeconds \in Int
    BY <1>2, RateAssumption
  <1>6. samples' = SubSeq(everAdded', BaseIndex(everAdded'), Len(everAdded'))
    <2>1. CASE everAdded = <<>> \/ (everAdded # <<>> /\ count < Last(everAdded).bytes)
      <3>1. ClearedIfFallen(samples, count) = <<>>
        BY <2>1, DequeEnds DEF ClearedIfFallen, RateInv
      <3>2. samples' = <<sample>>
        BY <1>3, <1>5, <3>1, WindowOfOne
      <3>3. PICK longer : longer = everAdded'
        OBVIOUS
      <3>4. Len(longer) = 1 \/ longer[Len(longer)].bytes < longer[Len(longer) - 1].bytes
        BY <1>2, <1>4, <2>1, <3>3 DEF Last
      <3>5. SubSeq(longer, BaseIndex(longer), Len(longer)) = <<Last(longer)>>
        BY <1>4, <3>3, <3>4, BaseOfNewWindow
      <3>6. Last(longer) = sample
        BY <1>4, <3>3 DEF Last
      <3>7. QED
        BY <3>2, <3>3, <3>5, <3>6
    <2>2. CASE everAdded # <<>> /\ ~(count < Last(everAdded).bytes)
      <3>1. ClearedIfFallen(samples, count) = samples
        BY <2>2, DequeEnds DEF ClearedIfFallen
      <3>2. Last(everAdded) \in Samples
        BY <2>2 DEF Last, RateInv
      <3>3. Last(everAdded).at <= sample.at /\ Last(everAdded).bytes <= sample.bytes
        BY <1>2, <2>2, <3>2 DEF Samples
      <3>4. QED
        BY <1>3, <2>2, <3>1, <3>3, RisingKeeps
    <2>3. QED
      BY <2>1, <2>2
  <1>7. QED
    BY <1>3, <1>4, <1>6 DEF RateInv

LEMMA RateStep ==
  ASSUME RateInv, [RateNext]_rateVars
  PROVE  RateInv'
  <1>1. ASSUME NEW gap \in Gaps, NEW count \in 0..MaxBytes,
               AddSample((IF everAdded = <<>> THEN 0 ELSE Last(everAdded).at) + gap, count)
        PROVE  RateInv'
    <2>1. PICK before : before = IF everAdded = <<>> THEN 0 ELSE Last(everAdded).at
      OBVIOUS
    <2>2. before \in Nat
      <3>1. everAdded # <<>> => Last(everAdded) \in Samples
        BY DEF Last, RateInv
      <3>2. QED
        BY <2>1, <3>1 DEF Samples
    <2>3. PICK now : now = before + gap
      OBVIOUS
    <2>4. now \in Nat /\ count \in Nat /\ before <= now
      BY <2>2, <2>3, RateAssumption
    <2>5. AddSample(now, count)
      BY <1>1, <2>1, <2>3
    <2>6. everAdded # <<>> => Last(everAdded).at <= now
      BY <2>1, <2>4
    <2>7. QED
      BY <2>4, <2>5, <2>6, AddSampleKeeps
  <1>2. CASE RestartRate
    BY <1>2 DEF RestartRate, RateInv
  <1>3. CASE UNCHANGED rateVars
    BY <1>3 DEF rateVars, RateInv
  <1>4. QED
    BY <1>1, <1>2, <1>3 DEF RateNext

LEMMA RateInvIsEnough ==
  ASSUME RateInv
  PROVE  RateIsWindowed
  <1> SUFFICES ASSUME everAdded # <<>>
               PROVE  rate = IF Last(everAdded).at = RateBase.at THEN NoRate
                             ELSE [bytes |-> Last(everAdded).bytes - RateBase.bytes,
                                   seconds |-> Last(everAdded).at - RateBase.at]
    BY DEF RateIsWindowed
  <1>1. PICK n \in Nat \ {0} : n = Len(everAdded)
    BY DEF RateInv
  <1>2. PICK B : B = BaseIndex(everAdded)
    OBVIOUS
  <1>3. B \in 1..n
    BY <1>1, <1>2, LastFallIs, BaseIndexIs DEF RateInv
  <1>4. /\ Len(samples) = n - B + 1 /\ Head(samples) = everAdded[B]
        /\ Last(samples) = everAdded[n] /\ Last(everAdded) = everAdded[n]
    BY <1>1, <1>2, DequeEnds DEF Last
  <1>5. RateBase = everAdded[B]
    BY <1>2 DEF RateBase
  <1>6. everAdded[B] \in Samples /\ everAdded[n] \in Samples /\ everAdded[B].at <= everAdded[n].at
    BY <1>1, <1>3 DEF RateInv
  <1>7. Len(samples) < 2 <=> B = n
    BY <1>1, <1>3, <1>4
  <1>8. Len(samples) < 2 \/ everAdded[n].at <= everAdded[B].at <=> everAdded[n].at = everAdded[B].at
    BY <1>6, <1>7 DEF Samples
  <1>9. QED
    BY <1>4, <1>5, <1>8 DEF RateInv, RateOf

(* Whatever samples are added, at whatever times, the rate is that of the  *)
(* bytes since the newest sample before the window, or since the last fall *)
(* of the byte count (progress.py:29-42).                                  *)
THEOREM RateWindowed == RateSpec => []RateIsWindowed
  <1>1. RateInit => RateInv
    BY DEF RateInit, RateInv
  <1>2. RateInv /\ [RateNext]_rateVars => RateInv'
    BY RateStep
  <1>3. RateInv => RateIsWindowed
    BY RateInvIsEnough
  <1>4. QED
    BY <1>1, <1>2, <1>3, PTL DEF RateSpec
=============================================================================
