------------------------------- MODULE Balance -------------------------------
(***************************************************************************)
(* balance_entries (scheduler.py): the files are dealt to the workers      *)
(* largest first, each to the worker with the fewest bytes so far.         *)
(***************************************************************************)
EXTENDS Integers, FiniteSetsExt

CONSTANTS
  Paths,           \* the files of a manifest, numbers that sort like paths
  FileSizes,       \* sizes they may have
  WorkerCounts     \* settings of "workers" that are tried

(* A manifest is finite; config.py refuses less than one worker.           *)
ASSUME FilesToDealAssumption == IsFiniteSet(Paths) /\ Paths \subseteq Int /\ FileSizes \subseteq Nat
ASSUME WorkerCountsAssumption == WorkerCounts \subseteq Nat \ {0}

VARIABLES
  size,            \* path -> size of the files to be transferred
  workers,         \* the setting, 0 between two phases
  undealt,         \* the files the loop has not come to
  bins, loads      \* worker -> its files; the code's sizes

balanceVars == <<size, workers, undealt, bins, loads>>

NoFiles == [p \in {} |-> 0]

(* The bytes of files, each a byte of one of them, and how many they are.  *)
BytesOf(sizes, paths) == UNION {{p} \X (1..sizes[p]) : p \in paths}
Bytes(sizes, paths) == Cardinality(BytesOf(sizes, paths))

(* sorted(entries, key=(-size, path)).                                     *)
SmallerFirst(p, q) == size[p] < size[q] \/ (size[p] = size[q] /\ p < q)  \* faulty variant
Before(p, q) == size[p] > size[q] \/ (size[p] = size[q] /\ p < q)

(* min(range(len(bins)), key=(sizes, candidate)).                          *)
Lightest ==
  LET least == Min({loads[i] : i \in DOMAIN loads})
  IN Min({i \in DOMAIN loads : loads[i] = least})

Bins(entries, count) == 1..Min({count, Max({1, Cardinality(entries)})})

-----------------------------------------------------------------------------

BalanceInit ==
  /\ size = NoFiles /\ workers = 0
  /\ undealt = {} /\ bins = <<>> /\ loads = <<>>

BalanceEntries ==
  /\ workers = 0
  /\ \E entries \in SUBSET Paths :
       /\ size' \in [entries -> FileSizes]
       /\ undealt' = entries
       /\ \E count \in WorkerCounts :
            /\ workers' = count
            /\ bins' = [i \in Bins(entries, count) |-> {}]
            /\ loads' = [i \in Bins(entries, count) |-> 0]

(* The body of the loop.                                                   *)
DealFile ==
  \E p \in undealt :
    /\ \A q \in undealt \ {p} : Before(p, q)
    /\ bins' = [bins EXCEPT ![Lightest] = @ \cup {p}]
    /\ loads' = [loads EXCEPT ![Lightest] = @ + size[p]]
    /\ undealt' = undealt \ {p}
    /\ UNCHANGED <<size, workers>>

(* The phase ends, and the next one has other files left.                  *)
NextPhase ==
  /\ workers # 0 /\ undealt = {}
  /\ size' = NoFiles /\ workers' = 0
  /\ bins' = <<>> /\ loads' = <<>>
  /\ UNCHANGED undealt

BalanceNext == BalanceEntries \/ DealFile \/ NextPhase

BalanceSpec == BalanceInit /\ [][BalanceNext]_balanceVars

-----------------------------------------------------------------------------
(* Properties *)

Dealt == workers # 0 /\ undealt = {}

(* The work items, but for the empty ones: every file is in one of them,   *)
(* and there are at most as many as workers.                               *)
EachFileOnce ==
  Dealt =>
    /\ DOMAIN bins \subseteq 1..workers
    /\ UNION {bins[i] : i \in DOMAIN bins} = DOMAIN size
    /\ \A i, j \in DOMAIN bins : i # j => bins[i] \cap bins[j] = {}

(* No worker has more than another even if any one of its files is taken   *)
(* from it, so to move a file never ends the transfer earlier.             *)
NoMoveHelps ==
  Dealt =>
    \A i, j \in DOMAIN bins : \A p \in bins[i] : Bytes(size, bins[i] \ {p}) <= Bytes(size, bins[j])

(* The heaviest worker of the best assignment of all.                      *)
BestLoad ==
  Min({Max({Bytes(size, {p \in DOMAIN size : assigned[p] = w}) : w \in 1..workers}) :
         assigned \in [DOMAIN size -> 1..workers]})

(* The transfer takes at most a third longer than with the best assignment *)
(* (Graham's bound 4/3 - 1/3m, which needs the order by size).             *)
WithinAThird ==
  Dealt => \A i \in DOMAIN bins : 3 * workers * Bytes(size, bins[i]) <= (4 * workers - 1) * BestLoad

(* The batches share the files out, evenly and close to the best way there *)
(* is (scheduler.py:28-38).                                                *)
NearOptimal == EachFileOnce /\ NoMoveHelps /\ WithinAThird
=============================================================================
