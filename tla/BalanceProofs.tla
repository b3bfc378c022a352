---------------------------- MODULE BalanceProofs ----------------------------
(***************************************************************************)
(* Theorems about Balance, for any files, sizes and numbers of workers,    *)
(* and the facts about numbers that they share with PacingProofs.          *)
(***************************************************************************)
EXTENDS Balance, FiniteSetTheorems, FunctionTheorems, WellFoundedInduction, TLAPS

-----------------------------------------------------------------------------
(* Numbers *)

(* Min of a set of natural numbers is its least element.                   *)
LEMMA MinOfNats ==
  ASSUME NEW S \in SUBSET Nat, S # {}
  PROVE  Min(S) \in S /\ \A m \in S : Min(S) <= m
  <1> DEFINE Less == {p \in Nat \X Nat : p[1] < p[2]}
  <1>1. IsWellFoundedOn(Less, Nat)
    BY NatLessThanWellFounded, Zenon DEF OpToRel
  <1>2. PICK n \in S : \A m \in S : <<m, n>> \notin Less
    <2> HIDE DEF Less
    <2> QED
      BY <1>1, WFMin
  <1>3. ASSUME NEW m \in S PROVE n <= m
    <2>1. m \in Nat /\ n \in Nat /\ <<m, n>> \in Nat \X Nat
      OBVIOUS
    <2>2. <<m, n>> \notin Less
      BY <1>2, Zenon
    <2>3. ~(m < n)
      BY <2>1, <2>2
    <2>4. QED
      BY <2>1, <2>3
  <1>4. QED
    BY <1>3 DEF Min

(* A set of indices has a greatest element.                                *)
LEMMA GreatestIndex ==
  ASSUME NEW n \in Nat, NEW S \in SUBSET (0..n), S # {}
  PROVE  \E i \in S : \A j \in S : j <= i
  <1> DEFINE mirrored == {n - i : i \in S}
  <1>1. mirrored \in SUBSET Nat /\ mirrored # {}
    <2>1. \A i \in S : n - i \in Nat
      OBVIOUS
    <2>2. QED
      BY <2>1
  <1>2. PICK m \in mirrored : \A k \in mirrored : m <= k
    BY <1>1, MinOfNats, Zenon
  <1>3. PICK i \in S : m = n - i
    BY <1>2
  <1>4. ASSUME NEW j \in S PROVE j <= i
    BY <1>2, <1>3
  <1>5. QED
    BY <1>4

LEMMA MaxOfTwo ==
  ASSUME NEW m \in Int, NEW n \in Int
  PROVE  Max({m, n}) = IF m >= n THEN m ELSE n
  BY DEF Max

-----------------------------------------------------------------------------
(* The packing *)

(* Files of a manifest, with their sizes.                                  *)
Sized(sizes, paths) == paths \subseteq Paths /\ \A p \in paths : sizes[p] \in Nat

(* Bytes is the sum of the sizes.                                          *)
LEMMA BytesOfOne ==
  ASSUME NEW sizes, NEW p, sizes[p] \in Nat
  PROVE  IsFiniteSet(BytesOf(sizes, {p})) /\ Bytes(sizes, {p}) = sizes[p]
  <1>1. BytesOf(sizes, {p}) = {p} \X (1..sizes[p])
    BY DEF BytesOf
  <1>2. IsFiniteSet({p}) /\ Cardinality({p}) = 1
    BY FS_Singleton
  <1>3. IsFiniteSet(1..sizes[p]) /\ Cardinality(1..sizes[p]) = sizes[p]
    <2>1. PICK n \in Nat : n = sizes[p]
      OBVIOUS
    <2>2. IsFiniteSet(1..n) /\ Cardinality(1..n) = n
      BY FS_Interval
    <2>3. QED
      BY <2>1, <2>2
  <1>4. /\ IsFiniteSet({p} \X (1..sizes[p]))
        /\ Cardinality({p} \X (1..sizes[p])) = Cardinality({p}) * Cardinality(1..sizes[p])
    BY <1>2, <1>3, FS_Product, Zenon
  <1>5. Cardinality(BytesOf(sizes, {p})) = sizes[p]
    <2>1. Cardinality(BytesOf(sizes, {p})) = Cardinality({p}) * Cardinality(1..sizes[p])
      BY <1>1, <1>4, Zenon
    <2>2. QED
      BY <1>2, <1>3, <2>1
  <1>6. QED
    BY <1>1, <1>4, <1>5, Zenon DEF Bytes

LEMMA BytesFinite ==
  ASSUME NEW sizes, NEW paths, Sized(sizes, paths)
  PROVE  IsFiniteSet(BytesOf(sizes, paths)) /\ Bytes(sizes, paths) \in Nat
  <1>0. \A p \in paths : sizes[p] \in Nat
    BY DEF Sized
  <1>1. IsFiniteSet(paths)
    BY FilesToDealAssumption, FS_Subset DEF Sized
  <1> DEFINE ofFile == [p \in paths |-> {p} \X (1..sizes[p])]
             all == {{p} \X (1..sizes[p]) : p \in paths}
  <1>2. IsFiniteSet(all)
    <2>1. ofFile \in Surjection(paths, all)
      BY DEF Surjection
    <2>2. QED
      BY <1>1, <2>1, FS_Surjection
  <1>3. \A T \in all : IsFiniteSet(T)
    <2> SUFFICES ASSUME NEW p \in paths PROVE IsFiniteSet({p} \X (1..sizes[p]))
      OBVIOUS
    <2>1. sizes[p] \in Nat
      BY <1>0
    <2>2. IsFiniteSet(BytesOf(sizes, {p}))
      BY <2>1, BytesOfOne
    <2>3. QED
      BY <2>2 DEF BytesOf
  <1>4. IsFiniteSet(UNION all)
    BY <1>2, <1>3, FS_UNION
  <1>5. QED
    BY <1>4, FS_CardinalityType DEF Bytes, BytesOf

LEMMA BytesAdd ==
  ASSUME NEW sizes, NEW paths, Sized(sizes, paths), NEW p, p \notin paths, Sized(sizes, {p}), NEW all, all = paths \cup {p}
  PROVE  Bytes(sizes, all) = Bytes(sizes, paths) + sizes[p]
  <1>1. IsFiniteSet(BytesOf(sizes, paths)) /\ Bytes(sizes, paths) \in Nat
    BY BytesFinite
  <1>2. IsFiniteSet(BytesOf(sizes, {p})) /\ Bytes(sizes, {p}) = sizes[p] /\ sizes[p] \in Nat
    BY BytesOfOne DEF Sized
  <1>3. BytesOf(sizes, all) = BytesOf(sizes, paths) \cup BytesOf(sizes, {p})
    BY DEF BytesOf
  <1>4. BytesOf(sizes, paths) \cap BytesOf(sizes, {p}) = {}
    BY DEF BytesOf
  <1>5. Cardinality(BytesOf(sizes, paths) \cup BytesOf(sizes, {p})) =
          Cardinality(BytesOf(sizes, paths)) + Cardinality(BytesOf(sizes, {p})) - Cardinality({})
    <2>1. PICK X, Y : X = BytesOf(sizes, paths) /\ Y = BytesOf(sizes, {p})
      OBVIOUS
    <2>2. IsFiniteSet(X) /\ IsFiniteSet(Y) /\ X \cap Y = {}
      BY <1>1, <1>2, <1>4, <2>1
    <2>3. Cardinality(X \cup Y) = Cardinality(X) + Cardinality(Y) - Cardinality(X \cap Y)
      BY <2>2, FS_Union
    <2>4. QED
      BY <2>1, <2>2, <2>3
  <1>6. Bytes(sizes, all) = Bytes(sizes, paths) + Bytes(sizes, {p}) - Cardinality({})
    BY <1>3, <1>5, Zenon DEF Bytes
  <1>7. QED
    BY <1>1, <1>2, <1>6, FS_EmptySet

LEMMA BytesRemove ==
  ASSUME NEW sizes, NEW paths, Sized(sizes, paths), NEW p \in paths
  PROVE  Bytes(sizes, paths \ {p}) = Bytes(sizes, paths) - sizes[p]
  <1>1. Sized(sizes, paths \ {p}) /\ Sized(sizes, {p}) /\ p \notin paths \ {p} /\ (paths \ {p}) \cup {p} = paths
    BY DEF Sized
  <1>2. Bytes(sizes, paths) = Bytes(sizes, paths \ {p}) + sizes[p]
    BY <1>1, BytesAdd
  <1>3. Bytes(sizes, paths \ {p}) \in Nat /\ Bytes(sizes, paths) \in Nat /\ sizes[p] \in Nat
    BY <1>1, BytesFinite DEF Sized
  <1>4. QED
    BY <1>1, <1>2, <1>3

(* What holds at every step of the loop.                                   *)
Sizes ==
  /\ DOMAIN size \in SUBSET Paths
  /\ \A p \in DOMAIN size : size[p] \in Nat
  /\ undealt \in SUBSET DOMAIN size
  /\ workers \in Nat
  /\ workers = 0 => undealt = {}

(* There are k bins, and the loads are theirs.                             *)
Holds(k) ==
  /\ bins \in [1..k -> SUBSET DOMAIN size] /\ loads \in [1..k -> Nat]
  /\ \A i \in 1..k : loads[i] = Bytes(size, bins[i])
Shape == \E k \in 0..workers : (workers # 0 => k # 0) /\ Holds(k)

(* What the loop has come to is in one of the bins.                        *)
Shared ==
  /\ UNION {bins[i] : i \in DOMAIN bins} = DOMAIN size \ undealt
  /\ \A i, j \in DOMAIN bins : i # j => bins[i] \cap bins[j] = {}

(* The files still to come are the smaller ones, so even without the last  *)
(* file of a bin the others have no less.                                  *)
SmallerToCome == \A i \in DOMAIN bins : \A p \in bins[i], q \in undealt : size[q] <= size[p]
Even == \A i, j \in DOMAIN bins : \A p \in bins[i] : loads[i] - size[p] <= loads[j]

BalanceInv == Sizes /\ Shape /\ Shared /\ SmallerToCome /\ Even

LEMMA LightestIs ==
  ASSUME NEW k \in Nat \ {0}, loads \in [1..k -> Nat]
  PROVE  Lightest \in 1..k /\ \A j \in 1..k : loads[Lightest] <= loads[j]
  <1> DEFINE all == {loads[i] : i \in 1..k}
             least == {i \in 1..k : loads[i] = Min(all)}
  <1>1. all \in SUBSET Nat /\ all # {}
    <2>1. 1 \in 1..k
      OBVIOUS
    <2>2. QED
      BY <2>1
  <1>2. Min(all) \in all /\ \A m \in all : Min(all) <= m
    BY <1>1, MinOfNats
  <1>3. least \in SUBSET Nat /\ least # {}
    <2>1. PICK i \in 1..k : loads[i] = Min(all)
      BY <1>2
    <2>2. i \in least
      BY <2>1
    <2>3. least \in SUBSET Nat
      OBVIOUS
    <2>4. QED
      BY <2>2, <2>3, Zenon
  <1>4. Min(least) \in least
    BY <1>3, MinOfNats
  <1>5. Lightest = Min(least)
    BY DEF Lightest
  <1>6. QED
    BY <1>2, <1>4, <1>5

(* There is a bin, and not more bins than workers.                        *)
LEMMA BinsIs ==
  ASSUME NEW entries \in SUBSET Paths, NEW count \in Nat \ {0}
  PROVE  \E k \in 1..count : Bins(entries, count) = 1..k
  <1>1. Cardinality(entries) \in Nat
    BY FilesToDealAssumption, FS_Subset, FS_CardinalityType
  <1>2. Max({1, Cardinality(entries)}) \in Nat \ {0}
    BY <1>1, MaxOfTwo
  <1>3. Min({count, Max({1, Cardinality(entries)})}) \in 1..count
    <2>1. {count, Max({1, Cardinality(entries)})} \in SUBSET Nat
      BY <1>2
    <2>2. QED
      BY <1>2, <2>1, MinOfNats
  <1>4. QED
    BY <1>3 DEF Bins

LEMMA ShapeIs ==
  ASSUME Shape, workers \in Nat \ {0}
  PROVE  \E k \in 1..workers : Holds(k)
  <1>1. PICK k \in 0..workers : (workers # 0 => k # 0) /\ Holds(k)
    BY DEF Shape
  <1>2. k \in 1..workers
    BY <1>1
  <1>3. QED
    BY <1>1, <1>2, Zenon

(* The step of the loop for one file.                                      *)
Dealing(p, k, i) ==
  /\ p \in undealt /\ k \in 1..workers /\ i \in 1..k
  /\ \A q \in undealt : size[q] <= size[p]
  /\ Holds(k)
  /\ \A j \in 1..k : loads[i] <= loads[j] /\ p \notin bins[j]
  /\ bins' \in [1..k -> SUBSET DOMAIN size] /\ loads' \in [1..k -> Nat]
  /\ bins'[i] = bins[i] \cup {p} /\ loads'[i] = loads[i] + size[p]
  /\ \A j \in 1..k \ {i} : bins'[j] = bins[j] /\ loads'[j] = loads[j]
  /\ undealt' = undealt \ {p} /\ size' = size /\ workers' = workers

LEMMA DealIs ==
  ASSUME BalanceInv, DealFile
  PROVE  \E p, k, i : Dealing(p, k, i)
  <1>1. PICK p \in undealt :
          /\ \A q \in undealt \ {p} : Before(p, q)
          /\ bins' = [bins EXCEPT ![Lightest] = @ \cup {p}]
          /\ loads' = [loads EXCEPT ![Lightest] = @ + size[p]]
          /\ undealt' = undealt \ {p}
          /\ size' = size /\ workers' = workers
    BY DEF DealFile
  <1>2. /\ \A q \in DOMAIN size : size[q] \in Nat
        /\ undealt \in SUBSET DOMAIN size /\ p \in DOMAIN size
        /\ workers \in Nat \ {0}
    BY DEF BalanceInv, Sizes
  <1>3. PICK k \in 1..workers : Holds(k)
    BY <1>2, ShapeIs DEF BalanceInv
  <1>4. PICK i : i = Lightest
    OBVIOUS
  <1>5. bins \in [1..k -> SUBSET DOMAIN size] /\ loads \in [1..k -> Nat]
    BY <1>3 DEF Holds
  <1>6. i \in 1..k /\ \A j \in 1..k : loads[i] <= loads[j]
    BY <1>2, <1>4, <1>5, LightestIs
  <1>7. /\ bins' \in [1..k -> SUBSET DOMAIN size] /\ loads' \in [1..k -> Nat]
        /\ bins'[i] = bins[i] \cup {p} /\ loads'[i] = loads[i] + size[p]
        /\ \A j \in 1..k \ {i} : bins'[j] = bins[j] /\ loads'[j] = loads[j]
    BY <1>1, <1>2, <1>4, <1>5, <1>6
  <1>8. \A j \in 1..k : p \notin bins[j]
    BY <1>2, <1>5 DEF BalanceInv, Shared
  <1>9. \A q \in undealt : size[q] <= size[p]
    BY <1>1, <1>2 DEF Before
  <1>10. Dealing(p, k, i)
    BY <1>1, <1>3, <1>6, <1>7, <1>8, <1>9 DEF Dealing
  <1>11. QED
    BY <1>10

(* The smallest file so far goes to the least loaded bin: without it, or   *)
(* without a larger one, that bin has no more than any other.              *)
LEMMA DealKeeps ==
  ASSUME BalanceInv, DealFile
  PROVE  BalanceInv'
  <1>1. PICK p, k, i : Dealing(p, k, i)
    BY DealIs
  <1>2. /\ p \in undealt /\ p \in DOMAIN size /\ k \in 1..workers
        /\ \A q \in DOMAIN size : size[q] \in Nat
        /\ DOMAIN size \in SUBSET Paths /\ undealt \in SUBSET DOMAIN size
        /\ workers \in Nat \ {0}
    BY <1>1 DEF BalanceInv, Sizes, Dealing
  <1>3. /\ bins \in [1..k -> SUBSET DOMAIN size] /\ loads \in [1..k -> Nat]
        /\ \A j \in 1..k : loads[j] = Bytes(size, bins[j])
    BY <1>1 DEF Dealing, Holds
  <1>4. undealt' = undealt \ {p} /\ size' = size /\ workers' = workers
    BY <1>1 DEF Dealing
  <1>5. i \in 1..k /\ \A j \in 1..k : loads[i] <= loads[j]
    BY <1>1 DEF Dealing
  <1>6. /\ bins' \in [1..k -> SUBSET DOMAIN size] /\ loads' \in [1..k -> Nat]
        /\ bins'[i] = bins[i] \cup {p} /\ loads'[i] = loads[i] + size[p]
        /\ \A j \in 1..k \ {i} : bins'[j] = bins[j] /\ loads'[j] = loads[j]
    BY <1>1 DEF Dealing
  <1>7. \A j \in 1..k : p \notin bins[j]
    BY <1>1 DEF Dealing
  <1>8. Sizes'
    BY <1>2, <1>4 DEF Sizes
  <1>9. Shape'
    <2>1. Bytes(size, bins'[i]) = loads'[i]
      <3>1. Sized(size, bins[i]) /\ Sized(size, {p})
        BY <1>2, <1>3, <1>5 DEF Sized
      <3>2. Bytes(size, bins'[i]) = Bytes(size, bins[i]) + size[p]
        BY <1>5, <1>6, <1>7, <3>1, BytesAdd
      <3>3. QED
        BY <1>3, <1>5, <1>6, <3>2
    <2>2. \A j \in 1..k : loads'[j] = Bytes(size, bins'[j])
      BY <1>3, <1>6, <2>1
    <2>3. Holds(k)'
      BY <1>4, <1>6, <2>2 DEF Holds
    <2>4. k \in 0..workers' /\ k # 0
      BY <1>2, <1>4
    <2>5. QED
      BY <2>3, <2>4 DEF Shape
  <1>10. Shared'
    <2>1. DOMAIN bins = 1..k /\ DOMAIN bins' = 1..k
      BY <1>3, <1>6
    <2>2. ASSUME NEW q
          PROVE  (\E j \in 1..k : q \in bins'[j]) <=> (q = p \/ \E j \in 1..k : q \in bins[j])
      <3>1. CASE q = p
        BY <1>5, <1>6, <3>1
      <3>2. CASE q # p
        <4>1. ASSUME NEW j \in 1..k
              PROVE  q \in bins'[j] <=> q \in bins[j]
          <5>1. CASE j = i
            BY <1>6, <3>2, <5>1
          <5>2. CASE j # i
            BY <1>6, <5>2
          <5>3. QED
            BY <5>1, <5>2
        <4>2. QED
          BY <3>2, <4>1, Zenon
      <3>3. QED
        BY <3>1, <3>2
    <2>3. \A q : (\E j \in 1..k : q \in bins[j]) <=> q \in DOMAIN size \ undealt
      <3>1. UNION {bins[j] : j \in 1..k} = DOMAIN size \ undealt
        BY <2>1 DEF BalanceInv, Shared
      <3>2. QED
        BY <3>1
    <2>4. \A q : (\E j \in 1..k : q \in bins'[j]) <=> q \in DOMAIN size' \ undealt'
      BY <1>2, <1>4, <2>2, <2>3
    <2>5. UNION {bins'[j] : j \in DOMAIN bins'} = DOMAIN size' \ undealt'
      BY <2>1, <2>4
    <2>6. \A j, l \in 1..k : j # l => bins'[j] \cap bins'[l] = {}
      BY <1>5, <1>6, <1>7, <2>1 DEF BalanceInv, Shared
    <2>7. QED
      BY <2>1, <2>5, <2>6 DEF Shared
  <1>11. SmallerToCome'
    <2> SUFFICES ASSUME NEW j \in 1..k, NEW r \in bins'[j], NEW q \in undealt \ {p}
                 PROVE  size[q] <= size[r]
      BY <1>4, <1>6 DEF SmallerToCome
    <2>1. size[q] <= size[p]
      BY <1>1 DEF Dealing
    <2>2. r = p \/ r \in bins[j]
      BY <1>6
    <2>3. QED
      BY <1>3, <2>1, <2>2 DEF BalanceInv, SmallerToCome
  <1>12. Even'
    <2> SUFFICES ASSUME NEW j \in 1..k, NEW l \in 1..k, NEW r \in bins'[j]
                 PROVE  loads'[j] - size[r] <= loads'[l]
      BY <1>4, <1>6 DEF Even
    <2>1. /\ size[p] \in Nat /\ loads[j] \in Nat /\ loads[l] \in Nat /\ loads[i] \in Nat
          /\ loads'[j] \in Nat /\ loads'[l] \in Nat
      BY <1>2, <1>3, <1>5, <1>6
    <2>2. loads[i] <= loads[l] /\ loads[l] <= loads'[l]
      <3>1. loads[i] <= loads[l]
        BY <1>5
      <3>2. loads'[l] = loads[l] \/ loads'[l] = loads[l] + size[p]
        BY <1>6
      <3>3. QED
        BY <2>1, <3>1, <3>2
    <2>3. CASE r \in bins[j]
      <3>1. loads[j] - size[r] <= loads[l]
        BY <1>3, <2>3 DEF BalanceInv, Even
      <3>2. size[p] <= size[r] /\ size[r] \in Nat
        BY <1>2, <1>3, <2>3 DEF BalanceInv, SmallerToCome
      <3>3. CASE j # i
        <4>1. loads'[j] = loads[j]
          BY <1>6, <3>3
        <4>2. QED
          BY <2>1, <2>2, <3>1, <3>2, <4>1
      <3>4. CASE j = i
        <4>1. loads'[j] = loads[i] + size[p]
          BY <1>6, <3>4
        <4>2. QED
          BY <2>1, <2>2, <3>2, <4>1
      <3>5. QED
        BY <3>3, <3>4
    <2>4. CASE r \notin bins[j]
      <3>1. j = i /\ r = p
        BY <1>6, <2>4
      <3>2. loads'[j] - size[r] = loads[i]
        BY <1>6, <2>1, <3>1
      <3>3. QED
        BY <2>1, <2>2, <3>2
    <2>5. QED
      BY <2>3, <2>4
  <1>13. QED
    BY <1>8, <1>9, <1>10, <1>11, <1>12 DEF BalanceInv

LEMMA EntriesKeep ==
  ASSUME BalanceInv, BalanceEntries
  PROVE  BalanceInv'
  <1>1. PICK entries \in SUBSET Paths, count \in WorkerCounts :
          /\ size' \in [entries -> FileSizes]
          /\ undealt' = entries /\ workers' = count
          /\ bins' = [i \in Bins(entries, count) |-> {}]
          /\ loads' = [i \in Bins(entries, count) |-> 0]
    BY DEF BalanceEntries
  <1>2. PICK k \in 1..count : Bins(entries, count) = 1..k
    BY <1>1, WorkerCountsAssumption, BinsIs
  <1>3. \A i \in 1..k : bins'[i] = {} /\ loads'[i] = 0
    BY <1>1, <1>2
  <1>4. Bytes(size', {}) = 0
    BY FS_EmptySet DEF Bytes, BytesOf
  <1>5. Sizes'
    BY <1>1, WorkerCountsAssumption, FilesToDealAssumption DEF Sizes
  <1>6. Shape'
    BY <1>1, <1>2, <1>3, <1>4, WorkerCountsAssumption DEF Shape, Holds
  <1>7. Shared' /\ SmallerToCome' /\ Even'
    BY <1>1, <1>2, <1>3 DEF Shared, SmallerToCome, Even
  <1>8. QED
    BY <1>5, <1>6, <1>7 DEF BalanceInv

LEMMA NothingDealt == BalanceInit => BalanceInv
  <1> SUFFICES ASSUME size = NoFiles, workers = 0, undealt = {}, bins = <<>>, loads = <<>>
               PROVE  BalanceInv
    BY DEF BalanceInit
  <1>1. DOMAIN bins = {} /\ bins \in [1..0 -> SUBSET DOMAIN size] /\ loads \in [1..0 -> Nat]
    OBVIOUS
  <1>2. DOMAIN size = {}
    BY DEF NoFiles
  <1>3. Sizes
    BY <1>2 DEF Sizes
  <1>4. Shape
    BY <1>1 DEF Shape, Holds
  <1>5. QED
    BY <1>1, <1>2, <1>3, <1>4 DEF BalanceInv, Shared, SmallerToCome, Even

LEMMA BalanceStep ==
  ASSUME BalanceInv, [BalanceNext]_balanceVars
  PROVE  BalanceInv'
  <1>1. CASE BalanceEntries
    BY <1>1, EntriesKeep
  <1>2. CASE DealFile
    BY <1>2, DealKeeps
  <1>3. CASE NextPhase
    <2>1. BalanceInit'
      BY <1>3 DEF NextPhase, BalanceInit
    <2>2. QED
      BY <2>1, NothingDealt, PTL
  <1>4. CASE UNCHANGED balanceVars
    BY <1>4 DEF balanceVars, BalanceInv, Sizes, Shape, Holds, Shared, SmallerToCome, Even
  <1>5. QED
    BY <1>1, <1>2, <1>3, <1>4 DEF BalanceNext

(* Over any files and any number of workers, the work items are a          *)
(* partition of the files with at most one for each worker, and no file    *)
(* can be moved to end the transfer earlier (scheduler.py:28-38).          *)
THEOREM DealtEvenly == BalanceSpec => [](EachFileOnce /\ NoMoveHelps)
  <1>1. BalanceInit => BalanceInv
    BY NothingDealt
  <1>2. BalanceInv /\ [BalanceNext]_balanceVars => BalanceInv'
    BY BalanceStep
  <1>3. BalanceInv => EachFileOnce /\ NoMoveHelps
    <2> SUFFICES ASSUME BalanceInv, workers # 0, undealt = {}
                 PROVE  EachFileOnce /\ NoMoveHelps
      BY DEF EachFileOnce, NoMoveHelps, Dealt
    <2>0. PICK k \in 1..workers : Holds(k)
      BY ShapeIs DEF BalanceInv, Sizes
    <2>1. /\ bins \in [1..k -> SUBSET DOMAIN size] /\ loads \in [1..k -> Nat]
          /\ \A i \in 1..k : loads[i] = Bytes(size, bins[i])
      BY <2>0 DEF Holds
    <2>2. EachFileOnce
      <3>1. DOMAIN bins \subseteq 1..workers
        BY <2>1 DEF BalanceInv, Sizes
      <3>2. UNION {bins[i] : i \in DOMAIN bins} = DOMAIN size
        BY DEF BalanceInv, Shared
      <3>3. QED
        BY <3>1, <3>2 DEF EachFileOnce, BalanceInv, Shared
    <2>3. ASSUME NEW i \in 1..k, NEW j \in 1..k, NEW p \in bins[i]
          PROVE  Bytes(size, bins[i] \ {p}) <= Bytes(size, bins[j])
      <3>1. Sized(size, bins[i])
        BY <2>1, <2>3 DEF Sized, BalanceInv, Sizes
      <3>2. Bytes(size, bins[i] \ {p}) = loads[i] - size[p]
        BY <2>1, <2>3, <3>1, BytesRemove
      <3>3. QED
        BY <2>1, <2>3, <3>2 DEF BalanceInv, Even
    <2>4. QED
      BY <2>1, <2>2, <2>3 DEF NoMoveHelps
  <1>4. QED
    BY <1>1, <1>2, <1>3, PTL DEF BalanceSpec

-----------------------------------------------------------------------------
(* Counting *)

(* What is mapped one-to-one into a finite set is not more than it.        *)
LEMMA CountedBy ==
  ASSUME NEW S, NEW T, IsFiniteSet(T), NEW f \in [S -> T], \A a, b \in S : f[a] = f[b] => a = b
  PROVE  IsFiniteSet(S) /\ Cardinality(S) <= Cardinality(T)
  <1>1. f \in Injection(S, T)
    BY DEF Injection, IsInjective
  <1>2. QED
    BY <1>1, FS_Injection

(* A finite set can be numbered.                                           *)
LEMMA Numbered ==
  ASSUME NEW S, IsFiniteSet(S), NEW n \in Nat, Cardinality(S) <= n
  PROVE  \E f \in [S -> 1..n] : \A a, b \in S : f[a] = f[b] => a = b
  <1>1. Cardinality(S) \in Nat /\ ExistsBijection(1..Cardinality(S), S)
    BY FS_CardinalityType
  <1>2. ExistsBijection(S, 1..Cardinality(S))
    BY <1>1, Fun_ExistsBijSymmetric, Zenon
  <1>3. PICK f : f \in Bijection(S, 1..Cardinality(S))
    BY <1>2 DEF ExistsBijection
  <1>4. f \in [S -> 1..Cardinality(S)] /\ \A a, b \in S : f[a] = f[b] => a = b
    BY <1>3 DEF Bijection, Injection, IsInjective
  <1>5. f \in [S -> 1..n]
    BY <1>1, <1>4
  <1>6. QED
    BY <1>4, <1>5

(* Any number of elements up to all of them can be picked.                 *)
LEMMA Picked ==
  ASSUME NEW S, IsFiniteSet(S), NEW n \in Nat, n <= Cardinality(S)
  PROVE  \E f \in [1..n -> S] : \A a, b \in 1..n : f[a] = f[b] => a = b
  <1>1. Cardinality(S) \in Nat /\ ExistsBijection(1..Cardinality(S), S)
    BY FS_CardinalityType
  <1>2. PICK f : f \in Bijection(1..Cardinality(S), S)
    BY <1>1 DEF ExistsBijection
  <1>3. f \in [1..Cardinality(S) -> S] /\ \A a, b \in 1..Cardinality(S) : f[a] = f[b] => a = b
    BY <1>2 DEF Bijection, Injection, IsInjective
  <1>4. 1..n \subseteq 1..Cardinality(S)
    BY <1>1
  <1>5. [i \in 1..n |-> f[i]] \in [1..n -> S]
    BY <1>3, <1>4
  <1>6. QED
    BY <1>3, <1>4, <1>5

-----------------------------------------------------------------------------
(* Bytes *)

LEMMA BytesMonotonic ==
  ASSUME NEW sizes, NEW all, Sized(sizes, all), NEW paths \in SUBSET all
  PROVE  Bytes(sizes, paths) <= Bytes(sizes, all)
  <1>1. IsFiniteSet(BytesOf(sizes, all))
    BY BytesFinite
  <1>2. BytesOf(sizes, paths) \in SUBSET BytesOf(sizes, all)
    BY DEF BytesOf
  <1>3. QED
    BY <1>1, <1>2, FS_Subset DEF Bytes

LEMMA BytesOfTwo ==
  ASSUME NEW sizes, NEW paths, Sized(sizes, paths), NEW p \in paths, NEW q \in paths, p # q
  PROVE  sizes[p] + sizes[q] <= Bytes(sizes, paths)
  <1>1. Sized(sizes, paths \ {p}) /\ Sized(sizes, (paths \ {p}) \ {q}) /\ q \in paths \ {p}
    BY DEF Sized
  <1>2. Bytes(sizes, paths \ {p}) = Bytes(sizes, paths) - sizes[p]
    BY BytesRemove
  <1>3. Bytes(sizes, (paths \ {p}) \ {q}) = Bytes(sizes, paths \ {p}) - sizes[q]
    BY <1>1, BytesRemove
  <1>4. /\ Bytes(sizes, (paths \ {p}) \ {q}) \in Nat /\ Bytes(sizes, paths \ {p}) \in Nat
        /\ Bytes(sizes, paths) \in Nat /\ sizes[p] \in Nat /\ sizes[q] \in Nat
    BY <1>1, BytesFinite DEF Sized
  <1>5. QED
    BY <1>2, <1>3, <1>4

LEMMA BytesOfThree ==
  ASSUME NEW sizes, NEW paths, Sized(sizes, paths),
         NEW p \in paths, NEW q \in paths, NEW r \in paths, p # q, q # r, p # r
  PROVE  sizes[p] + sizes[q] + sizes[r] <= Bytes(sizes, paths)
  <1>1. Sized(sizes, paths \ {p})
    BY DEF Sized
  <1>2. Bytes(sizes, paths \ {p}) = Bytes(sizes, paths) - sizes[p]
    BY BytesRemove
  <1>3. sizes[q] + sizes[r] <= Bytes(sizes, paths \ {p})
    BY <1>1, BytesOfTwo
  <1>4. /\ Bytes(sizes, paths \ {p}) \in Nat /\ Bytes(sizes, paths) \in Nat
        /\ sizes[p] \in Nat /\ sizes[q] \in Nat /\ sizes[r] \in Nat
    BY <1>1, BytesFinite DEF Sized
  <1>5. QED
    BY <1>2, <1>3, <1>4

LEMMA BytesAtLeastOne ==
  ASSUME NEW sizes, NEW paths, Sized(sizes, paths), NEW p \in paths
  PROVE  sizes[p] <= Bytes(sizes, paths)
  <1>1. {p} \in SUBSET paths /\ sizes[p] \in Nat
    BY DEF Sized
  <1>2. QED
    BY <1>1, BytesMonotonic, BytesOfOne

LEMMA BytesOfNone == \A sizes : Bytes(sizes, {}) = 0
  BY FS_EmptySet DEF Bytes, BytesOf

-----------------------------------------------------------------------------
(* An assignment of files to m workers.                                    *)
AssignedTo(assigned, files, w) == {p \in files : assigned[p] = w}
Within(sizes, files, m, assigned, D) ==
  /\ assigned \in [files -> 1..m]
  /\ \A w \in 1..m : Bytes(sizes, AssignedTo(assigned, files, w)) <= D

(* Bins that share files out.                                              *)
Share(bs, m, files) ==
  /\ bs \in [1..m -> SUBSET files]
  /\ \A p \in files : \E j \in 1..m : p \in bs[j]
  /\ \A i, j \in 1..m : i # j => bs[i] \cap bs[j] = {}

(* If every bin has x bytes, they have m * x together.                     *)
LEMMA TogetherAtLeast ==
  ASSUME NEW sizes, NEW files, Sized(sizes, files), NEW m \in Nat, NEW bs, Share(bs, m, files),
         NEW x \in Nat, \A j \in 1..m : x <= Bytes(sizes, bs[j])
  PROVE  m * x <= Bytes(sizes, files)
  <1>1. \A j \in 1..m : Sized(sizes, bs[j])
    BY DEF Sized, Share
  <1>2. \A j \in 1..m : \E f \in [1..x -> BytesOf(sizes, bs[j])] :
                          \A a, b \in 1..x : f[a] = f[b] => a = b
    <2> SUFFICES ASSUME NEW j \in 1..m
                 PROVE  \E f \in [1..x -> BytesOf(sizes, bs[j])] :
                          \A a, b \in 1..x : f[a] = f[b] => a = b
      OBVIOUS
    <2>1. IsFiniteSet(BytesOf(sizes, bs[j])) /\ x <= Cardinality(BytesOf(sizes, bs[j]))
      BY <1>1, BytesFinite DEF Bytes
    <2>2. QED
      BY <2>1, Picked
  <1> DEFINE pick == [j \in 1..m |-> CHOOSE f \in [1..x -> BytesOf(sizes, bs[j])] :
                                       \A a, b \in 1..x : f[a] = f[b] => a = b]
             each == [c \in (1..m) \X (1..x) |-> pick[c[1]][c[2]]]
  <1>3. \A j \in 1..m : /\ pick[j] \in [1..x -> BytesOf(sizes, bs[j])]
                        /\ \A a, b \in 1..x : pick[j][a] = pick[j][b] => a = b
    BY <1>2
  <1> HIDE DEF pick
  <1>4. each \in [(1..m) \X (1..x) -> BytesOf(sizes, files)]
    <2>1. \A j \in 1..m : BytesOf(sizes, bs[j]) \subseteq BytesOf(sizes, files)
      BY DEF BytesOf, Share
    <2>2. QED
      BY <1>3, <2>1
  <1>5. ASSUME NEW c \in (1..m) \X (1..x), NEW d \in (1..m) \X (1..x), each[c] = each[d]
        PROVE  c = d
    <2>1. each[c] \in BytesOf(sizes, bs[c[1]]) /\ each[d] \in BytesOf(sizes, bs[d[1]])
      BY <1>3
    <2>2. c[1] = d[1]
      BY <1>5, <2>1 DEF BytesOf, Share
    <2>3. c[2] = d[2]
      BY <1>3, <1>5, <2>2
    <2>4. QED
      BY <2>2, <2>3
  <1>6. IsFiniteSet(BytesOf(sizes, files))
    BY BytesFinite
  <1>7. Cardinality((1..m) \X (1..x)) <= Cardinality(BytesOf(sizes, files))
    <2>1. \A c, d \in (1..m) \X (1..x) : each[c] = each[d] => c = d
      BY <1>5
    <2> HIDE DEF each
    <2>2. QED
      BY <1>4, <1>6, <2>1, CountedBy, Zenon
  <1>8. Cardinality((1..m) \X (1..x)) = m * x
    <2>1. /\ IsFiniteSet(1..m) /\ Cardinality(1..m) = m
          /\ IsFiniteSet(1..x) /\ Cardinality(1..x) = x
      BY FS_Interval
    <2>2. Cardinality((1..m) \X (1..x)) = Cardinality(1..m) * Cardinality(1..x)
      BY <2>1, FS_Product, Zenon
    <2>3. QED
      BY <2>1, <2>2
  <1>9. QED
    BY <1>7, <1>8 DEF Bytes

(* If no worker has more than D, they have at most m * D together.         *)
LEMMA TogetherAtMost ==
  ASSUME NEW sizes, NEW files, Sized(sizes, files), NEW m \in Nat, NEW assigned, NEW D \in Nat,
         Within(sizes, files, m, assigned, D)
  PROVE  Bytes(sizes, files) <= m * D
  <1> DEFINE of(w) == BytesOf(sizes, AssignedTo(assigned, files, w))
  <1>1. \A w \in 1..m : \E f \in [of(w) -> 1..D] : \A a, b \in of(w) : f[a] = f[b] => a = b
    <2> SUFFICES ASSUME NEW w \in 1..m
                 PROVE  \E f \in [of(w) -> 1..D] : \A a, b \in of(w) : f[a] = f[b] => a = b
      OBVIOUS
    <2>1. Sized(sizes, AssignedTo(assigned, files, w))
      BY DEF Sized, AssignedTo
    <2>2. IsFiniteSet(of(w)) /\ Cardinality(of(w)) <= D
      BY <2>1, BytesFinite DEF Bytes, Within
    <2> HIDE DEF of
    <2>3. QED
      BY <2>2, Numbered
  <1> DEFINE number == [w \in 1..m |-> CHOOSE f \in [of(w) -> 1..D] :
                                         \A a, b \in of(w) : f[a] = f[b] => a = b]
             each == [c \in BytesOf(sizes, files) |-> <<assigned[c[1]], number[assigned[c[1]]][c]>>]
  <1>2. \A w \in 1..m : /\ number[w] \in [of(w) -> 1..D]
                        /\ \A a, b \in of(w) : number[w][a] = number[w][b] => a = b
    BY <1>1
  <1> HIDE DEF number
  <1>3. \A c \in BytesOf(sizes, files) : assigned[c[1]] \in 1..m /\ c \in of(assigned[c[1]])
    BY DEF BytesOf, AssignedTo, Within
  <1>4. each \in [BytesOf(sizes, files) -> (1..m) \X (1..D)]
    BY <1>2, <1>3
  <1>5. ASSUME NEW c \in BytesOf(sizes, files), NEW d \in BytesOf(sizes, files), each[c] = each[d]
        PROVE  c = d
    BY <1>2, <1>3, <1>5
  <1>6. /\ IsFiniteSet((1..m) \X (1..D)) /\ Cardinality((1..m) \X (1..D)) = m * D
    <2>1. /\ IsFiniteSet(1..m) /\ Cardinality(1..m) = m
          /\ IsFiniteSet(1..D) /\ Cardinality(1..D) = D
      BY FS_Interval
    <2>2. /\ IsFiniteSet((1..m) \X (1..D))
          /\ Cardinality((1..m) \X (1..D)) = Cardinality(1..m) * Cardinality(1..D)
      BY <2>1, FS_Product, Zenon
    <2>3. QED
      BY <2>1, <2>2
  <1>7. Cardinality(BytesOf(sizes, files)) <= Cardinality((1..m) \X (1..D))
    <2>1. \A c, d \in BytesOf(sizes, files) : each[c] = each[d] => c = d
      BY <1>5
    <2> HIDE DEF each
    <2>2. QED
      BY <1>4, <1>6, <2>1, CountedBy, Zenon
  <1>8. QED
    BY <1>6, <1>7 DEF Bytes

-----------------------------------------------------------------------------
(* Files of more than a third of D                                         *)

Slots(m) == (1..m) \X {1, 2}

(* Two places for each of m workers, less one for some of them.            *)
LEMMA SlotsLeft ==
  ASSUME NEW m \in Nat, NEW X \in SUBSET (1..m)
  PROVE  /\ IsFiniteSet(X) /\ Cardinality(X) \in Nat
         /\ IsFiniteSet(Slots(m) \ (X \X {2}))
         /\ Cardinality(Slots(m)) \in Nat
         /\ Cardinality(Slots(m) \ (X \X {2})) = Cardinality(Slots(m)) - Cardinality(X)
  <1>1. IsFiniteSet(1..m)
    BY FS_Interval
  <1>2. IsFiniteSet(X) /\ Cardinality(X) \in Nat
    BY <1>1, FS_Subset, FS_CardinalityType
  <1>3. IsFiniteSet({2}) /\ Cardinality({2}) = 1 /\ IsFiniteSet({1, 2})
    BY FS_Singleton, FS_AddElement
  <1>4. IsFiniteSet(Slots(m)) /\ Cardinality(Slots(m)) \in Nat
    BY <1>1, <1>3, FS_Product, FS_CardinalityType DEF Slots
  <1>5. Cardinality(X \X {2}) = Cardinality(X) * Cardinality({2})
    BY <1>2, <1>3, FS_Product, Zenon
  <1>6. Slots(m) \cap (X \X {2}) = X \X {2}
    BY DEF Slots
  <1>7. /\ IsFiniteSet(Slots(m) \ (X \X {2}))
        /\ Cardinality(Slots(m) \ (X \X {2})) = Cardinality(Slots(m)) - Cardinality(Slots(m) \cap (X \X {2}))
    BY <1>4, FS_Difference
  <1>8. Cardinality(X \X {2}) = Cardinality(X)
    BY <1>2, <1>3, <1>5
  <1>9. QED
    BY <1>2, <1>4, <1>6, <1>7, <1>8

(* One file more than m workers can take within D, although every file is  *)
(* larger than a third of D and none smaller than p.                       *)
TooMany(sizes, all, p, m, bs, assigned, D) ==
  /\ Sized(sizes, all) /\ p \in all /\ m \in Nat /\ D \in Nat
  /\ Share(bs, m, all \ {p})
  /\ Within(sizes, all, m, assigned, D)
  /\ \A q \in all : 3 * sizes[q] > D /\ sizes[p] <= sizes[q]
  /\ \A j \in 1..m : Bytes(sizes, bs[j]) + sizes[p] > D

(* With D every worker takes at most two files, and a bin of one file      *)
(* leaves no room for p or a larger one.  The bins hold two files for each *)
(* worker less the bins of one, and an assignment of all files has a       *)
(* worker with one file for each of those, so p is one too many.           *)
LEMMA NotTooMany ==
  ASSUME NEW sizes, NEW all, NEW p, NEW m, NEW bs, NEW assigned, NEW D,
         TooMany(sizes, all, p, m, bs, assigned, D)
  PROVE  FALSE
  <1>1. /\ m \in Nat /\ D \in Nat /\ p \in all
        /\ \A q \in all : sizes[q] \in Nat /\ 3 * sizes[q] > D /\ sizes[p] <= sizes[q]
        /\ assigned \in [all -> 1..m]
        /\ bs \in [1..m -> SUBSET (all \ {p})]
        /\ \A i, j \in 1..m : i # j => bs[i] \cap bs[j] = {}
        /\ \A j \in 1..m : Bytes(sizes, bs[j]) + sizes[p] > D
    BY DEF TooMany, Sized, Share, Within
  <1>2. \A w \in 1..m : /\ Sized(sizes, AssignedTo(assigned, all, w))
                        /\ Bytes(sizes, AssignedTo(assigned, all, w)) <= D
                        /\ Bytes(sizes, AssignedTo(assigned, all, w)) \in Nat
    BY BytesFinite DEF TooMany, Sized, AssignedTo, Within
  <1>3. ASSUME NEW q \in all, NEW r \in all, NEW s \in all, assigned[q] = assigned[r], assigned[r] = assigned[s]
        PROVE  q = r \/ r = s \/ q = s
    <2> SUFFICES ASSUME q # r, r # s, q # s PROVE FALSE
      OBVIOUS
    <2>1. PICK mine : mine = AssignedTo(assigned, all, assigned[q])
      OBVIOUS
    <2>2. q \in mine /\ r \in mine /\ s \in mine
      BY <1>3, <2>1 DEF AssignedTo
    <2>3. Sized(sizes, mine) /\ Bytes(sizes, mine) <= D /\ Bytes(sizes, mine) \in Nat
      BY <1>1, <1>2, <2>1
    <2>4. sizes[q] + sizes[r] + sizes[s] <= Bytes(sizes, mine)
      BY <2>2, <2>3, BytesOfThree
    <2>5. /\ 3 * sizes[q] > D /\ 3 * sizes[r] > D /\ 3 * sizes[s] > D
          /\ sizes[q] \in Nat /\ sizes[r] \in Nat /\ sizes[s] \in Nat
      BY <1>1
    <2>6. PICK x \in Nat, y \in Nat, z \in Nat, total \in Nat :
            x = sizes[q] /\ y = sizes[r] /\ z = sizes[s] /\ total = Bytes(sizes, mine)
      BY <2>3, <2>5
    <2>7. D \in Nat /\ 3 * x > D /\ 3 * y > D /\ 3 * z > D /\ x + y + z <= total /\ total <= D
      BY <1>1, <2>3, <2>4, <2>5, <2>6
    <2>8. QED
      BY <2>7
  <1>4. \A j \in 1..m : bs[j] # {}
    <2>1. PICK mine : mine = AssignedTo(assigned, all, assigned[p])
      OBVIOUS
    <2>2. Sized(sizes, mine) /\ Bytes(sizes, mine) <= D /\ Bytes(sizes, mine) \in Nat /\ p \in mine
      BY <1>1, <1>2, <2>1 DEF AssignedTo
    <2>3. sizes[p] <= Bytes(sizes, mine)
      BY <2>2, BytesAtLeastOne
    <2>4. sizes[p] <= D
      BY <1>1, <2>2, <2>3
    <2>5. ASSUME NEW j \in 1..m, bs[j] = {} PROVE FALSE
      <3>1. Bytes(sizes, bs[j]) = 0
        BY <2>5, BytesOfNone
      <3>2. QED
        BY <1>1, <2>4, <3>1
    <2>6. QED
      BY <2>5
  <1> DEFINE first == [j \in 1..m |-> CHOOSE q \in bs[j] : TRUE]
             second == [j \in 1..m |-> CHOOSE q \in bs[j] : q # first[j]]
             single == {j \in 1..m : bs[j] = {first[j]}}
             alone == {assigned[first[j]] : j \in single}
             lead == [w \in 1..m |-> CHOOSE q \in all : assigned[q] = w]
  <1>5. \A j \in 1..m : first[j] \in bs[j] /\ first[j] \in all \ {p}
    BY <1>1, <1>4
  <1>6. \A j \in (1..m) \ single : second[j] \in bs[j] /\ second[j] # first[j] /\ second[j] \in all \ {p}
    BY <1>1, <1>5
  <1>7. \A q \in all : lead[assigned[q]] \in all /\ assigned[lead[assigned[q]]] = assigned[q]
    BY <1>1
  <1>8. single \in SUBSET (1..m) /\ \A j \in single : bs[j] = {first[j]}
    OBVIOUS
  <1>9. alone \in SUBSET (1..m)
    <2> HIDE DEF first, second, single, lead
    <2>1. ASSUME NEW j \in single PROVE assigned[first[j]] \in 1..m
      <3>1. first[j] \in all
        BY <1>5, <1>8
      <3>2. QED
        BY <1>1, <3>1
    <2>2. QED
      BY <2>1
  <1>10. \A w \in alone : \E j \in single : w = assigned[first[j]]
    OBVIOUS
  <1> HIDE DEF first, second, single, lead
  <1>11. ASSUME NEW j \in single, NEW q \in all, assigned[q] = assigned[first[j]]
         PROVE  q = first[j]
    <2> SUFFICES ASSUME q # first[j] PROVE FALSE
      OBVIOUS
    <2>1. PICK mine : mine = AssignedTo(assigned, all, assigned[q])
      OBVIOUS
    <2>0. Sized(sizes, mine) /\ Bytes(sizes, mine) <= D /\ Bytes(sizes, mine) \in Nat
      BY <1>1, <1>2, <2>1
    <2>2. q \in mine /\ first[j] \in mine
      BY <1>5, <1>8, <1>11, <2>1 DEF AssignedTo
    <2>3. sizes[q] + sizes[first[j]] <= Bytes(sizes, mine)
      BY <2>0, <2>2, BytesOfTwo
    <2>4. Bytes(sizes, bs[j]) = sizes[first[j]]
      BY <1>1, <1>5, <1>8, BytesOfOne
    <2>5. /\ sizes[first[j]] + sizes[p] > D /\ sizes[p] <= sizes[q]
          /\ sizes[first[j]] \in Nat /\ sizes[p] \in Nat /\ sizes[q] \in Nat
      BY <1>1, <1>5, <1>8, <2>4
    <2>6. QED
      BY <1>1, <2>0, <2>3, <2>5
  <1>12. Cardinality(single) <= Cardinality(alone)
    <2>1. PICK worker : worker = [j \in single |-> assigned[first[j]]]
      OBVIOUS
    <2>2. worker \in [single -> alone]
      BY <2>1
    <2>3. ASSUME NEW i \in single, NEW j \in single, worker[i] = worker[j] PROVE i = j
      <3>1. first[i] = first[j]
        BY <1>5, <1>8, <1>11, <2>1, <2>3
      <3>2. QED
        BY <1>1, <1>5, <1>8, <3>1
    <2>4. IsFiniteSet(alone)
      BY <1>1, <1>9, SlotsLeft
    <2> HIDE DEF alone
    <2>5. QED
      BY <2>2, <2>3, <2>4, CountedBy
  <1> HIDE DEF alone
  <1>13. Cardinality(all) <= Cardinality(Slots(m) \ (alone \X {2})) /\ IsFiniteSet(all)
    <2>1. PICK slot : slot = [q \in all |-> <<assigned[q], IF q = lead[assigned[q]] THEN 1 ELSE 2>>]
      OBVIOUS
    <2>2. slot \in [all -> Slots(m) \ (alone \X {2})]
      <3>1. ASSUME NEW q \in all PROVE slot[q] \in Slots(m)
        BY <1>1, <2>1 DEF Slots
      <3>2. ASSUME NEW q \in all, assigned[q] \in alone PROVE q = lead[assigned[q]]
        <4>1. PICK j \in single : assigned[q] = assigned[first[j]]
          BY <1>10, <3>2
        <4>2. q = first[j]
          BY <1>11, <4>1
        <4>3. lead[assigned[q]] = first[j]
          BY <1>7, <1>11, <4>1
        <4>4. QED
          BY <4>2, <4>3
      <3>3. ASSUME NEW q \in all PROVE slot[q] \notin alone \X {2}
        BY <2>1, <3>2
      <3>4. QED
        BY <2>1, <3>1, <3>3
    <2>3. ASSUME NEW q \in all, NEW r \in all, slot[q] = slot[r] PROVE q = r
      <3>1. assigned[q] = assigned[r] /\ (q = lead[assigned[q]] <=> r = lead[assigned[r]])
        BY <2>1, <2>3
      <3>2. QED
        BY <1>3, <1>7, <3>1
    <2>4. IsFiniteSet(Slots(m) \ (alone \X {2}))
      BY <1>1, <1>9, SlotsLeft
    <2>5. QED
      BY <2>2, <2>3, <2>4, CountedBy
  <1>14. Cardinality(Slots(m) \ (single \X {2})) <= Cardinality(all \ {p})
    <2>1. PICK file : file = [c \in Slots(m) \ (single \X {2}) |->
                                IF c[2] = 1 THEN first[c[1]] ELSE second[c[1]]]
      OBVIOUS
    <2>2. ASSUME NEW c \in Slots(m) \ (single \X {2})
          PROVE  /\ c[1] \in 1..m /\ c = <<c[1], c[2]>>
                 /\ \/ c[2] = 1 /\ file[c] = first[c[1]]
                    \/ c[2] = 2 /\ file[c] = second[c[1]] /\ c[1] \notin single
      BY <2>1 DEF Slots
    <2>3. file \in [Slots(m) \ (single \X {2}) -> all \ {p}]
      <3>1. \A c \in Slots(m) \ (single \X {2}) : file[c] \in all \ {p}
        BY <1>5, <1>6, <2>2
      <3>2. QED
        BY <2>1, <3>1
    <2>4. ASSUME NEW c \in Slots(m) \ (single \X {2}), NEW d \in Slots(m) \ (single \X {2}), file[c] = file[d]
          PROVE  c = d
      <3>1. file[c] \in bs[c[1]] /\ file[d] \in bs[d[1]] /\ c[1] \in 1..m /\ d[1] \in 1..m
        BY <1>5, <1>6, <2>2
      <3>2. c[1] = d[1]
        BY <1>1, <2>4, <3>1
      <3>3. c[2] = d[2]
        BY <1>6, <2>2, <2>4, <3>2
      <3>4. QED
        BY <2>2, <3>2, <3>3
    <2>5. IsFiniteSet(all \ {p})
      BY <1>13, FS_RemoveElement
    <2>6. QED
      BY <2>3, <2>4, <2>5, CountedBy
  <1>15. Cardinality(all \ {p}) = Cardinality(all) - 1 /\ Cardinality(all) \in Nat
    BY <1>1, <1>13, FS_RemoveElement, FS_CardinalityType
  <1>16. /\ Cardinality(Slots(m)) \in Nat
         /\ Cardinality(alone) \in Nat /\ Cardinality(single) \in Nat
         /\ Cardinality(Slots(m) \ (alone \X {2})) = Cardinality(Slots(m)) - Cardinality(alone)
         /\ Cardinality(Slots(m) \ (single \X {2})) = Cardinality(Slots(m)) - Cardinality(single)
    BY <1>1, <1>8, <1>9, SlotsLeft
  <1>17. QED
    BY <1>12, <1>13, <1>14, <1>15, <1>16

-----------------------------------------------------------------------------
(* The best assignment *)

(* What fits for all files fits for some of them.                          *)
LEMMA WithinPart ==
  ASSUME NEW sizes, NEW files, Sized(sizes, files), NEW m, NEW assigned, NEW D \in Nat,
         Within(sizes, files, m, assigned, D), NEW part \in SUBSET files
  PROVE  Within(sizes, part, m, [q \in part |-> assigned[q]], D)
  <1>1. PICK restricted : restricted = [q \in part |-> assigned[q]]
    OBVIOUS
  <1>2. restricted \in [part -> 1..m]
    BY <1>1 DEF Within
  <1>3. ASSUME NEW w \in 1..m PROVE Bytes(sizes, AssignedTo(restricted, part, w)) <= D
    <2>1. Sized(sizes, AssignedTo(assigned, files, w)) /\ Sized(sizes, AssignedTo(restricted, part, w))
      BY DEF Sized, AssignedTo
    <2>2. AssignedTo(restricted, part, w) \in SUBSET AssignedTo(assigned, files, w)
      BY <1>1 DEF AssignedTo
    <2>3. /\ Bytes(sizes, AssignedTo(restricted, part, w)) <= Bytes(sizes, AssignedTo(assigned, files, w))
          /\ Bytes(sizes, AssignedTo(restricted, part, w)) \in Nat
          /\ Bytes(sizes, AssignedTo(assigned, files, w)) \in Nat
      BY <2>1, <2>2, BytesMonotonic, BytesFinite
    <2>4. Bytes(sizes, AssignedTo(assigned, files, w)) <= D
      BY DEF Within
    <2>5. QED
      BY <2>3, <2>4
  <1>4. QED
    BY <1>1, <1>2, <1>3 DEF Within

(* No assignment gives every worker less than the largest file.            *)
LEMMA FileIsWithin ==
  ASSUME NEW sizes, NEW files, Sized(sizes, files), NEW m, NEW assigned, NEW D \in Nat,
         Within(sizes, files, m, assigned, D), NEW p \in files
  PROVE  sizes[p] <= D
  <1>1. PICK mine : mine = AssignedTo(assigned, files, assigned[p])
    OBVIOUS
  <1>2. Sized(sizes, mine) /\ p \in mine /\ Bytes(sizes, mine) <= D
    BY <1>1 DEF Sized, AssignedTo, Within
  <1>3. sizes[p] <= Bytes(sizes, mine) /\ Bytes(sizes, mine) \in Nat /\ sizes[p] \in Nat
    BY <1>2, BytesAtLeastOne, BytesFinite DEF Sized
  <1>4. QED
    BY <1>2, <1>3

(* If without p no bin has less than x bytes, p can be at most what the    *)
(* workers have left of m * D.                                             *)
LEMMA LeftForOne ==
  ASSUME NEW sizes, NEW files, Sized(sizes, files), NEW m \in Nat, NEW bs, Share(bs, m, files),
         NEW i \in 1..m, NEW p \in bs[i], NEW x \in Nat,
         x <= Bytes(sizes, bs[i] \ {p}), \A j \in 1..m : x <= Bytes(sizes, bs[j]),
         NEW assigned, NEW D \in Nat, Within(sizes, files, m, assigned, D)
  PROVE  m * x + sizes[p] <= m * D
  <1>1. PICK less : less = [bs EXCEPT ![i] = bs[i] \ {p}]
    OBVIOUS
  <1>2. p \in files /\ Sized(sizes, files \ {p}) /\ sizes[p] \in Nat
    BY DEF Share, Sized
  <1>3. Share(less, m, files \ {p})
    <2>1. bs \in [1..m -> SUBSET files] /\ \A j \in 1..m : j # i => p \notin bs[j]
      BY DEF Share
    <2>2. less \in [1..m -> SUBSET (files \ {p})]
      BY <1>1, <2>1
    <2>3. \A q \in files \ {p} : \E j \in 1..m : q \in less[j]
      BY <1>1, <2>1 DEF Share
    <2>4. \A j, l \in 1..m : j # l => less[j] \cap less[l] = {}
      BY <1>1, <2>1 DEF Share
    <2>5. QED
      BY <2>2, <2>3, <2>4 DEF Share
  <1>4. \A j \in 1..m : x <= Bytes(sizes, less[j])
    <2>1. ASSUME NEW j \in 1..m PROVE x <= Bytes(sizes, less[j])
      <3>1. j = i => less[j] = bs[i] \ {p}
        BY <1>1 DEF Share
      <3>2. j # i => less[j] = bs[j]
        BY <1>1 DEF Share
      <3>3. QED
        BY <3>1, <3>2
    <2>2. QED
      BY <2>1
  <1>5. m * x <= Bytes(sizes, files \ {p})
    BY <1>2, <1>3, <1>4, TogetherAtLeast
  <1>6. Bytes(sizes, files \ {p}) = Bytes(sizes, files) - sizes[p]
    BY <1>2, BytesRemove
  <1>7. Bytes(sizes, files) <= m * D /\ Bytes(sizes, files) \in Nat
    BY TogetherAtMost, BytesFinite
  <1>8. m * x \in Nat /\ m * D \in Nat
    OBVIOUS
  <1>9. QED
    BY <1>2, <1>5, <1>6, <1>7, <1>8

LEMMA MaxOfSome ==
  ASSUME NEW n \in Nat, NEW S \in SUBSET (0..n), S # {}
  PROVE  Max(S) \in S /\ \A m \in S : m <= Max(S)
  <1>1. \E i \in S : \A j \in S : j <= i
    BY GreatestIndex
  <1>2. \E i \in S : \A j \in S : i >= j
    BY <1>1
  <1>3. QED
    BY <1>2 DEF Max

(* BestLoad is a number of bytes, and some assignment keeps it.            *)
LEMMA BestIsReached ==
  ASSUME Sizes, workers # 0
  PROVE  /\ BestLoad \in Nat
         /\ \E assigned : Within(size, DOMAIN size, workers, assigned, BestLoad)
  <1> DEFINE files == DOMAIN size
             loadsOf(assigned) == {Bytes(size, AssignedTo(assigned, files, w)) : w \in 1..workers}
             all == {Max(loadsOf(assigned)) : assigned \in [files -> 1..workers]}
  <1>1. Sized(size, files) /\ workers \in Nat \ {0}
    BY DEF Sizes, Sized
  <1>2. PICK n \in Nat : n = Bytes(size, files)
    BY <1>1, BytesFinite
  <1>3. ASSUME NEW assigned \in [files -> 1..workers]
        PROVE  /\ Max(loadsOf(assigned)) \in Nat
               /\ \A w \in 1..workers : Bytes(size, AssignedTo(assigned, files, w)) <= Max(loadsOf(assigned))
    <2>1. ASSUME NEW w \in 1..workers PROVE Bytes(size, AssignedTo(assigned, files, w)) \in 0..n
      <3>1. AssignedTo(assigned, files, w) \in SUBSET files /\ Sized(size, AssignedTo(assigned, files, w))
        BY <1>1 DEF AssignedTo, Sized
      <3>2. QED
        BY <1>1, <1>2, <3>1, BytesMonotonic, BytesFinite
    <2>2. loadsOf(assigned) \in SUBSET (0..n) /\ loadsOf(assigned) # {}
      <3>1. 1 \in 1..workers
        BY <1>1
      <3>2. QED
        BY <2>1, <3>1
    <2>3. /\ Max(loadsOf(assigned)) \in loadsOf(assigned)
          /\ \A m \in loadsOf(assigned) : m <= Max(loadsOf(assigned))
      <3> HIDE DEF loadsOf
      <3>1. QED
        BY <1>2, <2>2, MaxOfSome
    <2>4. QED
      BY <2>2, <2>3
  <1>4. BestLoad = Min(all)
    BY DEF BestLoad, AssignedTo
  <1>5. all \in SUBSET Nat /\ all # {}
    <2>1. [p \in files |-> 1] \in [files -> 1..workers]
      BY <1>1
    <2> HIDE DEF loadsOf
    <2>2. QED
      BY <1>3, <2>1
  <1>6. Min(all) \in all /\ Min(all) \in Nat
    <2> HIDE DEF all
    <2>1. QED
      BY <1>5, MinOfNats
  <1>7. PICK assigned \in [files -> 1..workers] : BestLoad = Max(loadsOf(assigned))
    BY <1>4, <1>6
  <1>8. \A w \in 1..workers : Bytes(size, AssignedTo(assigned, files, w)) <= BestLoad
    <2> HIDE DEF loadsOf
    <2>1. QED
      BY <1>3, <1>7
  <1>9. QED
    BY <1>4, <1>6, <1>7, <1>8 DEF Within

-----------------------------------------------------------------------------
(* Close to the best *)

(* There is a bin for each worker, unless there are fewer files.           *)
EnoughBins == \A k \in Nat : DOMAIN bins = 1..k /\ k # workers => Cardinality(DOMAIN size) <= k

(* Whatever bound D the workers can keep: a bin keeps it too, or its       *)
(* smallest file is at most a third of it.                                 *)
Bounded ==
  \A D \in Nat : \A assigned : Within(size, DOMAIN size, workers, assigned, D) =>
    \A i \in DOMAIN bins :
      loads[i] <= D \/ (DOMAIN bins = 1..workers /\ \E p \in bins[i] : 3 * size[p] <= D)

BoundInv == BalanceInv /\ EnoughBins /\ Bounded

(* When no bin is empty and a file is left, no worker is without a bin.    *)
LEMMA BinsFilled ==
  ASSUME BalanceInv, EnoughBins, NEW k \in Nat, Holds(k), \A j \in 1..k : bins[j] # {}, NEW p \in undealt
  PROVE  k = workers
  <1>1. bins \in [1..k -> SUBSET DOMAIN size] /\ DOMAIN bins = 1..k
    BY DEF Holds
  <1>2. /\ \A j \in 1..k : bins[j] \subseteq DOMAIN size \ {p}
        /\ \A i, j \in 1..k : i # j => bins[i] \cap bins[j] = {}
    BY <1>1 DEF BalanceInv, Shared
  <1>3. IsFiniteSet(DOMAIN size) /\ p \in DOMAIN size
    BY FilesToDealAssumption, FS_Subset DEF BalanceInv, Sizes
  <1>4. PICK first : first = [j \in 1..k |-> CHOOSE q \in bins[j] : TRUE]
    OBVIOUS
  <1>5. \A j \in 1..k : first[j] \in bins[j]
    BY <1>4
  <1>6. first \in [1..k -> DOMAIN size \ {p}] /\ \A i, j \in 1..k : first[i] = first[j] => i = j
    BY <1>2, <1>4, <1>5
  <1>7. /\ IsFiniteSet(DOMAIN size \ {p}) /\ Cardinality(DOMAIN size \ {p}) = Cardinality(DOMAIN size) - 1
        /\ Cardinality(DOMAIN size) \in Nat
    BY <1>3, FS_RemoveElement, FS_CardinalityType
  <1>8. Cardinality(1..k) <= Cardinality(DOMAIN size \ {p}) /\ Cardinality(1..k) = k
    <2>1. Cardinality(1..k) = k
      BY FS_Interval
    <2>2. PICK others : others = DOMAIN size \ {p}
      OBVIOUS
    <2>3. /\ IsFiniteSet(others) /\ first \in [1..k -> others]
          /\ \A i, j \in 1..k : first[i] = first[j] => i = j
      BY <1>6, <1>7, <2>2
    <2>4. Cardinality(1..k) <= Cardinality(others)
      BY <2>3, CountedBy
    <2>5. QED
      BY <2>1, <2>2, <2>4
  <1>9. QED
    BY <1>1, <1>7, <1>8 DEF EnoughBins

(* If the least loaded bin outgrows D with p, no bin is empty, since p     *)
(* alone fits.  If p were more than a third of D, so were all files before *)
(* it, and there would be one more than the workers can take within D.     *)
LEMMA DealKeepsBound ==
  ASSUME BoundInv, DealFile
  PROVE  EnoughBins' /\ Bounded'
  <1>1. PICK p, k, i : Dealing(p, k, i)
    BY DealIs DEF BoundInv
  <1>2. /\ p \in undealt /\ k \in 1..workers /\ i \in 1..k
        /\ \A q \in undealt : size[q] <= size[p]
        /\ Holds(k)
        /\ \A j \in 1..k : loads[i] <= loads[j] /\ p \notin bins[j]
        /\ bins' \in [1..k -> SUBSET DOMAIN size] /\ loads' \in [1..k -> Nat]
        /\ bins'[i] = bins[i] \cup {p} /\ loads'[i] = loads[i] + size[p]
        /\ \A j \in 1..k \ {i} : bins'[j] = bins[j] /\ loads'[j] = loads[j]
        /\ undealt' = undealt \ {p} /\ size' = size /\ workers' = workers
    BY <1>1 DEF Dealing
  <1>3. /\ bins \in [1..k -> SUBSET DOMAIN size] /\ loads \in [1..k -> Nat]
        /\ \A j \in 1..k : loads[j] = Bytes(size, bins[j])
    BY <1>2 DEF Holds
  <1>4. /\ Sized(size, DOMAIN size) /\ workers \in Nat \ {0}
        /\ undealt \in SUBSET DOMAIN size /\ \A q \in DOMAIN size : size[q] \in Nat
    BY <1>2 DEF BoundInv, BalanceInv, Sizes, Sized
  <1>5. EnoughBins'
    BY <1>2, <1>3 DEF BoundInv, EnoughBins
  <1>6. ASSUME NEW D \in Nat, NEW assigned, Within(size, DOMAIN size, workers, assigned, D),
               loads[i] + size[p] > D
        PROVE  k = workers /\ 3 * size[p] <= D
    <2>1. size[p] <= D /\ size[p] \in Nat /\ loads[i] \in Nat
      BY <1>2, <1>3, <1>4, <1>6, FileIsWithin
    <2>2. \A j \in 1..k : bins[j] # {}
      <3>1. \A j \in 1..k : loads[j] # 0
        BY <1>2, <1>3, <1>6, <2>1
      <3>2. QED
        BY <1>3, <3>1, BytesOfNone
    <2>3. k = workers
      <3>1. k \in Nat /\ Holds(k) /\ p \in undealt /\ BalanceInv /\ EnoughBins
        BY <1>2, <1>4 DEF BoundInv
      <3>2. QED
        BY <2>2, <3>1, BinsFilled
    <2>4. ASSUME 3 * size[p] > D PROVE FALSE
      <3>1. PICK all : all = (DOMAIN size \ undealt) \cup {p}
        OBVIOUS
      <3>2. all \in SUBSET DOMAIN size /\ p \in all /\ all \ {p} = DOMAIN size \ undealt
        BY <1>2, <1>4, <3>1
      <3>3. Share(bins, workers, all \ {p})
        <4>1. UNION {bins[j] : j \in 1..workers} = all \ {p}
          BY <1>3, <2>3, <3>2 DEF BoundInv, BalanceInv, Shared
        <4>2. \A j, l \in 1..workers : j # l => bins[j] \cap bins[l] = {}
          BY <1>3, <2>3 DEF BoundInv, BalanceInv, Shared
        <4>3. QED
          BY <1>3, <2>3, <4>1, <4>2 DEF Share
      <3>4. PICK restricted : restricted = [q \in all |-> assigned[q]]
        OBVIOUS
      <3>5. Within(size, all, workers, restricted, D)
        BY <1>4, <1>6, <3>2, <3>4, WithinPart
      <3>6. \A q \in all : 3 * size[q] > D /\ size[p] <= size[q]
        <4>1. ASSUME NEW q \in all \ {p} PROVE size[p] <= size[q] /\ size[q] \in Nat
          <5>1. \E j \in 1..k : q \in bins[j]
            BY <2>3, <3>3 DEF Share
          <5>2. QED
            BY <1>2, <1>3, <1>4, <5>1 DEF BoundInv, BalanceInv, SmallerToCome
        <4>2. QED
          BY <2>1, <2>4, <4>1
      <3>7. \A j \in 1..workers : Bytes(size, bins[j]) + size[p] > D
        BY <1>2, <1>3, <1>6, <2>1, <2>3
      <3>8. TooMany(size, all, p, workers, bins, restricted, D)
        BY <1>4, <3>2, <3>3, <3>5, <3>6, <3>7 DEF TooMany, Sized
      <3>9. QED
        BY <3>8, NotTooMany
    <2>5. QED
      BY <2>1, <2>3, <2>4
  <1>7. ASSUME NEW D \in Nat, NEW assigned, Within(size, DOMAIN size, workers, assigned, D), NEW j \in 1..k
        PROVE  loads'[j] <= D \/ (DOMAIN bins' = 1..workers /\ \E q \in bins'[j] : 3 * size[q] <= D)
    <2>1. CASE j = i
      <3>1. CASE loads[i] + size[p] > D
        <4>1. k = workers /\ 3 * size[p] <= D
          BY <1>6, <1>7, <3>1
        <4>2. DOMAIN bins' = 1..workers /\ p \in bins'[j]
          BY <1>2, <2>1, <4>1
        <4>3. QED
          BY <4>1, <4>2
      <3>2. CASE ~(loads[i] + size[p] > D)
        <4>1. loads'[j] = loads[i] + size[p] /\ loads'[j] \in Nat
          BY <1>2, <2>1
        <4>2. QED
          BY <3>2, <4>1
      <3>3. QED
        BY <3>1, <3>2
    <2>2. CASE j # i
      BY <1>2, <1>3, <1>7, <2>2 DEF BoundInv, Bounded
    <2>3. QED
      BY <2>1, <2>2
  <1>8. Bounded'
    BY <1>2, <1>7 DEF Bounded
  <1>9. QED
    BY <1>5, <1>8

LEMMA SameInterval ==
  ASSUME NEW m \in Nat, NEW n \in Nat, 1..m = 1..n
  PROVE  m = n
  <1>1. m \in 1..m \/ m = 0
    OBVIOUS
  <1>2. n \in 1..n \/ n = 0
    OBVIOUS
  <1>3. QED
    BY <1>1, <1>2

LEMMA NothingBound == BalanceInit => BoundInv
  <1> SUFFICES ASSUME BalanceInit PROVE BoundInv
    OBVIOUS
  <1>1. BalanceInv
    BY NothingDealt
  <1>2. DOMAIN bins = {} /\ DOMAIN size = {}
    BY DEF BalanceInit, NoFiles
  <1>3. EnoughBins
    BY <1>2, FS_EmptySet DEF EnoughBins
  <1>4. Bounded
    BY <1>2 DEF Bounded
  <1>5. QED
    BY <1>1, <1>3, <1>4 DEF BoundInv

LEMMA BoundStep ==
  ASSUME BoundInv, [BalanceNext]_balanceVars
  PROVE  BoundInv'
  <1>1. BalanceInv'
    BY BalanceStep DEF BoundInv
  <1>2. CASE BalanceEntries
    <2>1. PICK entries \in SUBSET Paths, count \in WorkerCounts :
            /\ size' \in [entries -> FileSizes] /\ workers' = count
            /\ bins' = [i \in Bins(entries, count) |-> {}]
            /\ loads' = [i \in Bins(entries, count) |-> 0]
      BY <1>2 DEF BalanceEntries
    <2>2. Bounded'
      BY <2>1 DEF Bounded
    <2>3. EnoughBins'
      <3>1. count \in Nat \ {0} /\ DOMAIN size' = entries /\ DOMAIN bins' = Bins(entries, count)
        BY <2>1, WorkerCountsAssumption
      <3>2. PICK n \in Nat : n = Cardinality(entries)
        BY FilesToDealAssumption, FS_Subset, FS_CardinalityType
      <3>3. PICK least \in Nat : least = Max({1, n}) /\ n <= least
        BY <3>2, MaxOfTwo
      <3>4. Min({count, least}) \in {count, least}
        BY <3>1, <3>3, MinOfNats
      <3>5. Bins(entries, count) = 1..Min({count, least})
        BY <3>2, <3>3 DEF Bins
      <3>6. ASSUME NEW k \in Nat, DOMAIN bins' = 1..k, k # count PROVE Cardinality(entries) <= k
        <4>1. k = Min({count, least})
          BY <3>1, <3>3, <3>4, <3>5, <3>6, SameInterval
        <4>2. QED
          BY <3>2, <3>3, <3>4, <3>6, <4>1
      <3>7. QED
        BY <2>1, <3>1, <3>6 DEF EnoughBins
    <2>4. QED
      BY <1>1, <2>2, <2>3 DEF BoundInv
  <1>3. CASE DealFile
    BY <1>1, <1>3, DealKeepsBound DEF BoundInv
  <1>4. CASE NextPhase
    <2>1. BalanceInit'
      BY <1>4 DEF NextPhase, BalanceInit
    <2>2. QED
      BY <2>1, NothingBound, PTL
  <1>5. CASE UNCHANGED balanceVars
    BY <1>1, <1>5 DEF balanceVars, BoundInv, EnoughBins, Bounded
  <1>6. QED
    BY <1>2, <1>3, <1>4, <1>5 DEF BalanceNext

(* The arithmetic of the bound.                                            *)
LEMMA ThirdOfBound ==
  ASSUME NEW m \in Nat \ {0}, NEW D \in Nat, NEW load \in Nat,
         \/ load <= D
         \/ \E s \in Nat : s <= load /\ 3 * s <= D /\ m * (load - s) + s <= m * D
  PROVE  3 * m * load <= (4 * m - 1) * D
  <1>1. CASE load <= D
    BY <1>1
  <1>2. CASE \E s \in Nat : s <= load /\ 3 * s <= D /\ m * (load - s) + s <= m * D
    BY <1>2
  <1>3. QED
    BY <1>1, <1>2

(* The smallest file of a bin beyond D is at most a third of D, and        *)
(* without it no bin has less, so they all fit m * D.                      *)
LEMMA BoundIsEnough ==
  ASSUME BoundInv
  PROVE  WithinAThird
  <1> SUFFICES ASSUME workers # 0, undealt = {}, NEW i \in DOMAIN bins
               PROVE  3 * workers * Bytes(size, bins[i]) <= (4 * workers - 1) * BestLoad
    BY DEF WithinAThird, Dealt
  <1>1. workers \in Nat \ {0} /\ Sized(size, DOMAIN size)
    BY DEF BoundInv, BalanceInv, Sizes, Sized
  <1>2. PICK k \in 1..workers : Holds(k)
    BY <1>1, ShapeIs DEF BoundInv, BalanceInv
  <1>3. /\ bins \in [1..k -> SUBSET DOMAIN size] /\ loads \in [1..k -> Nat]
        /\ \A j \in 1..k : loads[j] = Bytes(size, bins[j])
    BY <1>2 DEF Holds
  <1>4. PICK D \in Nat : D = BestLoad
    BY BestIsReached DEF BoundInv, BalanceInv
  <1>5. PICK assigned : Within(size, DOMAIN size, workers, assigned, D)
    BY <1>4, BestIsReached DEF BoundInv, BalanceInv
  <1>6. i \in 1..k /\ loads[i] \in Nat /\ loads[i] = Bytes(size, bins[i])
    BY <1>3
  <1>7. CASE loads[i] <= D
    BY <1>1, <1>4, <1>6, <1>7, ThirdOfBound
  <1>8. CASE DOMAIN bins = 1..workers /\ \E p \in bins[i] : 3 * size[p] <= D
    <2>1. PICK p \in bins[i] : 3 * size[p] <= D
      BY <1>8
    <2>2. p \in DOMAIN size /\ size[p] \in Nat /\ Sized(size, bins[i])
      BY <1>1, <1>3, <1>6 DEF Sized
    <2>3. Bytes(size, bins[i] \ {p}) = loads[i] - size[p] /\ size[p] <= loads[i]
      BY <1>6, <2>2, BytesRemove, BytesAtLeastOne
    <2>4. PICK x \in Nat : x = loads[i] - size[p]
      BY <1>6, <2>2, <2>3
    <2>5. Share(bins, workers, DOMAIN size)
      <3>1. UNION {bins[j] : j \in 1..workers} = DOMAIN size
        BY <1>8 DEF BoundInv, BalanceInv, Shared
      <3>2. \A j, l \in 1..workers : j # l => bins[j] \cap bins[l] = {}
        BY <1>8 DEF BoundInv, BalanceInv, Shared
      <3>3. bins \in [1..workers -> SUBSET DOMAIN size]
        BY <1>3, <1>8
      <3>4. QED
        BY <3>1, <3>2, <3>3 DEF Share
    <2>6. \A j \in 1..workers : x <= Bytes(size, bins[j])
      <3>1. \A j \in 1..workers : loads[i] - size[p] <= loads[j] /\ loads[j] = Bytes(size, bins[j])
        BY <1>3, <1>6, <1>8, <2>1 DEF BoundInv, BalanceInv, Even
      <3>2. QED
        BY <2>4, <3>1
    <2>7. i \in 1..workers /\ x <= Bytes(size, bins[i] \ {p})
      BY <1>8, <2>3, <2>4
    <2>8. workers * x + size[p] <= workers * D
      BY <1>1, <1>5, <2>1, <2>5, <2>6, <2>7, LeftForOne
    <2>9. size[p] <= loads[i] /\ 3 * size[p] <= D /\ workers * (loads[i] - size[p]) + size[p] <= workers * D
      BY <2>1, <2>3, <2>4, <2>8
    <2>10. QED
      BY <1>1, <1>4, <1>6, <2>2, <2>9, ThirdOfBound
  <1>9. QED
    BY <1>3, <1>5, <1>7, <1>8 DEF BoundInv, Bounded

(* Over any files and any number of workers no worker has more than 4/3 -  *)
(* 1/3m of the heaviest one of the best assignment, for m workers: the     *)
(* order by size keeps the transfer within a third of the shortest one     *)
(* (scheduler.py:28-38).                                                   *)
THEOREM DealtWell == BalanceSpec => []NearOptimal
  <1>1. BalanceInit => BoundInv
    BY NothingBound
  <1>2. BoundInv /\ [BalanceNext]_balanceVars => BoundInv'
    BY BoundStep
  <1>3. BoundInv => WithinAThird
    BY BoundIsEnough
  <1>4. QED
    BY <1>1, <1>2, <1>3, DealtEvenly, PTL DEF BalanceSpec, NearOptimal
=============================================================================
