-------------------------- MODULE BinFilter_proofs --------------------------
(* The safety properties of BinFilter.  The blanking is exact for every width *)
(* of the tick counter, every blanking time below half of it, and every       *)
(* moment it wraps; the reported level follows what most of the window says,  *)
(* for every window, threshold and calibration.                               *)
EXTENDS BinFilter, FiniteSetTheorems, WellFoundedInduction, TLAPS

(* Half the counter's range is what tells before from after: a stamp that is  *)
(* d ticks ahead, 0 < d < Half, is seen as ahead wherever the counter wraps.  *)
LEMMA AheadIsBefore ==
  ASSUME NEW h \in Nat, Half = h, NEW t \in 0..(2 * Half - 1), NEW d \in Nat, 0 < d, d < Half
  PROVE Before(t, After(t, d))
  BY DEF Before, After, Wrap

LEMMA ClockHolds == BinAssumption /\ Init => ClockInv
  BY DEF BinAssumption, Init, ClockInv, Wrap

LEMMA ClockStep == BinAssumption /\ ClockInv /\ [Next]_vars => ClockInv'
<1> SUFFICES ASSUME BinAssumption, ClockInv, [Next]_vars PROVE ClockInv'
  OBVIOUS
<1> USE DEF BinAssumption, ClockInv, After, Wrap
<1>1. CASE Tick
  BY <1>1 DEF Tick
<1>2. CASE BinFilter_Notify_Drop
  BY <1>2 DEF BinFilter_Notify_Drop
<1>3. CASE BinFilter_Reset
  BY <1>3 DEF BinFilter_Reset
<1>4. ASSUME NEW cm \in Readings, BinFilter_Update(cm) PROVE ClockInv'
  BY <1>4 DEF BinFilter_Update
<1>5. CASE UNCHANGED vars
  BY <1>5 DEF vars
<1> QED
  BY <1>1, <1>2, <1>3, <1>4, <1>5 DEF Next

(* A step that takes a reading finds the bin past its blanking. *)
LEMMA TakesWhenUsable ==
  ASSUME BinAssumption, ClockInv, [Next]_vars
  PROVE idx' # idx \/ buf' # buf => sinceDrop = Blanking \/ count' = 0
<1>1. CASE Tick \/ BinFilter_Notify_Drop \/ UNCHANGED vars
  BY <1>1 DEF Tick, BinFilter_Notify_Drop, vars
<1>2. CASE BinFilter_Reset
  BY <1>2 DEF BinFilter_Reset
<1>3. ASSUME NEW cm \in Readings, BinFilter_Update(cm), ~Blanked PROVE sinceDrop = Blanking
  <2>1. SUFFICES ASSUME sinceDrop < Blanking PROVE FALSE
    BY DEF ClockInv, BinAssumption
  <2> DEFINE left == Blanking - sinceDrop
  <2>2. until = After(now, left) /\ left \in Nat /\ 0 < left /\ left < Half
    BY <2>1 DEF ClockInv, BinAssumption
  <2>3. Half \in Nat /\ now \in 0..(2 * Half - 1)
    BY DEF ClockInv, BinAssumption, Wrap
  <2> HIDE DEF left
  <2>4. Before(now, After(now, left))
    BY <2>2, <2>3, AheadIsBefore
  <2> QED
    BY <1>3, <2>2, <2>4 DEF Blanked
<1>4. ASSUME NEW cm \in Readings, BinFilter_Update(cm), Blanked PROVE idx' = idx /\ buf' = buf
  BY <1>4 DEF BinFilter_Update, Usable
<1> QED
  BY <1>1, <1>2, <1>3, <1>4 DEF Next

(* No reading is taken while an item may still be falling past the sensor.    *)
THEOREM DropIsBlanked == Spec => BlanksAfterDrop
<1>1. Spec => []ClockInv
  BY ClockHolds, ClockStep, BinAssumption, PTL DEF Spec
<1>2. ClockInv /\ [Next]_vars
        => [idx' # idx \/ buf' # buf => sinceDrop = Blanking \/ count' = 0]_vars
  BY TakesWhenUsable, BinAssumption
<1> QED
  BY <1>1, <1>2, PTL DEF Spec, BlanksAfterDrop

-----------------------------------------------------------------------------
(* What the average of the window is made of.  The fold that sums a set is a  *)
(* recursive function on its subsets: SumFun, once SumFunIsThere shows that   *)
(* such a function exists.                                                    *)
SumStep(f, S, g) ==
  [s \in SUBSET S |->
     IF s = {} THEN 0
     ELSE f[CHOOSE x \in s : TRUE] + g[s \ {CHOOSE x \in s : TRUE}]]

SumFun(f, S) == CHOOSE g : g = SumStep(f, S, g)

LEMMA SumIsFold ==
  ASSUME NEW f, NEW S
  PROVE  MapThenSumSet(LAMBDA i : f[i], S) = SumFun(f, S)[S]
  BY DEF MapThenSumSet, MapThenFoldSet, SumFun, SumStep

LEMMA LeastNatural ==
  ASSUME NEW S, S \subseteq Nat, S # {}
  PROVE  \E n \in S : \A k \in S : n <= k
<1>1. PICK n \in S : \A k \in S : <<k, n>> \notin OpToRel(<, Nat)
  BY WFMin, NatLessThanWellFounded, Zenon
<1>2. \A k \in S : ~(k < n)
  BY <1>1, Zenon DEF OpToRel
<1> QED
  BY <1>2

(* A property of 0 that passes from n to n + 1 holds up to any bound. *)
LEMMA UpTo ==
  ASSUME NEW P, NEW m \in Nat, 0 \in P, \A n \in 0..m : n \in P => n + 1 \in P
  PROVE  m \in P
<1> SUFFICES ASSUME m \notin P PROVE FALSE
  OBVIOUS
<1> DEFINE bare == {n \in 0..m : n \notin P}
<1>1. bare \subseteq Nat /\ m \in bare
  OBVIOUS
<1>2. PICK n \in bare : \A k \in bare : n <= k
  BY <1>1, LeastNatural
<1>3. n # 0 /\ n \in 0..m /\ n \notin P
  BY <1>2
<1>4. n - 1 \in 0..m /\ (n - 1) + 1 = n /\ ~(n <= n - 1)
  BY <1>3
<1>5. n - 1 \in P
  BY <1>2, <1>4
<1> QED
  BY <1>3, <1>4, <1>5

(* One element fewer, for a nonempty subset of a finite set. *)
LEMMA OneLess ==
  ASSUME NEW S, IsFiniteSet(S), NEW s \in SUBSET S, s # {}, NEW x \in s
  PROVE  /\ s \ {x} \in SUBSET S
         /\ Cardinality(s) \in Nat \ {0}
         /\ Cardinality(s \ {x}) = Cardinality(s) - 1
<1>1. IsFiniteSet(s)
  BY FS_Subset
<1>2. Cardinality(s) \in Nat /\ Cardinality(s) # 0
  BY <1>1, FS_CardinalityType, FS_EmptySet
<1>3. Cardinality(s \ {x}) = Cardinality(s) - 1
  BY <1>1, FS_RemoveElement
<1> QED
  BY <1>2, <1>3

LEMMA SumFunIsThere ==
  ASSUME NEW f, NEW S, IsFiniteSet(S)
  PROVE  SumFun(f, S) = SumStep(f, S, SumFun(f, S))
<1> DEFINE Fixed(n, g) ==
             /\ g \in [SUBSET S -> {g[s] : s \in SUBSET S}]
             /\ \A s \in SUBSET S : Cardinality(s) <= n => g[s] = SumStep(f, S, g)[s]
           P == {n \in Nat : \E g : Fixed(n, g)}
<1>1. \A g : SumStep(f, S, g) \in
         [SUBSET S -> {SumStep(f, S, g)[s] : s \in SUBSET S}]
  BY DEF SumStep
<1>2. \A s \in SUBSET S : Cardinality(s) \in Nat /\ (Cardinality(s) <= Cardinality(S))
  BY FS_Subset, FS_CardinalityType
<1>3. Cardinality(S) \in Nat
  BY FS_CardinalityType
<1>4. 0 \in P
  <2> DEFINE zero == [s \in SUBSET S |-> 0]
  <2>1. ASSUME NEW s \in SUBSET S, Cardinality(s) <= 0 PROVE zero[s] = SumStep(f, S, zero)[s]
    <3>1. IsFiniteSet(s) /\ Cardinality(s) = 0
      BY <2>1, <1>2, FS_Subset
    <3>2. s = {}
      BY <3>1, FS_EmptySet
    <3> QED
      BY <3>2 DEF SumStep
  <2>2. zero \in [SUBSET S -> {zero[s] : s \in SUBSET S}]
    OBVIOUS
  <2>3. Fixed(0, zero)
    BY <2>1, <2>2
  <2> QED
    BY <2>3
<1>5. ASSUME NEW n \in 0..Cardinality(S), n \in P PROVE n + 1 \in P
  <2>1. PICK g : Fixed(n, g)
    BY <1>5
  <2> DEFINE h == SumStep(f, S, g)
  <2>2. ASSUME NEW s \in SUBSET S, Cardinality(s) <= n + 1 PROVE h[s] = SumStep(f, S, h)[s]
    <3>1. CASE s = {}
      BY <3>1 DEF SumStep
    <3>2. CASE s # {}
      <4> DEFINE x == CHOOSE x \in s : TRUE
      <4>1. x \in s
        BY <3>2
      <4>2. s \ {x} \in SUBSET S /\ Cardinality(s \ {x}) <= n
        <5> HIDE DEF x
        <5>1. /\ s \ {x} \in SUBSET S /\ Cardinality(s) \in Nat
              /\ Cardinality(s \ {x}) = Cardinality(s) - 1
          BY <4>1, <2>2, <3>2, OneLess
        <5> QED
          BY <1>3, <2>2, <5>1
      <4>3. g[s \ {x}] = h[s \ {x}]
        BY <2>1, <4>2
      <4>4. h[s] = f[x] + g[s \ {x}]
        BY <3>2 DEF SumStep
      <4>5. SumStep(f, S, h)[s] = f[x] + h[s \ {x}]
        BY <3>2 DEF SumStep
      <4> QED
        BY <4>3, <4>4, <4>5
    <3> QED
      BY <3>1, <3>2
  <2>3. Fixed(n + 1, h)
    BY <1>1, <2>2
  <2> QED
    BY <2>3
<1>6. Cardinality(S) \in P
  <2> HIDE DEF P
  <2> QED
    BY <1>3, <1>4, <1>5, UpTo
<1>7. PICK g : Fixed(Cardinality(S), g)
  BY <1>6
<1>8. \A s \in SUBSET S : g[s] = SumStep(f, S, g)[s]
  BY <1>2, <1>7
<1>9. g = SumStep(f, S, g)
  <2>1. g = [s \in SUBSET S |-> g[s]]
    BY <1>7
  <2>2. SumStep(f, S, g) = [s \in SUBSET S |-> SumStep(f, S, g)[s]]
    BY <1>1
  <2> QED
    BY <1>8, <2>1, <2>2
<1> QED
  BY <1>9 DEF SumFun

(* A sum lies between the least and the greatest of its terms, times their    *)
(* number.                                                                    *)
LEMMA SumBounds ==
  ASSUME NEW f, NEW S, IsFiniteSet(S), NEW lo \in Int, NEW hi \in Int,
         \A i \in S : f[i] \in Int /\ lo <= f[i] /\ f[i] <= hi
  PROVE  /\ SumFun(f, S)[S] \in Int
         /\ lo * Cardinality(S) <= SumFun(f, S)[S]
         /\ SumFun(f, S)[S] <= hi * Cardinality(S)
<1> DEFINE it == SumFun(f, S)
           Bounded(s) == /\ it[s] \in Int
                         /\ lo * Cardinality(s) <= it[s]
                         /\ it[s] <= hi * Cardinality(s)
           P == {n \in Nat : \A s \in SUBSET S : Cardinality(s) = n => Bounded(s)}
<1>1. it = SumStep(f, S, it)
  BY SumFunIsThere
<1>2. \A s \in SUBSET S : IsFiniteSet(s) /\ Cardinality(s) \in Nat
  BY FS_Subset, FS_CardinalityType
<1> HIDE DEF it
<1>3. 0 \in P
  <2>1. ASSUME NEW s \in SUBSET S, Cardinality(s) = 0 PROVE Bounded(s)
    <3>1. s = {}
      BY <2>1, <1>2, FS_EmptySet
    <3>2. it[s] = 0
      BY <1>1, <3>1 DEF SumStep
    <3> QED
      BY <2>1, <3>2
  <2> QED
    BY <2>1
<1>4. ASSUME NEW n \in 0..Cardinality(S), n \in P PROVE n + 1 \in P
  <2>1. ASSUME NEW s \in SUBSET S, Cardinality(s) = n + 1 PROVE Bounded(s)
    <3> DEFINE x == CHOOSE x \in s : TRUE
    <3>1. s # {}
      BY <2>1, FS_EmptySet
    <3>2. x \in s
      BY <3>1
    <3>3. s \ {x} \in SUBSET S /\ Cardinality(s \ {x}) = n
      <4> HIDE DEF x
      <4>1. s \ {x} \in SUBSET S /\ Cardinality(s \ {x}) = Cardinality(s) - 1
        BY <3>1, <3>2, OneLess
      <4> QED
        BY <2>1, <4>1
    <3>4. it[s] = f[x] + it[s \ {x}]
      <4>1. SumStep(f, S, it)[s] = f[x] + it[s \ {x}]
        BY <3>1 DEF SumStep
      <4> QED
        BY <1>1, <4>1
    <3>5. Bounded(s \ {x})
      BY <1>4, <3>3
    <3> DEFINE y == f[x]
               z == it[s \ {x}]
    <3>6. y \in Int /\ lo <= y /\ y <= hi
      BY <3>2
    <3>7. z \in Int /\ lo * n <= z /\ z <= hi * n
      BY <3>3, <3>5
    <3>8. it[s] = y + z
      BY <3>4
    <3> HIDE DEF x, y, z
    <3>9. lo * (n + 1) <= y + z /\ y + z <= hi * (n + 1) /\ y + z \in Int
      BY <3>6, <3>7
    <3> QED
      BY <2>1, <3>8, <3>9
  <2> QED
    BY <2>1
<1>5. Cardinality(S) \in P
  <2>1. Cardinality(S) \in Nat
    BY FS_CardinalityType
  <2> HIDE DEF P
  <2> QED
    BY <1>3, <1>4, <2>1, UpTo
<1> QED
  BY <1>5 DEF it

(* The median of n samples exists: the least m that more than half of them do *)
(* not exceed.                                                                *)
Below(samples, n, m) == {i \in 0..(n - 1) : samples[i] < m}
UpToSample(samples, n, m) == {i \in 0..(n - 1) : samples[i] <= m}

IsMedian(samples, n, m) ==
  /\ m \in {samples[i] : i \in 0..(n - 1)}
  /\ Cardinality(Below(samples, n, m)) <= n \div 2
  /\ Cardinality(UpToSample(samples, n, m)) > n \div 2

LEMMA PartOfInterval ==
  ASSUME NEW n \in Nat \ {0}, NEW T \in SUBSET (0..(n - 1))
  PROVE  IsFiniteSet(T) /\ Cardinality(T) \in 0..n /\ Cardinality(0..(n - 1)) = n
<1>1. IsFiniteSet(0..(n - 1)) /\ Cardinality(0..(n - 1)) = n
  BY FS_Interval
<1>2. IsFiniteSet(T) /\ Cardinality(T) <= n
  BY <1>1, FS_Subset
<1> QED
  BY <1>1, <1>2, FS_CardinalityType

LEMMA MedianIsThere ==
  ASSUME NEW n \in Nat \ {0}, NEW top \in Nat, NEW samples,
         \A i \in 0..(n - 1) : samples[i] \in 0..top
  PROVE  IsMedian(samples, n, Median(samples, n))
<1> DEFINE Most == {m \in Nat : Cardinality(UpToSample(samples, n, m)) > n \div 2}
<1>1. top \in Most
  <2>1. UpToSample(samples, n, top) = 0..(n - 1)
    BY DEF UpToSample
  <2>2. Cardinality(0..(n - 1)) = n
    BY FS_Interval
  <2> QED
    BY <2>1, <2>2
<1>2. PICK m \in Most : \A k \in Most : m <= k
  <2>1. Most \subseteq Nat /\ Most # {}
    BY <1>1
  <2> HIDE DEF Most
  <2> QED
    BY <2>1, LeastNatural
<1>3. \A k \in Nat : k < m => Cardinality(UpToSample(samples, n, k)) <= n \div 2
  <2> SUFFICES ASSUME NEW k \in Nat, k < m PROVE Cardinality(UpToSample(samples, n, k)) <= n \div 2
    OBVIOUS
  <2>1. k \notin Most
    BY <1>2
  <2>2. Cardinality(UpToSample(samples, n, k)) \in Nat
    <3>1. UpToSample(samples, n, k) \in SUBSET (0..(n - 1))
      BY DEF UpToSample
    <3> QED
      BY <3>1, PartOfInterval
  <2> QED
    BY <2>1, <2>2
<1>4. Cardinality(Below(samples, n, m)) <= n \div 2
  <2>1. CASE m = 0
    <3>1. Below(samples, n, m) = {}
      BY <2>1 DEF Below
    <3> QED
      BY <3>1, FS_EmptySet
  <2>2. CASE m # 0
    <3>1. m - 1 \in Nat /\ m - 1 < m
      BY <2>2
    <3>2. Below(samples, n, m) = UpToSample(samples, n, m - 1)
      BY <3>1 DEF Below, UpToSample
    <3> QED
      BY <1>3, <3>1, <3>2
  <2> QED
    BY <2>1, <2>2
<1>5. m \in {samples[i] : i \in 0..(n - 1)}
  <2> SUFFICES ASSUME \A i \in 0..(n - 1) : samples[i] # m PROVE FALSE
    OBVIOUS
  <2>1. Below(samples, n, m) = UpToSample(samples, n, m)
    BY DEF Below, UpToSample
  <2>2. Cardinality(UpToSample(samples, n, m)) > n \div 2
    BY <1>2
  <2>3. Cardinality(Below(samples, n, m)) \in Nat
    BY PartOfInterval DEF Below
  <2> QED
    BY <1>4, <2>1, <2>2, <2>3
<1>6. IsMedian(samples, n, m)
  BY <1>2, <1>4, <1>5 DEF IsMedian
<1> QED
  BY <1>6, Zenon DEF IsMedian, Median, Below, UpToSample

(* A value that more than half of the samples share is their median. *)
LEMMA MajorityIsMedian ==
  ASSUME NEW n \in Nat \ {0}, NEW samples, NEW v \in Int, NEW m \in Int,
         \A i \in 0..(n - 1) : samples[i] \in Int,
         2 * Cardinality({i \in 0..(n - 1) : samples[i] = v}) > n,
         IsMedian(samples, n, m)
  PROVE  m = v
<1> DEFINE same == {i \in 0..(n - 1) : samples[i] = v}
           low == Below(samples, n, m)
           upto == UpToSample(samples, n, m)
<1>1. /\ IsFiniteSet(same) /\ Cardinality(same) \in 0..n
      /\ IsFiniteSet(low) /\ Cardinality(low) \in 0..n
      /\ IsFiniteSet(upto) /\ Cardinality(upto) \in 0..n
  BY PartOfInterval DEF Below, UpToSample
<1>2. Cardinality(low) <= n \div 2 /\ Cardinality(upto) > n \div 2
  BY DEF IsMedian
<1>3. ASSUME m < v PROVE FALSE
  <2>1. same \cap upto = {} /\ same \cup upto \in SUBSET (0..(n - 1))
    BY <1>3 DEF UpToSample
  <2>2. Cardinality(same \cup upto) <= n
    <3> HIDE DEF same, upto
    <3>1. Cardinality(same \cup upto) \in 0..n
      BY <2>1, PartOfInterval
    <3> QED
      BY <3>1
  <2>3. Cardinality(same \cup upto) = Cardinality(same) + Cardinality(upto) - 0
    BY <1>1, <2>1, FS_Union, FS_EmptySet
  <2> HIDE DEF same, upto
  <2>4. 2 * Cardinality(same) > n
    BY DEF same
  <2> QED
    BY <1>1, <1>2, <2>2, <2>3, <2>4
<1>4. ASSUME v < m PROVE FALSE
  <2>1. same \in SUBSET low
    BY <1>4 DEF Below
  <2>2. Cardinality(same) <= Cardinality(low)
    BY <1>1, <2>1, FS_Subset
  <2> HIDE DEF same, low
  <2>3. 2 * Cardinality(same) > n
    BY DEF same
  <2> QED
    BY <1>1, <1>2, <2>2, <2>3
<1> QED
  BY <1>3, <1>4

(* The average lies between the bounds, times Scale, of the samples it is     *)
(* made of: those within the outlier threshold of the median.                 *)
LEMMA AverageBounds ==
  ASSUME BinAssumption, NEW n \in 1..6, NEW top \in Nat, NEW samples,
         \A i \in 0..(n - 1) : samples[i] \in 0..top,
         NEW lo \in Int, NEW hi \in Int,
         \A i \in 0..(n - 1) :
           AbsDiff(samples[i], Median(samples, n)) <= Outlier => lo <= samples[i] /\ samples[i] <= hi
  PROVE  /\ Average_Excluding_Outliers(samples, n) \in Int
         /\ lo * Scale <= Average_Excluding_Outliers(samples, n)
         /\ Average_Excluding_Outliers(samples, n) <= hi * Scale
<1> DEFINE used == {i \in 0..(n - 1) : AbsDiff(samples[i], Median(samples, n)) <= Outlier}
           c == Cardinality(used)
           sum == SumFun(samples, used)[used]
<1>1. IsFiniteSet(used) /\ c \in 0..n
  BY PartOfInterval
<1>2. used # {}
  <2>1. PICK i \in 0..(n - 1) : samples[i] = Median(samples, n)
    BY MedianIsThere DEF IsMedian
  <2>2. AbsDiff(samples[i], Median(samples, n)) <= Outlier
    BY <2>1 DEF AbsDiff, BinAssumption
  <2> QED
    BY <2>2
<1>3. c \in 1..6
  BY <1>1, <1>2, FS_EmptySet
<1>4. sum \in Int /\ lo * c <= sum /\ sum <= hi * c
  <2>1. \A i \in used : samples[i] \in Int /\ lo <= samples[i] /\ samples[i] <= hi
    OBVIOUS
  <2> HIDE DEF used
  <2> QED
    BY <1>1, <2>1, SumBounds
<1>5. Average_Excluding_Outliers(samples, n) = sum * (Scale \div c)
  <2>1. MapThenSumSet(LAMBDA i : samples[i], used) = sum
    BY SumIsFold
  <2> QED
    BY <2>1 DEF Average_Excluding_Outliers
<1> HIDE DEF used, c, sum
<1>6. /\ sum * (Scale \div c) \in Int
      /\ lo * Scale <= sum * (Scale \div c)
      /\ sum * (Scale \div c) <= hi * Scale
  <2>1. CASE c = 1
    BY <1>4, <2>1 DEF Scale
  <2>2. CASE c = 2
    BY <1>4, <2>2 DEF Scale
  <2>3. CASE c = 3
    BY <1>4, <2>3 DEF Scale
  <2>4. CASE c = 4
    BY <1>4, <2>4 DEF Scale
  <2>5. CASE c = 5
    BY <1>4, <2>5 DEF Scale
  <2>6. CASE c = 6
    BY <1>4, <2>6 DEF Scale
  <2> QED
    BY <1>3, <2>1, <2>2, <2>3, <2>4, <2>5, <2>6
<1> QED
  BY <1>5, <1>6

-----------------------------------------------------------------------------
(* The types, which the average needs: every sample of the ring is the        *)
(* distance of an empty bin or a reading that was accepted.                   *)
Top == IF DefaultEmpty > Empty + Reach THEN DefaultEmpty ELSE Empty + Reach

BinInv ==
  /\ now \in 0..(Wrap - 1) /\ until \in 0..(Wrap - 1)
  /\ buf \in [0..(Window - 1) -> 0..Top]
  /\ count \in 0..Window /\ idx \in 0..(Window - 1)
  /\ level \in 0..Percent
  /\ initialized \in BOOLEAN
  /\ sinceDrop \in 0..Blanking
  /\ steady \in [cm : Int, times : 0..Window]

(* How many readings ago position j of the ring was written, 1 for the last. *)
Behind(j) == IF j < idx THEN idx - j ELSE idx + Window - j

(* The ring ends in the readings that steady counts. *)
SteadyInv ==
  /\ steady.times <= count
  /\ \A j \in 0..(Window - 1) : Behind(j) <= steady.times => buf[j] = steady.cm

LEMMA TopType == BinAssumption => Top \in Nat /\ Percent \in Nat \ {0} /\ Percent \div 20 = 3 * (Empty - Full)
  BY DEF BinAssumption, Top, Percent, Scale

(* A distance that moves by d moves the level by d at most, and the level     *)
(* stays on its scale.                                                        *)
LEMMA ConvertBounds ==
  ASSUME BinAssumption, NEW a \in Int, NEW b \in Int, NEW d \in Nat, b - d <= a, a <= b + d
  PROVE  /\ Convert_Distance_To_Percent(a) \in 0..Percent
         /\ Convert_Distance_To_Percent(b) \in 0..Percent
         /\ AbsDiff(Convert_Distance_To_Percent(a), Convert_Distance_To_Percent(b)) <= d
  BY DEF BinAssumption, Convert_Distance_To_Percent, AbsDiff, Percent, Scale

(* The report is the rounded percentage of a level. *)
LEMMA ReportType == BinAssumption /\ level \in 0..Percent => BinFilter_Get_Percent \in 0..100
<1> SUFFICES ASSUME BinAssumption, level \in 0..Percent PROVE BinFilter_Get_Percent \in 0..100
  OBVIOUS
<1>1. Percent \in Nat \ {0}
  BY TopType
<1> QED
  BY <1>1 DEF BinFilter_Get_Percent

(* What a reading leaves behind: the level it moves to lies within the dead   *)
(* band of the new average, or is that average.                               *)
LEMMA ReadingLevel ==
  ASSUME BinAssumption, BinInv, NEW cm \in Int, Usable(cm), TakeReading(cm)
  PROVE  \E n \in 1..Window, new \in 0..Percent :
           /\ n = count' /\ count <= n /\ count' \in 0..Window
           /\ buf' = [buf EXCEPT ![idx] = cm] /\ buf' \in [0..(Window - 1) -> 0..Top]
           /\ new = Convert_Distance_To_Percent(Average_Excluding_Outliers(buf', n))
           /\ level' \in 0..Percent /\ 20 * AbsDiff(level', new) < Percent
<1> DEFINE samples == [buf EXCEPT ![idx] = cm]
           n == IF count < Window THEN count + 1 ELSE count
           avg == Average_Excluding_Outliers(samples, n)
           new == Convert_Distance_To_Percent(avg)
<1>1. n \in 1..Window /\ n \in 1..6 /\ count <= n /\ Window \in 1..6
  BY DEF BinAssumption, BinInv
<1>2. cm \in 0..Top /\ Top \in Nat
  BY TopType DEF BinAssumption, Usable, Top
<1>3. samples \in [0..(Window - 1) -> 0..Top]
  BY <1>2 DEF BinInv
<1>4. avg \in Int
  <2> HIDE DEF samples, n
  <2>1. \A i \in 0..(n - 1) : samples[i] \in 0..Top
    BY <1>1, <1>3
  <2>2. \A i \in 0..(n - 1) : 0 <= samples[i] /\ samples[i] <= Top
    BY <1>2, <2>1
  <2> QED
    BY <1>1, <1>2, <2>1, <2>2, AverageBounds
<1>5. new \in 0..Percent
  <2> HIDE DEF avg
  <2>1. avg - 0 <= avg /\ avg <= avg + 0 /\ 0 \in Nat
    BY <1>4
  <2> QED
    BY <1>4, <2>1, ConvertBounds
<1>6. buf' = samples /\ count' = n /\ level' = IF Moved(new) THEN new ELSE level
  BY DEF TakeReading
<1>7. level' \in 0..Percent /\ 20 * AbsDiff(level', new) < Percent
  <2> HIDE DEF new
  <2>1. Percent \in Nat \ {0} /\ level \in 0..Percent
    BY TopType DEF BinInv
  <2>2. CASE Moved(new)
    BY <1>5, <1>6, <2>1, <2>2 DEF AbsDiff
  <2>3. CASE ~Moved(new)
    <3>1. 20 * AbsDiff(new, level) < Percent
      BY <1>5, <2>1, <2>3 DEF Moved, AbsDiff
    <3> QED
      BY <1>5, <1>6, <2>1, <2>3, <3>1 DEF AbsDiff
  <2> QED
    BY <2>2, <2>3
<1>8. new = Convert_Distance_To_Percent(Average_Excluding_Outliers(buf', n))
  BY <1>6
<1> HIDE DEF samples, n, new
<1>9. /\ n = count' /\ count' \in 0..Window
      /\ buf' = [buf EXCEPT ![idx] = cm] /\ buf' \in [0..(Window - 1) -> 0..Top]
  BY <1>1, <1>3, <1>6 DEF samples, BinInv
<1> QED
  BY <1>1, <1>5, <1>7, <1>8, <1>9

LEMMA BinInit == BinAssumption /\ Init => BinInv /\ SteadyInv
<1> SUFFICES ASSUME BinAssumption, Init PROVE BinInv /\ SteadyInv
  OBVIOUS
<1>1. DefaultEmpty \in 0..Top /\ Percent \in Nat /\ Window \in 1..6 /\ Half \in Nat \ {0}
  BY TopType DEF BinAssumption, Top
<1>2. BinInv
  <2>1. buf \in [0..(Window - 1) -> 0..Top] /\ steady \in [cm : Int, times : 0..Window]
    BY <1>1 DEF Init
  <2>2. /\ now \in 0..(Wrap - 1) /\ until \in 0..(Wrap - 1)
        /\ count \in 0..Window /\ idx \in 0..(Window - 1)
        /\ level \in 0..Percent /\ sinceDrop \in 0..Blanking
    BY <1>1 DEF BinAssumption, Init, Wrap
  <2>3. initialized \in BOOLEAN
    BY DEF Init
  <2> QED
    BY <2>1, <2>2, <2>3, Zenon DEF BinInv
<1>3. SteadyInv
  BY <1>1 DEF Init, SteadyInv, Behind
<1> QED
  BY <1>2, <1>3

LEMMA BinStep == BinAssumption /\ BinInv /\ [Next]_vars => BinInv'
<1> SUFFICES ASSUME BinAssumption, BinInv, [Next]_vars PROVE BinInv'
  OBVIOUS
<1>1. CASE Tick
  BY <1>1 DEF BinAssumption, BinInv, Tick, After, Wrap
<1>2. CASE BinFilter_Notify_Drop
  BY <1>2 DEF BinAssumption, BinInv, BinFilter_Notify_Drop, After, Wrap
<1>3. CASE BinFilter_Reset
  <2>1. Empty \in 0..Top /\ Percent \in Nat
    BY TopType DEF BinAssumption, Top
  <2>2. buf' \in [0..(Window - 1) -> 0..Top] /\ steady' \in [cm : Int, times : 0..Window]
    BY <1>3, <2>1 DEF BinAssumption, BinFilter_Reset
  <2>3. /\ now' \in 0..(Wrap - 1) /\ until' \in 0..(Wrap - 1)
        /\ count' \in 0..Window /\ idx' \in 0..(Window - 1)
        /\ level' \in 0..Percent /\ sinceDrop' \in 0..Blanking
    BY <1>3, <2>1 DEF BinAssumption, BinInv, BinFilter_Reset, Wrap
  <2>4. initialized' \in BOOLEAN
    BY <1>3 DEF BinFilter_Reset
  <2> QED
    BY <2>2, <2>3, <2>4 DEF BinInv
<1>4. ASSUME NEW cm \in Readings, BinFilter_Update(cm), Usable(cm) PROVE BinInv'
  <2>1. cm \in Int /\ TakeReading(cm) /\ Window \in Nat \ {0}
    BY <1>4 DEF BinFilter_Update, BinAssumption
  <2>2. /\ buf' \in [0..(Window - 1) -> 0..Top]
        /\ count' \in 0..Window
        /\ level' \in 0..Percent
    BY <1>4, <2>1, ReadingLevel
  <2>3. idx' \in 0..(Window - 1) /\ initialized' \in BOOLEAN
    BY <2>1 DEF TakeReading, BinInv
  <2>4. steady' \in [cm : Int, times : 0..Window]
    BY <1>4, <2>1 DEF BinFilter_Update, BinInv
  <2>5. UNCHANGED <<now, until, sinceDrop>>
    BY <1>4 DEF BinFilter_Update
  <2> QED
    BY <2>2, <2>3, <2>4, <2>5 DEF BinInv
<1>5. ASSUME NEW cm \in Readings, BinFilter_Update(cm), ~Usable(cm) PROVE UNCHANGED vars
  BY <1>5 DEF BinFilter_Update, vars
<1>6. CASE UNCHANGED vars
  BY <1>6 DEF vars, BinInv
<1> QED
  BY <1>1, <1>2, <1>3, <1>4, <1>5, <1>6 DEF Next

(* The reading just taken is the last of the ring, and every other one is a   *)
(* reading further back.                                                      *)
LEMMA SteadyStep == BinAssumption /\ BinInv /\ SteadyInv /\ [Next]_vars => SteadyInv'
<1> SUFFICES ASSUME BinAssumption, BinInv, SteadyInv, [Next]_vars PROVE SteadyInv'
  OBVIOUS
<1>1. CASE UNCHANGED <<buf, count, idx, steady>>
  BY <1>1 DEF SteadyInv, Behind
<1>2. CASE BinFilter_Reset
  BY <1>2 DEF BinAssumption, SteadyInv, Behind, BinFilter_Reset
<1>3. ASSUME NEW cm \in Readings, BinFilter_Update(cm), Usable(cm) PROVE SteadyInv'
  <2> DEFINE before == steady.times
             after == steady'.times
  <2>1. cm \in Int /\ TakeReading(cm) /\ Window \in Nat \ {0}
    BY <1>3 DEF BinFilter_Update, BinAssumption
  <2>2. /\ steady'.cm = cm
        /\ after = IF steady.cm # cm THEN 1 ELSE IF before < Window THEN before + 1 ELSE Window
    BY <1>3 DEF BinFilter_Update
  <2>3. /\ before \in 0..Window /\ before <= count /\ count \in 0..Window
        /\ idx \in 0..(Window - 1)
        /\ count' = IF count < Window THEN count + 1 ELSE count
        /\ idx' = IF idx = Window - 1 THEN 0 ELSE idx + 1
    BY <2>1 DEF BinInv, SteadyInv, TakeReading
  <2>4. after <= count'
    BY <2>1, <2>2, <2>3
  <2>5. ASSUME NEW j \in 0..(Window - 1), Behind(j)' <= after PROVE buf'[j] = cm
    <3>1. buf' = [buf EXCEPT ![idx] = cm] /\ DOMAIN buf = 0..(Window - 1)
      BY <2>1 DEF TakeReading, BinInv
    <3>2. CASE j = idx
      BY <3>1, <3>2
    <3>3. CASE j # idx
      <4>1. Behind(j) \in 1..(Window - 1) /\ Behind(j)' = Behind(j) + 1
        BY <2>1, <2>3, <3>3 DEF Behind
      <4>2. steady.cm = cm /\ Behind(j) <= before
        BY <2>1, <2>2, <2>3, <2>5, <4>1
      <4> QED
        BY <3>1, <3>3, <4>2 DEF SteadyInv
    <3> QED
      BY <3>2, <3>3
  <2> QED
    BY <2>2, <2>4, <2>5 DEF SteadyInv
<1>4. ASSUME NEW cm \in Readings, BinFilter_Update(cm), ~Usable(cm)
      PROVE UNCHANGED <<buf, count, idx, steady>>
  BY <1>4 DEF BinFilter_Update
<1>5. CASE Tick \/ BinFilter_Notify_Drop \/ UNCHANGED vars
  BY <1>1, <1>5 DEF Tick, BinFilter_Notify_Drop, vars
<1> QED
  BY <1>1, <1>2, <1>3, <1>4, <1>5 DEF Next

(* The whole invariant of the filter. *)
FilterInv == BinInv /\ SteadyInv

LEMMA FilterHolds == Spec => []FilterInv
<1>1. BinAssumption /\ Init => FilterInv
  BY BinInit DEF FilterInv
<1>2. BinAssumption /\ FilterInv /\ [Next]_vars => FilterInv'
  BY BinStep, SteadyStep DEF FilterInv
<1> QED
  BY <1>1, <1>2, BinAssumption, PTL DEF Spec

(* Every index stays in the ring, every level on its scale and the reported   *)
(* percentage between 0 and 100, whatever the sensor returns.                 *)
THEOREM FilterTypes == Spec => []TypeOK
<1>1. BinAssumption /\ BinInv => TypeOK
  <2> SUFFICES ASSUME BinAssumption, BinInv PROVE TypeOK
    OBVIOUS
  <2>1. BinFilter_Get_Percent \in 0..100
    BY ReportType DEF BinInv
  <2>2. buf \in [0..(Window - 1) -> Int]
    BY TopType DEF BinInv
  <2> QED
    BY <2>1, <2>2 DEF BinInv, TypeOK
<1> QED
  BY <1>1, FilterHolds, BinAssumption, PTL DEF FilterInv

LEMMA NearOfNear ==
  ASSUME NEW p \in Nat, NEW a \in 0..p, NEW b \in 0..p, NEW c \in 0..p, NEW s \in Nat,
         20 * AbsDiff(a, b) < p, AbsDiff(b, c) <= s
  PROVE  20 * AbsDiff(a, c) < p + 20 * s
  BY DEF AbsDiff

LEMMA NearType ==
  ASSUME NEW p \in Nat, NEW a \in 0..p, NEW b \in 0..p
  PROVE  AbsDiff(a, b) \in Nat
  BY DEF AbsDiff

(* What a reading leaves behind when more than half of a full window, the     *)
(* reading included, is v.                                                    *)
LEMMA MajorityLevel ==
  ASSUME BinAssumption, BinInv, NEW cm \in Int, Usable(cm), TakeReading(cm), count' = Window,
         NEW v \in Int, 2 * Cardinality({j \in 0..(Window - 1) : buf'[j] = v}) > Window,
         NEW d \in Nat, \A j \in 0..(Window - 1) : AbsDiff(buf'[j], v) <= Outlier =>
                           v - d <= buf'[j] /\ buf'[j] <= v + d
  PROVE  20 * AbsDiff(level', Convert_Distance_To_Percent(v * Scale)) < Percent + 20 * (d * Scale)
<1>1. PICK n \in 1..Window, new \in 0..Percent :
           /\ n = count'
           /\ buf' \in [0..(Window - 1) -> 0..Top]
           /\ new = Convert_Distance_To_Percent(Average_Excluding_Outliers(buf', n))
           /\ level' \in 0..Percent /\ 20 * AbsDiff(level', new) < Percent
  BY ReadingLevel
<1>2. PICK samples : samples = buf'
  OBVIOUS
<1>3. n = Window /\ n \in 1..6 /\ n \in Nat \ {0} /\ Top \in Nat
  BY <1>1, TopType DEF BinAssumption
<1>4. \A i \in 0..(n - 1) : samples[i] \in 0..Top
  BY <1>1, <1>2, <1>3
<1>5. \A i \in 0..(n - 1) : samples[i] \in Int
  BY <1>3, <1>4
<1>6. Median(samples, n) = v
  <2> DEFINE m == Median(samples, n)
  <2>1. IsMedian(samples, n, m)
    BY <1>3, <1>4, MedianIsThere
  <2>2. m \in Int
    BY <1>5, <2>1 DEF IsMedian
  <2>3. 2 * Cardinality({i \in 0..(n - 1) : samples[i] = v}) > n
    BY <1>2, <1>3
  <2> HIDE DEF m
  <2>4. m = v
    BY <1>3, <1>5, <2>1, <2>2, <2>3, MajorityIsMedian
  <2> QED
    BY <2>4 DEF m
<1> DEFINE avg == Average_Excluding_Outliers(samples, n)
           lo == v - d
           hi == v + d
<1>7. avg \in Int /\ lo * Scale <= avg /\ avg <= hi * Scale
  <2>1. lo \in Int /\ hi \in Int
    OBVIOUS
  <2>2. \A i \in 0..(n - 1) :
           AbsDiff(samples[i], Median(samples, n)) <= Outlier => lo <= samples[i] /\ samples[i] <= hi
    BY <1>2, <1>3, <1>6
  <2> HIDE DEF lo, hi
  <2> QED
    BY <1>3, <1>4, <2>1, <2>2, AverageBounds
<1> DEFINE spread == d * Scale
           mark == v * Scale
<1>8. spread \in Nat /\ mark \in Int /\ mark - spread <= avg /\ avg <= mark + spread
  <2> HIDE DEF avg
  <2> QED
    BY <1>7 DEF Scale
<1>9. /\ Convert_Distance_To_Percent(mark) \in 0..Percent
      /\ AbsDiff(new, Convert_Distance_To_Percent(mark)) <= spread
  <2>1. new = Convert_Distance_To_Percent(avg)
    BY <1>1, <1>2
  <2> HIDE DEF avg, mark, spread
  <2> QED
    BY <1>7, <1>8, <2>1, ConvertBounds
<1> DEFINE goal == Convert_Distance_To_Percent(mark)
<1>10. 20 * AbsDiff(level', goal) < Percent + 20 * spread
  <2> HIDE DEF spread
  <2>1. goal \in 0..Percent /\ AbsDiff(new, goal) <= spread /\ Percent \in Nat
    BY <1>9, TopType
  <2> HIDE DEF goal
  <2> QED
    BY <1>1, <1>8, <2>1, NearOfNear
<1> QED
  BY <1>10

LEMMA MajorityStep ==
  BinAssumption /\ FilterInv /\ MajorityDecides /\ [Next]_vars => MajorityDecides'
<1> SUFFICES ASSUME BinAssumption, FilterInv, MajorityDecides, [Next]_vars PROVE MajorityDecides'
  OBVIOUS
<1>1. CASE UNCHANGED <<buf, count, level>>
  BY <1>1 DEF MajorityDecides
<1>2. CASE BinFilter_Reset
  BY <1>2 DEF BinAssumption, MajorityDecides, BinFilter_Reset
<1>3. ASSUME NEW cm \in Readings, BinFilter_Update(cm), Usable(cm) PROVE MajorityDecides'
  <2> SUFFICES ASSUME count' = Window, NEW i \in 0..(Window - 1),
                      2 * Cardinality({j \in 0..(Window - 1) : buf'[j] = buf'[i]}) > Window
               PROVE  AbsDiff(level', Convert_Distance_To_Percent(buf'[i] * Scale))
                        < Percent \div 20 + Outlier * Scale
    BY DEF MajorityDecides
  <2>1. cm \in Int /\ TakeReading(cm)
    BY <1>3 DEF BinFilter_Update, BinAssumption
  <2>2. BinInv /\ BinInv'
    BY BinStep DEF FilterInv
  <2>3. \A j \in 0..(Window - 1) : buf'[j] \in Int
    BY <2>2, TopType DEF BinInv
  <2> DEFINE v == buf'[i]
             goal == Convert_Distance_To_Percent(v * Scale)
  <2>4. v \in Int /\ 2 * Cardinality({j \in 0..(Window - 1) : buf'[j] = v}) > Window
    BY <2>3
  <2>5. Outlier \in Nat /\ \A j \in 0..(Window - 1) : AbsDiff(buf'[j], v) <= Outlier =>
                              v - Outlier <= buf'[j] /\ buf'[j] <= v + Outlier
    BY <2>3 DEF AbsDiff, BinAssumption
  <2>6. 20 * AbsDiff(level', goal) < Percent + 20 * (Outlier * Scale)
    <3> HIDE DEF v
    <3> QED
      BY <1>3, <2>1, <2>2, <2>4, <2>5, MajorityLevel
  <2>7. goal \in 0..Percent /\ level' \in 0..Percent
    <3>1. v * Scale \in Int
      BY <2>4 DEF Scale
    <3> DEFINE mark == v * Scale
    <3> HIDE DEF v, mark
    <3>2. mark \in Int /\ mark - 0 <= mark /\ mark <= mark + 0 /\ 0 \in Nat
      BY <3>1 DEF mark
    <3>3. Convert_Distance_To_Percent(mark) \in 0..Percent
      BY <3>2, ConvertBounds
    <3> QED
      BY <2>2, <3>3 DEF BinInv, mark
  <2>8. Percent = 20 * (Percent \div 20) /\ Percent \div 20 \in Nat
    BY TopType DEF BinAssumption, Percent, Scale
  <2>9. AbsDiff(level', goal) \in Nat
    <3> HIDE DEF goal
    <3> QED
      BY <2>7, TopType, NearType
  <2> QED
    <3> HIDE DEF goal
    <3>1. Outlier * Scale \in Nat
      BY <2>5 DEF Scale
    <3>2. AbsDiff(level', goal) < Percent \div 20 + Outlier * Scale
      BY <2>6, <2>8, <2>9, <3>1
    <3> QED
      BY <3>2 DEF goal
<1>4. ASSUME NEW cm \in Readings, BinFilter_Update(cm), ~Usable(cm)
      PROVE UNCHANGED <<buf, count, level>>
  BY <1>4 DEF BinFilter_Update
<1>5. CASE Tick \/ BinFilter_Notify_Drop \/ UNCHANGED vars
  BY <1>1, <1>5 DEF Tick, BinFilter_Notify_Drop, vars
<1> QED
  BY <1>1, <1>2, <1>3, <1>4, <1>5 DEF Next

(* A full window that mostly agrees decides the level: what less than half of *)
(* the samples say, however wrong, shifts it by less than the outlier         *)
(* threshold on top of the dead band.                                         *)
THEOREM MajorityIsReported == Spec => []MajorityDecides
<1>1. BinAssumption /\ Init => MajorityDecides
  BY DEF BinAssumption, Init, MajorityDecides
<1> QED
  BY <1>1, MajorityStep, FilterHolds, BinAssumption, PTL DEF Spec

LEMMA SteadyLevelStep ==
  BinAssumption /\ FilterInv /\ SettlesOnSteady /\ [Next]_vars => SettlesOnSteady'
<1> SUFFICES ASSUME BinAssumption, FilterInv, SettlesOnSteady, [Next]_vars PROVE SettlesOnSteady'
  OBVIOUS
<1>1. CASE UNCHANGED <<steady, level>>
  BY <1>1 DEF SettlesOnSteady
<1>2. CASE BinFilter_Reset
  BY <1>2 DEF BinAssumption, SettlesOnSteady, BinFilter_Reset
<1>3. ASSUME NEW cm \in Readings, BinFilter_Update(cm), Usable(cm) PROVE SettlesOnSteady'
  <2> SUFFICES ASSUME steady'.times = Window
               PROVE  20 * AbsDiff(level', Convert_Distance_To_Percent(steady'.cm * Scale)) < Percent
    BY DEF SettlesOnSteady
  <2>1. cm \in Int /\ TakeReading(cm) /\ steady'.cm = cm /\ Window \in 1..6
    BY <1>3 DEF BinFilter_Update, BinAssumption
  <2>2. BinInv /\ BinInv' /\ SteadyInv'
    BY BinStep, SteadyStep DEF FilterInv
  <2>3. count' = Window
    BY <2>1, <2>2 DEF BinInv, SteadyInv
  <2>4. \A j \in 0..(Window - 1) : buf'[j] = cm
    <3> SUFFICES ASSUME NEW j \in 0..(Window - 1) PROVE buf'[j] = cm
      OBVIOUS
    <3>1. idx' \in 0..(Window - 1)
      BY <2>2 DEF BinInv
    <3>2. Behind(j)' <= Window
      <4>1. PICK at \in 0..(Window - 1) : at = idx'
        BY <3>1
      <4>2. Behind(j)' = IF j < at THEN at - j ELSE at + Window - j
        BY <4>1 DEF Behind
      <4>3. (IF j < at THEN at - j ELSE at + Window - j) <= Window
        BY <2>1
      <4> QED
        BY <4>2, <4>3
    <3> QED
      BY <2>1, <2>2, <3>2 DEF SteadyInv
  <2>5. 2 * Cardinality({j \in 0..(Window - 1) : buf'[j] = cm}) > Window
    <3>1. {j \in 0..(Window - 1) : buf'[j] = cm} = 0..(Window - 1)
      BY <2>4
    <3>2. Cardinality(0..(Window - 1)) = Window
      BY <2>1, FS_Interval
    <3>3. 2 * Window > Window
      BY <2>1
    <3> QED
      BY <3>1, <3>2, <3>3
  <2>6. 0 \in Nat /\ \A j \in 0..(Window - 1) : AbsDiff(buf'[j], cm) <= Outlier =>
                        cm - 0 <= buf'[j] /\ buf'[j] <= cm + 0
    BY <2>1, <2>4
  <2>7. 20 * AbsDiff(level', Convert_Distance_To_Percent(cm * Scale)) < Percent + 20 * (0 * Scale)
    BY <1>3, <2>1, <2>2, <2>3, <2>5, <2>6, MajorityLevel
  <2>8. Percent + 20 * (0 * Scale) = Percent
    BY TopType DEF Scale
  <2> QED
    BY <2>1, <2>7, <2>8
<1>4. ASSUME NEW cm \in Readings, BinFilter_Update(cm), ~Usable(cm) PROVE UNCHANGED <<steady, level>>
  BY <1>4 DEF BinFilter_Update
<1>5. CASE Tick \/ BinFilter_Notify_Drop \/ UNCHANGED vars
  BY <1>1, <1>5 DEF Tick, BinFilter_Notify_Drop, vars
<1> QED
  BY <1>1, <1>2, <1>3, <1>4, <1>5 DEF Next

(* A distance that has filled the window is reported, within the dead band of *)
(* its level, whatever the ring held before.                                  *)
THEOREM SteadyIsReported == Spec => []SettlesOnSteady
<1>1. BinAssumption /\ Init => SettlesOnSteady
  BY DEF BinAssumption, Init, SettlesOnSteady
<1> QED
  BY <1>1, SteadyLevelStep, FilterHolds, BinAssumption, PTL DEF Spec
=============================================================================
