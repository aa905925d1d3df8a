----------------------------- MODULE BinFilter -----------------------------
(***************************************************************************)
(* The fill level of one bin, as bin_filter.c computes it from ultrasonic  *)
(* readings: a reading is ignored while an item may be falling, the last   *)
(* Window readings are averaged without outliers, and the reported level   *)
(* only moves when the change is worth it.  The four bins share no state.  *)
(*                                                                         *)
(* Distances are whole centimetres and levels are exact: an average is     *)
(* kept times Scale, which every sample count divides, and a level is the  *)
(* filled height times Scale, so a percent is Percent of those units.      *)
(* The tick counter wraps at Wrap, as g_sys_tick does at 2^32.             *)
(***************************************************************************)
EXTENDS Integers, FiniteSetsExt

CONSTANTS
  Half,          \* half the range of the tick counter, 2^31
  Blanking,      \* BLANKING_DURATION_MS
  Window,        \* SAMPLE_WINDOW_SIZE
  Outlier,       \* OUTLIER_THRESHOLD_CM
  Empty, Full,   \* the calibration of the bin, in cm
  DefaultEmpty,  \* DEFAULT_BIN_EMPTY_CM
  Reach,         \* readings beyond Empty + Reach are rejected
  Readings       \* what the sensor may return, -1 on a time-out

Scale == 60
Wrap == 2 * Half
Percent == (Empty - Full) * Scale

ASSUME BinAssumption ==
  /\ Half \in Nat \ {0} /\ Blanking \in Nat /\ Blanking < Half
  /\ Window \in 1..6
  /\ Outlier \in Nat /\ Reach \in Nat
  /\ Full \in Nat /\ Empty \in Nat /\ Full < Empty /\ DefaultEmpty \in Nat
  /\ Readings \subseteq Int

VARIABLES
  now,           \* g_sys_tick
  until,         \* blanking_until_tick
  buf,           \* sample_buf
  count,         \* sample_count
  idx,           \* buf_idx
  level,         \* filtered_percent, in units of 100 / Percent
  initialized,   \* is_initialized
  sinceDrop,     \* history: ticks since the last drop or reset, up to Blanking
  steady         \* history: the last reading taken and how often in a row, up to Window

vars == <<now, until, buf, count, idx, level, initialized, sinceDrop, steady>>

-----------------------------------------------------------------------------
(* Mutant of Before: an unsigned comparison of the two stamps. *)
BeforeUnsigned(a, b) == a < b

(* (int32_t)(a - b) < 0 on the wrapping counter. *)
Before(a, b) == (IF a >= b THEN a - b ELSE a - b + Wrap) >= Half

After(t, d) == IF t + d >= Wrap THEN t + d - Wrap ELSE t + d

Blanked == Before(now, until)

(* The sample at position n \div 2 of the sorted samples. *)
Median(samples, n) ==
  CHOOSE m \in {samples[i] : i \in 0..(n - 1)} :
    /\ Cardinality({i \in 0..(n - 1) : samples[i] < m}) <= n \div 2
    /\ Cardinality({i \in 0..(n - 1) : samples[i] <= m}) > n \div 2

AbsDiff(a, b) == IF a >= b THEN a - b ELSE b - a

(* Mutant of Average_Excluding_Outliers: the plain mean. *)
PlainAverage(samples, n) ==
  MapThenSumSet(LAMBDA i : samples[i], 0..(n - 1)) * (Scale \div n)

(* Times Scale.  The median itself is always within the threshold. *)
Average_Excluding_Outliers(samples, n) ==
  LET used == {i \in 0..(n - 1) : AbsDiff(samples[i], Median(samples, n)) <= Outlier}
  IN MapThenSumSet(LAMBDA i : samples[i], used) * (Scale \div Cardinality(used))

(* Mutant of Convert_Distance_To_Percent: no clamp at a full bin. *)
ConvertUnclamped(avg) == IF avg >= Empty * Scale THEN 0 ELSE Empty * Scale - avg

Convert_Distance_To_Percent(avg) ==
  IF avg >= Empty * Scale THEN 0
  ELSE IF avg <= Full * Scale THEN Percent
  ELSE Empty * Scale - avg

(* The dead band of CHANGE_THRESHOLD_PERCENT, 5 percent. *)
Moved(new) == ~initialized \/ 20 * AbsDiff(new, level) >= Percent

BinFilter_Get_Percent == (200 * level + Percent) \div (2 * Percent)

-----------------------------------------------------------------------------
Init ==
  /\ now = 0 /\ until = 0
  /\ buf = [i \in 0..(Window - 1) |-> DefaultEmpty]
  /\ count = 0 /\ idx = 0
  /\ level = 0 /\ initialized = FALSE
  /\ sinceDrop = Blanking
  /\ steady = [cm |-> 0, times |-> 0]

Tick ==
  /\ now' = After(now, 1)
  /\ sinceDrop' = IF sinceDrop < Blanking THEN sinceDrop + 1 ELSE sinceDrop
  /\ UNCHANGED <<until, buf, count, idx, level, initialized, steady>>

BinFilter_Notify_Drop ==
  /\ until' = After(now, Blanking)
  /\ sinceDrop' = 0
  /\ UNCHANGED <<now, buf, count, idx, level, initialized, steady>>

BinFilter_Reset ==
  /\ until' = 0
  /\ count' = 0 /\ idx' = 0
  /\ buf' = [i \in 0..(Window - 1) |-> Empty]
  /\ level' = 0 /\ initialized' = FALSE
  /\ sinceDrop' = Blanking
  /\ steady' = [cm |-> 0, times |-> 0]
  /\ UNCHANGED now

Usable(cm) == ~Blanked /\ cm > 0 /\ cm <= Empty + Reach

(* Mutant of TakeReading: the ring index stays where it is. *)
TakeReadingInPlace(cm) ==
  LET samples == [buf EXCEPT ![idx] = cm]
      n == IF count < Window THEN count + 1 ELSE count
      new == Convert_Distance_To_Percent(Average_Excluding_Outliers(samples, n))
  IN /\ buf' = samples
     /\ count' = n
     /\ UNCHANGED idx
     /\ level' = IF Moved(new) THEN new ELSE level
     /\ initialized' = TRUE

TakeReading(cm) ==
  LET samples == [buf EXCEPT ![idx] = cm]
      n == IF count < Window THEN count + 1 ELSE count
      new == Convert_Distance_To_Percent(Average_Excluding_Outliers(samples, n))
  IN /\ buf' = samples
     /\ count' = n
     /\ idx' = IF idx = Window - 1 THEN 0 ELSE idx + 1
     /\ level' = IF Moved(new) THEN new ELSE level
     /\ initialized' = TRUE

BinFilter_Update(cm) ==
  /\ IF Usable(cm)
     THEN /\ TakeReading(cm)
          /\ steady' = [cm |-> cm,
                        times |-> IF steady.cm # cm THEN 1
                                  ELSE IF steady.times < Window THEN steady.times + 1
                                  ELSE Window]
     ELSE UNCHANGED <<buf, count, idx, level, initialized, steady>>
  /\ UNCHANGED <<now, until, sinceDrop>>

Next ==
  \/ Tick
  \/ BinFilter_Notify_Drop
  \/ BinFilter_Reset
  \/ \E cm \in Readings : BinFilter_Update(cm)

Spec == Init /\ [][Next]_vars

-----------------------------------------------------------------------------
(* Properties. *)

TypeOK ==
  /\ now \in 0..(Wrap - 1) /\ until \in 0..(Wrap - 1)
  /\ buf \in [0..(Window - 1) -> Int]
  /\ count \in 0..Window /\ idx \in 0..(Window - 1)
  /\ level \in 0..Percent /\ BinFilter_Get_Percent \in 0..100
  /\ initialized \in BOOLEAN
  /\ sinceDrop \in 0..Blanking
  /\ steady \in [cm : Int, times : 0..Window]

(* No reading is taken while an item may still be falling past the sensor,   *)
(* wherever the counter wraps meanwhile.  A reset ends the blanking.         *)
BlanksAfterDrop == [][idx' # idx \/ buf' # buf => sinceDrop = Blanking \/ count' = 0]_vars

(* What it needs to be inductive: the deadline is ahead of the counter by     *)
(* what is left of the blanking, modulo Wrap.                                 *)
ClockInv ==
  /\ now \in 0..(Wrap - 1) /\ until \in 0..(Wrap - 1) /\ sinceDrop \in 0..Blanking
  /\ sinceDrop < Blanking => until = After(now, Blanking - sinceDrop)

(* Once a distance has filled the window, the report is within the dead band *)
(* of its level, whatever the ring held before.                              *)
SettlesOnSteady ==
  steady.times = Window =>
    20 * AbsDiff(level, Convert_Distance_To_Percent(steady.cm * Scale)) < Percent

(* A full window that mostly agrees decides the level: less than half of the *)
(* samples, however wrong, shift it by less than the outlier threshold on    *)
(* top of the dead band.                                                     *)
MajorityDecides ==
  count = Window =>
    \A i \in 0..(Window - 1) :
      2 * Cardinality({j \in 0..(Window - 1) : buf[j] = buf[i]}) > Window =>
        AbsDiff(level, Convert_Distance_To_Percent(buf[i] * Scale))
          < Percent \div 20 + Outlier * Scale

(* The comment on the blanking test: a drop blanks the sensor for its 2 s,    *)
(* by a difference that is safe against the counter's roll-over.              *)
BlankedOnlyAfterDrop == Blanked => sinceDrop < Blanking
=============================================================================
