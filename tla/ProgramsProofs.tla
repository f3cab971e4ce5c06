---------------------------- MODULE ProgramsProofs ----------------------------
(* What the programs that measure something guarantee: the sums and the       *)
(* extremes of the benchmarks of part1.cpp are those of the times they took,  *)
(* and no loop over a cache leaves what was written; what timer_precision     *)
(* reports of a clock is a resolution and a cost; and, side by side with      *)
(* these, the two UDP programs keep to one plan, and get_packet_size finds    *)
(* what was asked for.                                                        *)
EXTENDS MCPrograms, TLAPS

(***************************************************************************)
(* The inductive invariant: before the first time is recorded the extremes *)
(* are those that the code starts with, and what is about to be recorded   *)
(* is a time that the clock can have moved.                                *)
(***************************************************************************)
MeasureNumbers == /\ moved \in Int /\ moved < W
           /\ stats.min \in Int /\ stats.max \in Int /\ stats.sum \in Int
           /\ elapsed \in Int /\ low \in Int /\ high \in Int /\ recorded \in Nat
Begun == recorded = 0 => stats.min = W - 1 /\ stats.max = 0
Measuring == name \in Caches /\ pc \in {"before", "timed", "after"} => warm = Plan(name).filled
Started == pc = "timed" => moved = 0
Caught == name = "uncompress" => failures = 0
MeasureInv == /\ MeasureNumbers /\ Begun /\ Measuring /\ Started /\ Caught
       /\ SumIsElapsed /\ ExtremesHold

LEMMA MeasureConstants ==
  /\ W \in Nat /\ W >= 1
  /\ \A d \in Moves : d \in Int /\ d < W
<1>1. W \in Nat /\ W >= 1
  BY WAssumption
<1>2. \A x \in Steps : x \in Nat /\ x < W
  <2> TAKE x \in Steps
  <2>1. x \in Nat /\ Rounds \in Nat /\ Rounds >= 1 /\ Rounds * x < W
    BY StepsAssumption, SizesAssumption, WideAssumption
  <2>2. (Rounds - 1) * x >= 0 /\ (Rounds - 1) * x = Rounds * x - x
    BY <2>1
  <2> QED
    BY <1>1, <2>1, <2>2
<1>3. \A b \in Back : b \in Nat
  BY StepsAssumption
<1>4. QED
  BY <1>1, <1>2, <1>3 DEF Moves

LEMMA FreshIs == Fresh.min = W - 1 /\ Fresh.max = 0 /\ Fresh.sum = 0
BY DEF Fresh

\* Taking sums modulo W early or late is the same.
LEMMA SumLater ==
  ASSUME NEW a \in Int, NEW b \in Int, NEW w \in Nat, w >= 1
  PROVE  ((a % w) + (b % w)) % w = (a + b) % w
<1> DEFINE q == (a \div w) + (b \div w)
           x == (a % w) + (b % w)
           r == (a + b) % w
           k == (a + b) \div w
<1>1. /\ a = (a \div w) * w + (a % w) /\ b = (b \div w) * w + (b % w)
      /\ a % w \in 0 .. w - 1 /\ b % w \in 0 .. w - 1
      /\ a \div w \in Int /\ b \div w \in Int
  OBVIOUS
<1>2. a + b = q * w + x /\ x \in Nat /\ x <= 2 * w - 2 /\ q \in Int
  BY <1>1
<1>3. a + b = k * w + r /\ r \in Nat /\ r < w /\ k \in Int
  OBVIOUS
<1>4. r = x \/ r = x - w
  <2> HIDE DEF q, x, r, k
  <2> DEFINE d == k - q
  <2>1. r = x - d * w /\ d \in Int
    BY <1>2, <1>3
  <2> HIDE DEF d
  <2>2. CASE d = 0
    BY <1>2, <2>1, <2>2
  <2>3. CASE d = 1
    BY <1>2, <2>1, <2>3
  <2>4. CASE d >= 2
    <3>1. d * w >= 2 * w
      BY <2>1, <2>4
    <3>2. QED
      BY <1>2, <1>3, <2>1, <3>1
  <2>5. CASE d <= -1
    <3>1. (-d) * w >= w /\ (-d) * w = -(d * w)
      BY <2>1, <2>5
    <3>2. QED
      BY <1>2, <1>3, <2>1, <3>1
  <2>6. QED
    BY <2>1, <2>2, <2>3, <2>4, <2>5
<1>5. x % w = r
  <2> HIDE DEF q, x, r, k
  <2>1. CASE r = x
    BY <1>2, <1>3, <2>1
  <2>2. CASE r = x - w
    BY <1>2, <1>3, <2>2
  <2>3. QED
    BY <1>4, <2>1, <2>2
<1>6. QED
  BY <1>5

LEMMA MeasureInitInv == Init => MeasureInv
<1> SUFFICES ASSUME Init PROVE MeasureInv
  OBVIOUS
<1>1. /\ moved = 0 /\ elapsed = 0 /\ low = 0 /\ high = 0 /\ recorded = 0 /\ failures = 0
      /\ stats = Fresh /\ pc \in {"calibrate", "before"}
  BY DEF Init, FirstAction
<1>2. stats.min = W - 1 /\ stats.max = 0 /\ stats.sum = 0
  BY <1>1, FreshIs
<1>3. MeasureNumbers
  BY <1>1, <1>2, MeasureConstants DEF MeasureNumbers
<1>4. Begun /\ Caught /\ ExtremesHold
  BY <1>1, <1>2 DEF Begun, Caught, ExtremesHold
<1>5. SumIsElapsed
  BY <1>1, <1>2, MeasureConstants DEF SumIsElapsed
<1>6. Measuring /\ Started
  BY DEF Init, FirstAction, Measuring, Started, name
<1>7. QED
  BY <1>3, <1>4, <1>5, <1>6 DEF MeasureInv

\* The steps that record nothing.
Quiet == UNCHANGED <<program, stage, stats, history>>
LEMMA QuietStep ==
  ASSUME MeasureInv, Quiet, moved' \in Int, moved' < W
  PROVE  MeasureNumbers' /\ Begun' /\ Caught' /\ SumIsElapsed' /\ ExtremesHold'
<1>1. UNCHANGED <<program, stage, stats, elapsed, low, high, recorded, failures>>
  BY DEF Quiet, history
<1>2. MeasureNumbers'
  BY <1>1 DEF MeasureInv, MeasureNumbers
<1>3. Begun' /\ Caught' /\ SumIsElapsed' /\ ExtremesHold'
  BY <1>1 DEF MeasureInv, Begun, Caught, SumIsElapsed, ExtremesHold, name
<1>4. QED
  BY <1>2, <1>3

LEMMA CalibrateStep ==
  ASSUME MeasureInv, Calibrate
  PROVE  MeasureInv'
<1>1. Quiet /\ UNCHANGED <<moved, warm>> /\ pc' \in {"calibrate", "warm"}
  BY DEF Calibrate, Quiet
<1>2. moved \in Int /\ moved < W
  BY DEF MeasureInv, MeasureNumbers
<1>3. Measuring' /\ Started'
  BY <1>1 DEF Measuring, Started
<1>4. QED
  BY <1>1, <1>2, <1>3, QuietStep DEF MeasureInv

LEMMA WarmStep ==
  ASSUME MeasureInv, Warm
  PROVE  MeasureInv'
<1>1. Quiet /\ UNCHANGED moved /\ warm' = Plan(name).filled
  BY DEF Warm, Quiet
<1>2. moved \in Int /\ moved < W
  BY DEF MeasureInv, MeasureNumbers
<1>3. Measuring' /\ Started'
  BY <1>1 DEF Warm, Measuring, Started, name, Quiet
<1>4. QED
  BY <1>1, <1>2, <1>3, QuietStep DEF MeasureInv

LEMMA ReadStartStep ==
  ASSUME MeasureInv, ReadStart
  PROVE  MeasureInv'
<1>1. Quiet /\ UNCHANGED warm /\ moved' = 0 /\ pc = "before" /\ pc' = "timed"
  BY DEF ReadStart, Quiet
<1>2. Measuring' /\ Started'
  BY <1>1 DEF MeasureInv, Measuring, Started, name, Quiet
<1>3. moved' \in Int /\ moved' < W
  BY <1>1, MeasureConstants
<1>4. QED
  BY <1>1, <1>2, <1>3, QuietStep DEF MeasureInv

\* The operations that are timed differ in what they do to the mutex and in
\* whether they can fail.
LEMMA TimedStep ==
  ASSUME MeasureInv, Timed
  PROVE  MeasureInv'
<1>1. Quiet /\ UNCHANGED warm /\ pc = "timed" /\ pc' = "after"
  BY DEF Timed, Quiet
<1>2. moved' \in Int /\ moved' < W
  <2>1. PICK d \in Moves : moved' = moved + d
    BY DEF Timed
  <2>2. moved = 0
    BY <1>1 DEF MeasureInv, Started
  <2>3. QED
    BY <2>1, <2>2, MeasureConstants
<1>3. Measuring' /\ Started'
  BY <1>1 DEF MeasureInv, Measuring, Started, name, Quiet
<1>4. QED
  BY <1>1, <1>2, <1>3, QuietStep DEF MeasureInv

LEMMA RecordStep ==
  ASSUME MeasureInv, TakeTime
  PROVE  MeasureInv'
<1>1. /\ UNCHANGED <<program, stage, moved, warm>> /\ pc = "after" /\ pc' \in {"before", "print"}
      /\ name' = name
  BY DEF TakeTime, name
<1>2. /\ moved \in Int /\ moved < W /\ stats.min \in Int /\ stats.max \in Int /\ stats.sum \in Int
      /\ elapsed \in Int /\ low \in Int /\ high \in Int /\ recorded \in Nat
  BY DEF MeasureInv, MeasureNumbers
<1>3. Measuring' /\ Started'
  BY <1>1 DEF MeasureInv, Measuring, Started
<1>4. CASE UNCHANGED <<stats, history>>
  <2>1. Quiet
    BY <1>1, <1>4 DEF Quiet
  <2>2. moved' \in Int /\ moved' < W
    BY <1>1, <1>2
  <2>3. QED
    BY <1>3, <2>1, <2>2, QuietStep DEF MeasureInv
<1>5. CASE /\ name = "uncompress" => good
           /\ stats' = Record(stats, moved % W)
           /\ recorded' = recorded + 1
           /\ failures' = IF good THEN failures ELSE failures + 1
           /\ elapsed' = elapsed + moved
           /\ low' = IF recorded = 0 \/ moved < low THEN moved ELSE low
           /\ high' = IF recorded = 0 \/ moved > high THEN moved ELSE high
  <2>1. moved % W \in Int /\ (stats.sum + (moved % W)) % W \in Int
    BY <1>2, MeasureConstants
  <2>2. /\ stats'.min = IF moved % W < stats.min THEN moved % W ELSE stats.min
        /\ stats'.max = IF moved % W > stats.max THEN moved % W ELSE stats.max
        /\ stats'.sum = (stats.sum + (moved % W)) % W
    BY <1>5 DEF Record
  <2>3. MeasureNumbers'
    BY <1>1, <1>2, <1>5, <2>1, <2>2 DEF MeasureNumbers
  <2>4. Begun' /\ Caught'
    <3>1. recorded' # 0
      BY <1>2, <1>5
    <3>2. QED
      BY <1>1, <1>5, <3>1 DEF MeasureInv, Begun, Caught
  <2>5. SumIsElapsed'
    <3>1. stats.sum = elapsed % W
      BY DEF MeasureInv, SumIsElapsed
    <3>2. ((elapsed % W) + (moved % W)) % W = (elapsed + moved) % W
      BY <1>2, SumLater, MeasureConstants
    <3>3. stats'.sum = (elapsed + moved) % W
      <4>1. stats'.sum = ((elapsed % W) + (moved % W)) % W
        BY <2>2, <3>1, Zenon
      <4>2. QED
        BY <3>2, <4>1, Zenon
    <3>4. QED
      BY <1>5, <3>3 DEF SumIsElapsed
  <2>6. ExtremesHold'
    <3>1. SUFFICES ASSUME low' >= 0 PROVE stats'.min = low' /\ stats'.max = high'
      BY DEF ExtremesHold
    <3>2. moved >= 0 /\ moved % W = moved
      <4>1. moved >= 0
        BY <1>2, <1>5, <3>1
      <4>2. QED
        BY <1>2, <4>1, MeasureConstants
    <3>3. CASE recorded = 0
      <4>1. stats.min = W - 1 /\ stats.max = 0
        BY <3>3 DEF MeasureInv, Begun
      <4>2. QED
        BY <1>2, <1>5, <2>2, <3>2, <3>3, <4>1, MeasureConstants
    <3>4. CASE recorded # 0
      <4>1. low >= 0
        BY <1>2, <1>5, <3>1, <3>4
      <4>2. stats.min = low /\ stats.max = high
        BY <1>2, <3>4, <4>1 DEF MeasureInv, ExtremesHold
      <4>3. QED
        BY <1>2, <1>5, <2>2, <3>2, <3>4, <4>2
    <3>5. QED
      BY <3>3, <3>4
  <2>7. QED
    BY <1>3, <2>3, <2>4, <2>5, <2>6 DEF MeasureInv
<1>6. QED
  BY <1>4, <1>5 DEF TakeTime

LEMMA PrintFiguresStep ==
  ASSUME MeasureInv, PrintFigures
  PROVE  MeasureInv'
<1>1. Quiet /\ UNCHANGED <<moved, warm>> /\ pc' = "printed"
  BY DEF PrintFigures, Quiet
<1>2. moved \in Int /\ moved < W
  BY DEF MeasureInv, MeasureNumbers
<1>3. Measuring' /\ Started'
  BY <1>1 DEF Measuring, Started
<1>4. QED
  BY <1>1, <1>2, <1>3, QuietStep DEF MeasureInv

LEMMA StageStep ==
  ASSUME MeasureInv, NextStage
  PROVE  MeasureInv'
<1>1. /\ stats' = Fresh /\ moved' = 0 /\ elapsed' = 0 /\ low' = 0 /\ high' = 0
      /\ recorded' = 0 /\ failures' = 0 /\ warm' = 0
      /\ program' = program /\ pc' = FirstAction(name')
  BY DEF NextStage, name
<1>2. stats'.min = W - 1 /\ stats'.max = 0 /\ stats'.sum = 0
  BY <1>1, FreshIs
<1>3. MeasureNumbers'
  BY <1>1, <1>2, MeasureConstants DEF MeasureNumbers
<1>4. Begun' /\ Caught' /\ ExtremesHold'
  BY <1>1, <1>2 DEF Begun, Caught, ExtremesHold
<1>5. SumIsElapsed'
  BY <1>1, <1>2, MeasureConstants DEF SumIsElapsed
<1>6. Measuring' /\ Started'
  BY <1>1 DEF FirstAction, Measuring, Started
<1>7. QED
  BY <1>3, <1>4, <1>5, <1>6 DEF MeasureInv

LEMMA MeasureNextInv == MeasureInv /\ [Next]_vars => MeasureInv'
<1> SUFFICES ASSUME MeasureInv, [Next]_vars PROVE MeasureInv'
  OBVIOUS
<1>1. CASE Calibrate BY <1>1, CalibrateStep
<1>2. CASE Warm BY <1>2, WarmStep
<1>3. CASE ReadStart BY <1>3, ReadStartStep
<1>4. CASE \/ TimeAccesses \/ TimeLock \/ TimeUnlock \/ TimeMemory \/ TimeCompress
           \/ TimeUncompress \/ TimeCopy \/ TimeDisk \/ TimeWrite
  <2>1. Timed
    BY <1>4 DEF TimeAccesses, TimeLock, TimeUnlock, TimeMemory, TimeCompress, TimeUncompress,
                TimeCopy, TimeDisk, TimeWrite
  <2>2. QED
    BY <2>1, TimedStep
<1>5. CASE TakeTime BY <1>5, RecordStep
<1>6. CASE PrintFigures BY <1>6, PrintFiguresStep
<1>7. CASE NextStage BY <1>7, StageStep
<1>8. CASE UNCHANGED vars
  <2>1. Quiet /\ UNCHANGED <<moved, warm, pc>>
    BY <1>8 DEF vars, Quiet, history
  <2>2. moved' \in Int /\ moved' < W
    BY <2>1 DEF MeasureInv, MeasureNumbers
  <2>3. Measuring' /\ Started'
    BY <2>1 DEF MeasureInv, Measuring, Started, Quiet, name
  <2>4. QED
    BY <2>1, <2>2, <2>3, QuietStep DEF MeasureInv
<1>9. QED
  BY <1>1, <1>2, <1>3, <1>4, <1>5, <1>6, <1>7, <1>8 DEF Next, Exited

LEMMA MeasureSpecInv == Spec => []MeasureInv
BY MeasureInitInv, MeasureNextInv, PTL DEF Spec

-----------------------------------------------------------------------------
\* In every benchmark, the sum of differences that each may have wrapped around
\* is the time that passed, modulo 2^64.
THEOREM TheSumIsTheTime == Spec => []SumIsElapsed
<1>1. MeasureInv => SumIsElapsed
  BY DEF MeasureInv
<1>2. QED
  BY <1>1, MeasureSpecInv, PTL

\* In every benchmark whose clock never went back, the minimum and the maximum are
\* those of its own times, the first one included.
THEOREM TheExtremesAreOfTheTimes == Spec => []ExtremesHold
<1>1. MeasureInv => ExtremesHold
  BY DEF MeasureInv
<1>2. QED
  BY <1>1, MeasureSpecInv, PTL

\* The loops over the caches read inside buf and only what was written, for all
\* sizes of which L1 and L2 fit into the L3 less what is spared.
THEOREM TheCachesAreWarm == Spec => []ReadsAreWarm
<1>1. MeasureInv => ReadsAreWarm
  <2> SUFFICES ASSUME MeasureInv, name \in Caches, pc \in {"before", "timed", "after"},
                      NEW i \in Reads(name)
               PROVE  0 <= i /\ i < warm /\ warm <= TotalSize
    BY DEF ReadsAreWarm
  <2>1. {L1, L2, L3, Spare} \subseteq Nat /\ L1 + L2 <= L3 - Spare
    BY SizesAssumption, CachesAssumption
  <2>2. warm = Plan(name).filled
    BY DEF MeasureInv, Measuring
  <2>3. i \in Plan(name).from .. Plan(name).to - 1
    BY DEF Reads
  <2>4. CASE name = "l1"
    BY <2>1, <2>2, <2>3, <2>4 DEF Plan, L1Plan, TotalSize
  <2>5. CASE name = "l2"
    BY <2>1, <2>2, <2>3, <2>5 DEF Plan, L2Plan, TotalSize
  <2>6. CASE name = "l3"
    BY <2>1, <2>2, <2>3, <2>6 DEF Plan, L3Plan, TotalSize
  <2>7. QED
    BY <2>4, <2>5, <2>6 DEF Caches
<1>2. QED
  BY <1>1, MeasureSpecInv, PTL
-----------------------------------------------------------------------------
(* The figures that are printed *)

(***************************************************************************)
(* The inductive invariant for the order of the figures: what was recorded *)
(* are the rounds of this benchmark, less those of Uncompress that failed, *)
(* and the sum of the times is between so many times the least of them and *)
(* so many times the greatest.                                             *)
(***************************************************************************)
InRound == {"before", "timed", "after"}
Over == {"print", "printed"}
Counting ==
  /\ pc \in {"calibrate", "warm"} \cup InRound \cup Over
  /\ round \in Nat /\ loopTime \in Int
  /\ pc \in {"calibrate", "warm"} => name \in Caches /\ recorded = 0
  /\ pc = "warm" => round = 0
  /\ pc \in InRound => round < Times(name)
  /\ pc \in Over => round = Times(name)
  /\ pc \in InRound \cup Over => recorded <= round /\ (name # "uncompress" => recorded = round)
  /\ iterations = recorded * Counted(name)
  /\ name \notin Caches => loopTime = 0
Averaged ==
  recorded > 0 => /\ high \in Moves /\ low <= high
                  /\ recorded * low <= elapsed /\ elapsed <= recorded * high
                  /\ recorded = 1 => low = elapsed /\ high = elapsed
OnScreen == printed = IF pc = "printed" THEN {Figures} ELSE {}
NothingYet == /\ recorded = 0 => elapsed = 0
              /\ pc = "after" => moved \in Moves
\* The extremes of any times are in order, and those of one time are that time.
Extent == /\ recorded > 0 => stats.min <= stats.max
          /\ recorded = 1 => stats.min = elapsed % W /\ stats.max = elapsed % W
FiguresInv == MeasureInv /\ Counting /\ Averaged /\ OnScreen /\ NothingYet /\ Extent

\* The names of benchmarks, and what a benchmark counts.
Names == Caches \cup {"lock", "unlock", "memory", "compress", "uncompress", "copy", "disk", "echo"}

LEMMA CountedIs ==
  /\ \A c \in Caches : Counted(c) \in Nat /\ Times(c) = 1
  /\ \A c : c \notin Caches => Counted(c) = 1 /\ Times(c) = Rounds
  /\ Counted("l1") = L1
  /\ Rounds \in Nat /\ Rounds >= 1 /\ L1 \in Nat /\ L1 >= 1
<1>1. /\ {L1, L2, L3, Skip2, Skip3, Rounds} \subseteq Nat /\ L1 # 0 /\ Skip2 # 0 /\ Skip3 # 0
      /\ Rounds # 0
  BY SizesAssumption
<1>2. L2 \div Skip2 \in Nat /\ L2 \div Skip3 \in Nat
  BY <1>1
<1>3. \A c \in Caches : Plan(c).counted \in Nat
  BY <1>1, <1>2 DEF Caches, Plan, L1Plan, L2Plan, L3Plan
<1>4. Plan("l1").counted = L1 /\ "l1" \in Caches
  BY DEF Plan, L1Plan, Caches
<1> QED
  BY <1>1, <1>3, <1>4 DEF Counted, Times, Repeat

\* A product grows with either factor.
LEMMA Product ==
  ASSUME NEW k \in Nat, NEW m \in Nat, NEW a \in Int, NEW b \in Int, k <= m, a <= b
  PROVE  /\ k * a <= k * b /\ k * a \in Int /\ k * b \in Int
         /\ (k + 1) * a = k * a + a
         /\ a >= 0 => k * a <= m * a
<1>1. k * (b - a) >= 0 /\ k * (b - a) = k * b - k * a /\ k * a \in Int /\ k * b \in Int
  OBVIOUS
<1>2. (k + 1) * a = k * a + a
  OBVIOUS
<1>3. a >= 0 => (m - k) * a >= 0 /\ (m - k) * a = m * a - k * a /\ m * a \in Int
  OBVIOUS
<1> QED
  BY <1>1, <1>2, <1>3

LEMMA MovesAreInt == \A d \in Moves : d \in Int /\ Rounds * d < W
<1> TAKE d \in Moves
<1>1. d \in Int
  BY MeasureConstants
<1>2. CASE d \in Steps
  BY <1>1, <1>2, WideAssumption
<1>3. CASE \E b \in Back : d = -b
  <2>1. PICK b \in Nat : d = -b
    BY <1>3, StepsAssumption
  <2>2. d <= 0 /\ 0 \in Int /\ Rounds \in Nat
    BY <2>1, CountedIs
  <2>3. Rounds * d <= Rounds * 0 /\ Rounds * d \in Int
    BY <1>1, <2>2, Product
  <2>4. Rounds * 0 = 0
    BY <2>2
  <2> QED
    BY <1>1, <2>3, <2>4, MeasureConstants
<1> QED
  BY <1>2, <1>3 DEF Moves

\* The steps that record nothing and begin no benchmark leave the figures.
LEMMA FiguresFrame ==
  ASSUME Averaged, Extent, UNCHANGED <<stats, elapsed, low, high, recorded>>
  PROVE  Averaged' /\ Extent'
  BY DEF Averaged, Extent

LEMMA FirstActionIs ==
  ASSUME NEW c
  PROVE  /\ FirstAction(c) = "calibrate" => c \in Caches
         /\ FirstAction(c) \in {"calibrate", "before"}
         /\ 0 < Times(c)
  BY CountedIs DEF FirstAction

LEMMA FiguresInit == Init => FiguresInv
<1> SUFFICES ASSUME Init PROVE FiguresInv
  OBVIOUS
<1>1. /\ recorded = 0 /\ round = 0 /\ iterations = 0 /\ loopTime = 0 /\ printed = {}
      /\ pc = FirstAction(name)
  BY DEF Init, name
<1>2. pc \in {"calibrate", "before"} /\ (pc = "calibrate" => name \in Caches) /\ 0 < Times(name)
  BY <1>1, FirstActionIs
<1>3. 0 * Counted(name) = 0
  BY CountedIs
<1>4. Counting
  BY <1>1, <1>2, <1>3 DEF Counting, InRound, Over
<1>5. Averaged /\ OnScreen /\ Extent
  BY <1>1, <1>2 DEF Averaged, OnScreen, Extent
<1> QED
  BY <1>1, <1>2, <1>4, <1>5, MeasureInitInv DEF FiguresInv, NothingYet, Init

LEMMA CalibrateCounts ==
  ASSUME FiguresInv, Calibrate
  PROVE  FiguresInv'
<1>1. /\ UNCHANGED <<program, stage, stats, elapsed, low, high, recorded, iterations, printed>>
      /\ pc = "calibrate" /\ name' = name
      /\ \/ pc' = "warm" /\ round' = 0
         \/ pc' = "calibrate" /\ round' = round + 1
  BY DEF Calibrate, history, name
<1>2. W \in Nat \ {0} /\ Kilo \in Nat \ {0}
  BY WAssumption, SizesAssumption
<1>3. loopTime' \in Int
  <2>1. PICK d \in Moves : loopTime' \in {(loopTime + d) % W, ((loopTime + d) % W) \div Kilo}
    BY DEF Calibrate
  <2>2. loopTime + d \in Int
    BY MovesAreInt DEF FiguresInv, Counting
  <2>3. (loopTime + d) % W \in Int
    BY <1>2, <2>2
  <2>4. ((loopTime + d) % W) \div Kilo \in Int
    BY <1>2, <2>3
  <2> QED
    BY <2>1, <2>3, <2>4
<1>4. Counting'
  BY <1>1, <1>3 DEF FiguresInv, Counting, InRound, Over
<1>5. Averaged' /\ Extent' /\ OnScreen'
  BY <1>1, FiguresFrame DEF FiguresInv, OnScreen
<1> QED
  BY <1>1, <1>4, <1>5, CalibrateStep DEF FiguresInv, NothingYet

LEMMA WarmCounts ==
  ASSUME FiguresInv, Warm
  PROVE  FiguresInv'
<1>1. /\ UNCHANGED <<program, stage, stats, elapsed, low, high, recorded, iterations, printed,
                     round, loopTime>>
      /\ pc = "warm" /\ pc' = "before" /\ name' = name
  BY DEF Warm, history, name
<1>2. Counting'
  BY <1>1, CountedIs DEF FiguresInv, Counting, InRound, Over
<1>3. Averaged' /\ Extent' /\ OnScreen'
  BY <1>1, FiguresFrame DEF FiguresInv, OnScreen
<1> QED
  BY <1>1, <1>2, <1>3, WarmStep DEF FiguresInv, NothingYet

LEMMA ReadStartCounts ==
  ASSUME FiguresInv, ReadStart
  PROVE  FiguresInv'
<1>1. /\ UNCHANGED <<program, stage, stats, elapsed, low, high, recorded, iterations, printed,
                     round, loopTime>>
      /\ pc = "before" /\ pc' = "timed" /\ name' = name
  BY DEF ReadStart, history, name
<1>2. Counting'
  BY <1>1 DEF FiguresInv, Counting, InRound, Over
<1>3. Averaged' /\ Extent' /\ OnScreen'
  BY <1>1, FiguresFrame DEF FiguresInv, OnScreen
<1> QED
  BY <1>1, <1>2, <1>3, ReadStartStep DEF FiguresInv, NothingYet

LEMMA TimedCounts ==
  ASSUME FiguresInv, Timed
  PROVE  FiguresInv'
<1>1. /\ UNCHANGED <<program, stage, stats, elapsed, low, high, recorded, iterations, printed,
                     round, loopTime>>
      /\ pc = "timed" /\ pc' = "after" /\ name' = name
  BY DEF Timed, history, name
<1>2. moved' \in Moves
  <2>1. PICK d \in Moves : moved' = moved + d
    BY DEF Timed
  <2>2. moved = 0 /\ d \in Int
    BY <1>1, MovesAreInt DEF FiguresInv, MeasureInv, Started
  <2> QED
    BY <2>1, <2>2
<1>3. Counting'
  BY <1>1 DEF FiguresInv, Counting, InRound, Over
<1>4. Averaged' /\ Extent' /\ OnScreen'
  BY <1>1, FiguresFrame DEF FiguresInv, OnScreen
<1> QED
  BY <1>1, <1>2, <1>3, <1>4, TimedStep DEF FiguresInv, NothingYet

LEMMA TakeTimeCounts ==
  ASSUME FiguresInv, TakeTime
  PROVE  FiguresInv'
<1>1. /\ UNCHANGED <<program, stage, loopTime, printed>> /\ name' = name /\ pc = "after"
      /\ round' = round + 1
      /\ pc' = IF round' < Times(name) THEN "before" ELSE "print"
  BY DEF TakeTime, name
<1>2. /\ recorded \in Nat /\ round \in Nat /\ elapsed \in Int /\ low \in Int /\ high \in Int
      /\ Times(name) \in Nat /\ Counted(name) \in Nat
      /\ moved \in Moves /\ moved \in Int
      /\ round < Times(name) /\ recorded <= round /\ (name # "uncompress" => recorded = round)
      /\ iterations = recorded * Counted(name)
      /\ OnScreen /\ pc' \in {"before", "print"}
  BY <1>1, CountedIs, MovesAreInt DEF FiguresInv, MeasureInv, MeasureNumbers, Counting, InRound,
     NothingYet
<1>3. OnScreen'
  BY <1>1, <1>2 DEF OnScreen
<1>4. MeasureInv'
  BY RecordStep DEF FiguresInv
<1>5. CASE name = "uncompress" /\ UNCHANGED <<stats, iterations, history>>
  <2>1. UNCHANGED <<stats, elapsed, low, high, recorded, iterations>>
    BY <1>5 DEF history
  <2>2. Counting'
    BY <1>1, <1>2, <1>5, <2>1 DEF FiguresInv, Counting, InRound, Over
  <2> QED
    BY <1>2, <1>3, <1>4, <2>1, <2>2, FiguresFrame DEF FiguresInv, NothingYet
<1>6. CASE /\ stats' = Record(stats, moved % W)
           /\ iterations' = iterations + Counted(name)
           /\ recorded' = recorded + 1
           /\ elapsed' = elapsed + moved
           /\ low' = IF recorded = 0 \/ moved < low THEN moved ELSE low
           /\ high' = IF recorded = 0 \/ moved > high THEN moved ELSE high
  <2>1. iterations' = recorded' * Counted(name)
    BY <1>2, <1>6, Product
  <2>2. Counting'
    BY <1>1, <1>2, <1>6, <2>1 DEF FiguresInv, Counting, InRound, Over
  <2>3. Averaged'
    <3>1. CASE recorded = 0
      <4>1. elapsed = 0
        BY <3>1 DEF FiguresInv, NothingYet
      <4> QED
        BY <1>2, <1>6, <3>1, <4>1 DEF Averaged
    <3>2. CASE recorded # 0
      <4>1. /\ high \in Moves /\ low <= high
            /\ recorded * low <= elapsed /\ elapsed <= recorded * high
        BY <1>2, <3>2 DEF FiguresInv, Averaged
      <4>2. /\ low' \in Int /\ low' <= low /\ low' <= moved /\ high' \in Int
            /\ high <= high' /\ moved <= high' /\ high' \in Moves /\ low' <= high'
        BY <1>2, <1>6, <3>2, <4>1
      <4>3. recorded * low' <= recorded * low /\ (recorded + 1) * low' = recorded * low' + low'
            /\ recorded * low' \in Int /\ recorded * low \in Int
        BY <1>2, <4>2, Product
      <4>4. recorded * high <= recorded * high' /\ recorded * high' \in Int /\ recorded * high \in Int
        BY <1>2, <4>2, Product
      <4>5. (recorded + 1) * high' = recorded * high' + high'
        BY <1>2, <4>2, Product
      <4>6. recorded' * low' <= elapsed' /\ elapsed' <= recorded' * high'
        BY <1>2, <1>6, <4>1, <4>2, <4>3, <4>4, <4>5
      <4>7. recorded' # 1
        BY <1>2, <1>6, <3>2
      <4> QED
        BY <4>2, <4>6, <4>7 DEF Averaged
    <3> QED
      BY <3>1, <3>2
  <2>4. recorded' # 0
    BY <1>2, <1>6
  <2>5. Extent'
    <3> DEFINE d == moved % W
    <3>1. d \in 0 .. W - 1
      BY <1>2, MeasureConstants
    <3>2. stats.min \in Int /\ stats.max \in Int
      BY DEF FiguresInv, MeasureInv, MeasureNumbers
    <3>3. /\ stats'.min = IF d < stats.min THEN d ELSE stats.min
          /\ stats'.max = IF d > stats.max THEN d ELSE stats.max
      BY <1>6 DEF Record
    <3> HIDE DEF d
    <3>4. stats'.min <= stats'.max
      BY <3>1, <3>2, <3>3
    <3>5. CASE recorded = 0
      <4>1. stats.min = W - 1 /\ stats.max = 0 /\ elapsed = 0
        BY <3>5 DEF FiguresInv, MeasureInv, Begun, NothingYet
      <4>2. stats'.min = d /\ stats'.max = d
        BY <3>1, <3>3, <4>1, MeasureConstants
      <4>3. elapsed' = moved
        BY <1>2, <1>6, <4>1
      <4> QED
        BY <3>4, <4>2, <4>3 DEF Extent, d
    <3>6. CASE recorded # 0
      <4>1. recorded' # 1
        BY <1>2, <1>6, <3>6
      <4> QED
        BY <3>4, <4>1 DEF Extent
    <3> QED
      BY <3>5, <3>6
  <2> QED
    BY <1>2, <1>3, <1>4, <2>2, <2>3, <2>4, <2>5 DEF FiguresInv, NothingYet
<1> QED
  BY <1>5, <1>6 DEF TakeTime

LEMMA PrintFiguresCounts ==
  ASSUME FiguresInv, PrintFigures
  PROVE  FiguresInv'
<1>1. /\ UNCHANGED <<program, stage, stats, elapsed, low, high, recorded, iterations, round, loopTime>>
      /\ pc = "print" /\ pc' = "printed" /\ name' = name /\ printed' = {Figures}
  BY DEF PrintFigures, history, name
<1>2. Counting'
  BY <1>1 DEF FiguresInv, Counting, InRound, Over
<1>3. Figures' = Figures
  BY <1>1 DEF Figures
<1>4. Averaged' /\ Extent' /\ OnScreen'
  BY <1>1, <1>3, FiguresFrame DEF FiguresInv, OnScreen
<1> QED
  BY <1>1, <1>2, <1>4, PrintFiguresStep DEF FiguresInv, NothingYet

LEMMA NextStageCounts ==
  ASSUME FiguresInv, NextStage
  PROVE  FiguresInv'
<1>1. /\ recorded' = 0 /\ round' = 0 /\ iterations' = 0 /\ loopTime' = 0 /\ printed' = {}
      /\ elapsed' = 0 /\ pc' = FirstAction(name')
  BY DEF NextStage, name
<1>2. pc' \in {"calibrate", "before"} /\ (pc' = "calibrate" => name' \in Caches) /\ 0 < Times(name')
  BY <1>1, FirstActionIs
<1>3. 0 * Counted(name') = 0
  BY CountedIs
<1>4. Counting'
  BY <1>1, <1>2, <1>3 DEF Counting, InRound, Over, Times, Counted
<1>5. Averaged' /\ OnScreen' /\ NothingYet' /\ Extent'
  BY <1>1, <1>2 DEF Averaged, OnScreen, NothingYet, Extent
<1> QED
  BY <1>2, <1>4, <1>5, StageStep DEF FiguresInv

LEMMA FiguresNext == FiguresInv /\ [Next]_vars => FiguresInv'
<1> SUFFICES ASSUME FiguresInv, [Next]_vars PROVE FiguresInv'
  OBVIOUS
<1>1. CASE \/ TimeAccesses \/ TimeLock \/ TimeUnlock \/ TimeMemory \/ TimeCompress
           \/ TimeUncompress \/ TimeCopy \/ TimeDisk \/ TimeWrite
  <2>1. Timed
    BY <1>1 DEF TimeAccesses, TimeLock, TimeUnlock, TimeMemory, TimeCompress, TimeUncompress,
                TimeCopy, TimeDisk, TimeWrite
  <2> QED
    BY <2>1, TimedCounts
<1>2. CASE UNCHANGED vars
  <2>1. /\ UNCHANGED <<program, stage, stats, elapsed, low, high, recorded, iterations, printed,
                       round, loopTime, pc, moved>>
        /\ name' = name
    BY <1>2 DEF vars, history, name
  <2>2. Counting' /\ Averaged' /\ Extent' /\ NothingYet'
    BY <2>1, FiguresFrame DEF FiguresInv, Counting, NothingYet
  <2>3. Figures' = Figures
    BY <2>1 DEF Figures
  <2>4. OnScreen'
    BY <2>1, <2>3 DEF FiguresInv, OnScreen
  <2> QED
    BY <1>2, <2>1, <2>2, <2>4, MeasureNextInv DEF FiguresInv
<1> QED
  BY <1>1, <1>2, CalibrateCounts, WarmCounts, ReadStartCounts, TakeTimeCounts, PrintFiguresCounts,
     NextStageCounts DEF Next, Exited

\* A sum of k times between low and high, divided by k.
LEMMA AverageBetween ==
  ASSUME NEW k \in Nat, k >= 1, NEW total \in Nat, NEW least \in Int, NEW most \in Int,
         k * least <= total, total <= k * most
  PROVE  least <= total \div k /\ total \div k <= most /\ total \div k \in Int
<1> DEFINE q == total \div k
<1>1. /\ q \in Int /\ total = q * k + (total % k) /\ total % k \in 0 .. k - 1
      /\ q * k \in Int /\ q * k = k * q
  OBVIOUS
<1> HIDE DEF q
<1>2. k * q <= total /\ total < k * q + k
  BY <1>1
<1>3. least <= q
  <2> SUFFICES ASSUME q + 1 <= least PROVE FALSE
    BY <1>1
  <2>1. k * (q + 1) <= k * least /\ k * (q + 1) = k * q + k
    BY <1>1, Product
  <2> QED
    BY <1>1, <1>2, <2>1
<1>4. q <= most
  <2> SUFFICES ASSUME most + 1 <= q PROVE FALSE
    BY <1>1
  <2>1. k * (most + 1) <= k * q /\ k * (most + 1) = k * most + k /\ k * most \in Int
    BY <1>1, Product
  <2> QED
    BY <1>1, <1>2, <2>1
<1> QED
  BY <1>1, <1>3, <1>4 DEF q

\* A remainder that does nothing, and one that was taken too early.
LEMMA Fits == ASSUME NEW a \in Nat, NEW m \in Nat, a < m PROVE a % m = a
  OBVIOUS

LEMMA DifferenceLater ==
  ASSUME NEW a \in Int, NEW b \in Int, NEW w \in Nat, w >= 1
  PROVE  ((a % w) - b) % w = (a - b) % w
<1> DEFINE x == a % w
           c == -b
<1>1. x \in 0 .. w - 1 /\ c \in Int
  OBVIOUS
<1>2. x % w = x
  BY <1>1, Fits
<1> HIDE DEF c
<1>3. ((a % w) + (c % w)) % w = (a + c) % w
  BY <1>1, SumLater
<1>4. ((x % w) + (c % w)) % w = (x + c) % w
  <2> HIDE DEF x
  <2> QED
    BY <1>1, SumLater
<1>5. (x + c) % w = (a + c) % w
  BY <1>2, <1>3, <1>4
<1>6. x + c = x - b /\ a + c = a - b
  BY <1>1 DEF c
<1> QED
  BY <1>5, <1>6

\* What is on the screen, of a cache and of anything else.
LEMMA PrintedIs ==
  ASSUME FiguresInv, NEW f \in printed
  PROVE  /\ f = Figures /\ recorded \in Nat /\ Rounds \in Nat /\ Rounds >= 1
         /\ recorded <= Times(name) /\ (name # "uncompress" => recorded = Times(name))
         /\ iterations = recorded * Counted(name)
         /\ Passed \in 0 .. W - 1 /\ W \in Nat /\ elapsed \in Int
         /\ stats.sum = elapsed % W
         /\ stats.min \in Int /\ stats.max \in Int
         /\ name \notin Caches => Passed = stats.sum
<1>1. f = Figures /\ pc = "printed"
  BY DEF FiguresInv, OnScreen
<1>2. /\ recorded \in Nat /\ recorded <= Times(name) /\ (name # "uncompress" => recorded = Times(name))
      /\ iterations = recorded * Counted(name)
      /\ elapsed \in Int /\ loopTime \in Int /\ stats.min \in Int /\ stats.max \in Int
      /\ stats.sum = elapsed % W
      /\ name \notin Caches => loopTime = 0
  BY <1>1 DEF FiguresInv, MeasureInv, MeasureNumbers, Counting, Over, SumIsElapsed
<1>3. Passed \in 0 .. W - 1
  BY <1>2, MeasureConstants DEF Passed
<1>4. name \notin Caches => Passed = stats.sum
  <2> SUFFICES ASSUME name \notin Caches PROVE Passed = elapsed % W
    BY <1>2
  <2>1. elapsed - loopTime = elapsed
    BY <1>2
  <2> QED
    BY <2>1 DEF Passed
<1> QED
  BY <1>1, <1>2, <1>3, <1>4, CountedIs, MeasureConstants

\* The figures of a cache, for every clock.
LEMMA CacheFigures ==
  ASSUME FiguresInv, NEW f \in printed, name \in Caches
  PROVE  /\ recorded = 1
         /\ f.avg = <<Passed, Counted(name)>> /\ f.min = <<Passed, L1>> /\ f.max = <<Passed, L1>>
<1>1. /\ f = Figures /\ recorded = 1 /\ iterations = Counted(name)
      /\ stats.sum = elapsed % W /\ elapsed \in Int
  <2>1. recorded = 1 /\ Counted(name) \in Nat
    BY PrintedIs, CountedIs DEF Caches
  <2> QED
    BY <2>1, PrintedIs
<1>2. stats.min = elapsed % W /\ stats.max = elapsed % W
  BY <1>1 DEF FiguresInv, Extent
<1>3. loopTime \in Int /\ loopTime \div Repeat = loopTime
  BY DEF Repeat, FiguresInv, Counting
<1>4. ((elapsed % W) - loopTime) % W = Passed
  BY <1>1, <1>3, DifferenceLater, MeasureConstants DEF Passed
<1>5. f = [avg |-> <<(stats.sum - loopTime) % W, iterations>>,
           min |-> <<(stats.min - loopTime \div Repeat) % W, L1>>,
           max |-> <<(stats.max - loopTime \div Repeat) % W, L1>>]
  <2>1. name \in Caches /\ name \notin {"disk", "echo", "memory", "uncompress", "copy"}
    BY DEF Caches
  <2> QED
    BY <1>1, <2>1 DEF Figures
<1>6. f = [avg |-> <<Passed, Counted(name)>>, min |-> <<Passed, L1>>, max |-> <<Passed, L1>>]
  BY <1>1, <1>2, <1>3, <1>4, <1>5, Zenon
<1> QED
  BY <1>1, <1>6

\* And of every other benchmark.
LEMMA OtherFigures ==
  ASSUME FiguresInv, NEW f \in printed, name \notin Caches
  PROVE  /\ f.min = <<stats.min, 1>> /\ f.max = <<stats.max, 1>>
         /\ recorded \in Nat /\ Counted(name) = 1
         /\ IF name \in {"disk", "echo"}
            THEN recorded = Rounds /\ f.avg = <<Passed \div recorded, 1>>
            ELSE f.avg = <<Passed, recorded>>
<1>1. /\ f = Figures /\ recorded \in Nat /\ Counted(name) = 1 /\ Times(name) = Rounds
      /\ iterations = recorded /\ Passed = stats.sum
      /\ name # "uncompress" => recorded = Rounds
  BY PrintedIs, CountedIs
<1>2. f.min = <<stats.min, 1>> /\ f.max = <<stats.max, 1>>
  BY <1>1 DEF Figures
<1>3. CASE name \in {"disk", "echo"}
  BY <1>1, <1>2, <1>3 DEF Figures
<1>4. CASE name \in {"memory", "uncompress", "copy"}
  BY <1>1, <1>2, <1>4 DEF Figures
<1>5. CASE name \notin {"disk", "echo", "memory", "uncompress", "copy"}
  BY <1>1, <1>2, <1>5 DEF Figures
<1> QED
  BY <1>3, <1>4, <1>5

LEMMA AveragesAreTimes == FiguresInv => AverageIsTime
<1> SUFFICES ASSUME FiguresInv, NEW f \in printed
             PROVE  /\ name # "uncompress" => recorded = Times(name)
                    /\ f.avg = IF name \in {"disk", "echo"} THEN <<Passed \div recorded, 1>>
                               ELSE <<Passed, recorded * Counted(name)>>
  BY DEF AverageIsTime
<1>1. name # "uncompress" => recorded = Times(name)
  BY PrintedIs
<1>2. CASE name \in Caches
  <2>1. recorded * Counted(name) = Counted(name) /\ name \notin {"disk", "echo"}
    BY <1>2, CacheFigures, CountedIs DEF Caches
  <2> QED
    BY <1>1, <1>2, <2>1, CacheFigures
<1>3. CASE name \notin Caches
  <2>1. recorded * Counted(name) = recorded
    BY <1>3, OtherFigures
  <2> QED
    BY <1>1, <1>3, <2>1, OtherFigures
<1> QED
  BY <1>2, <1>3

\* Two fractions with one numerator are in order both ways if they are equal.
LEMMA Fractions ==
  ASSUME NEW p \in Nat, NEW c \in Nat, NEW d \in Nat
  PROVE  (p * c <= p * d /\ p * d <= p * c) <=> (c = d \/ p = 0)
<1>1. CASE p = 0
  BY <1>1
<1>2. CASE p # 0 /\ c < d
  <2>1. p * (d - c) >= 1 * (d - c) /\ p * (d - c) = p * d - p * c
    BY <1>2
  <2> QED
    BY <1>2, <2>1
<1>3. CASE p # 0 /\ d < c
  <2>1. p * (c - d) >= 1 * (c - d) /\ p * (c - d) = p * c - p * d
    BY <1>3
  <2> QED
    BY <1>3, <2>1
<1>4. CASE c = d
  BY <1>4
<1> QED
  BY <1>1, <1>2, <1>3, <1>4

LEMMA CachesInOrder ==
  ASSUME FiguresInv, name \in Caches, NEW f \in printed
  PROVE  /\ f.min = f.max /\ LessEq(f.min, f.max)
         /\ InOrder <=> Counted(name) = L1 \/ Passed = 0
<1>1. /\ f.avg = <<Passed, Counted(name)>> /\ f.min = <<Passed, L1>> /\ f.max = <<Passed, L1>>
      /\ Passed \in Nat /\ Counted(name) \in Nat /\ L1 \in Nat
  BY CacheFigures, PrintedIs, CountedIs
<1>2. printed = {f}
  BY DEF FiguresInv, OnScreen
<1>3. LessEq(f.min, f.avg) <=> Passed * Counted(name) <= Passed * L1
  BY <1>1 DEF LessEq
<1>4. LessEq(f.avg, f.max) <=> Passed * L1 <= Passed * Counted(name)
  BY <1>1 DEF LessEq
<1>5. InOrder <=> Counted(name) = L1 \/ Passed = 0
  BY <1>1, <1>2, <1>3, <1>4, Fractions DEF InOrder
<1>6. LessEq(f.min, f.max)
  BY <1>1 DEF LessEq
<1> QED
  BY <1>1, <1>5, <1>6

LEMMA OthersInOrder ==
  ASSUME FiguresInv, name \notin Caches, NEW f \in printed, recorded > 0
  PROVE  /\ LessEq(f.min, f.max)
         /\ low >= 0 => LessEq(f.min, f.avg) /\ LessEq(f.avg, f.max)
<1>1. /\ f.min = <<stats.min, 1>> /\ f.max = <<stats.max, 1>>
      /\ stats.min \in Int /\ stats.max \in Int /\ stats.min <= stats.max
  BY OtherFigures, PrintedIs DEF FiguresInv, Extent
<1>2. LessEq(f.min, f.max)
  BY <1>1 DEF LessEq
<1> SUFFICES ASSUME low >= 0 PROVE LessEq(f.min, f.avg) /\ LessEq(f.avg, f.max)
  BY <1>2
<1>3. /\ recorded \in Nat /\ elapsed \in Int /\ low \in Int /\ high \in Int
      /\ W \in Nat /\ Rounds \in Nat /\ Rounds >= 1
      /\ recorded <= Rounds /\ stats.sum = elapsed % W /\ Passed = stats.sum
  BY PrintedIs, CountedIs DEF FiguresInv, MeasureInv, MeasureNumbers
<1>4. /\ high \in Moves /\ Rounds * high < W /\ low <= high
      /\ recorded * low <= elapsed /\ elapsed <= recorded * high
  BY MovesAreInt DEF FiguresInv, Averaged
<1>5. /\ recorded * high <= Rounds * high /\ recorded * high \in Int /\ Rounds * high \in Int
      /\ 0 <= recorded * low
  BY <1>3, <1>4, Product
<1>6. elapsed \in Nat /\ elapsed < W
  BY <1>3, <1>4, <1>5
<1>7. Passed = elapsed /\ stats.min = low /\ stats.max = high
  BY <1>3, <1>6, Fits DEF FiguresInv, MeasureInv, ExtremesHold
<1>8. CASE name \in {"disk", "echo"}
  <2>1. f.avg = <<elapsed \div recorded, 1>> /\ recorded >= 1
    BY <1>3, <1>7, <1>8, OtherFigures
  <2>2. low <= elapsed \div recorded /\ elapsed \div recorded <= high /\ elapsed \div recorded \in Int
    BY <1>3, <1>4, <1>6, <2>1, AverageBetween
  <2> QED
    BY <1>1, <1>3, <1>7, <2>1, <2>2 DEF LessEq
<1>9. CASE name \notin {"disk", "echo"}
  <2>1. f.avg = <<elapsed, recorded>>
    BY <1>7, <1>9, OtherFigures
  <2>2. recorded * low = low * recorded /\ recorded * high = high * recorded /\ elapsed * 1 = elapsed
    BY <1>3
  <2> QED
    BY <1>1, <1>4, <1>7, <2>1, <2>2 DEF LessEq
<1> QED
  BY <1>8, <1>9

LEMMA TheyAreInOrder == FiguresInv => PrintedInOrder
<1> SUFFICES ASSUME FiguresInv PROVE PrintedInOrder
  OBVIOUS
<1>1. recorded > 0 => \A f \in printed : LessEq(f.min, f.max)
  BY CachesInOrder, OthersInOrder
<1>2. recorded > 0 /\ low >= 0 /\ name \notin Caches => InOrder
  BY OthersInOrder DEF InOrder
<1>3. name \in Caches =>
        \A f \in printed : f.min = f.max /\ (InOrder <=> Counted(name) = L1 \/ Passed = 0)
  BY CachesInOrder
<1> QED
  BY <1>1, <1>2, <1>3 DEF PrintedInOrder

\* The figures of a benchmark are in order, however its average is divided, if the
\* clock never went back; its minimum is no more than its maximum for every clock;
\* and those of a cache are in order, for every clock and size, exactly if the
\* average has the divisor of the extremes.
THEOREM FiguresAreInOrder == Spec => []PrintedInOrder
BY TheyAreInOrder, FiguresInit, FiguresNext, PTL DEF Spec

-----------------------------------------------------------------------------
(***************************************************************************)
(* TimerPrecision.  The loop that waits for the clock to move takes few    *)
(* turns, whatever the resolution of the clock and the time of a turn.     *)
(***************************************************************************)
LEMMA TimerConstants ==
  /\ Resolution \in Nat /\ Resolution >= 1 /\ TurnCost \in Nat /\ TurnCost >= 1
  /\ W \in Nat /\ W >= 1 /\ SetBacks \in Nat /\ SetBacks * TurnCost \in Nat
  /\ \A c \in ReadCosts : c \in Nat /\ c + 2 * Resolution + TurnCost + SetBacks * TurnCost < W
<1>1. /\ Resolution \in Nat /\ Resolution >= 1 /\ TurnCost \in Nat /\ TurnCost >= 1
      /\ W \in Nat /\ W >= 1 /\ SetBacks \in Nat
      /\ \A c \in ReadCosts : c \in Nat
  BY ClockAssumption, TurnAssumption, WAssumption, SetBackAssumption
<1>2. (SetBacks + 1) * TurnCost = TurnCost + SetBacks * TurnCost /\ SetBacks * TurnCost \in Nat
  BY <1>1
<1> QED
  BY <1>1, <1>2, DifferencesAssumption

\* Division, in a form that does without it.
LEMMA Division ==
  ASSUME NEW a \in Nat, NEW b \in Nat, b >= 1
  PROVE  /\ a \div b \in Nat
         /\ (a \div b) * b <= a
         /\ a < (a \div b) * b + b
         /\ a % b \in 0 .. b - 1
<1>1. a = (a \div b) * b + (a % b)
  OBVIOUS
<1>2. a % b \in Nat /\ a % b < b
  OBVIOUS
<1>3. a \div b \in Nat
  OBVIOUS
<1>4. QED
  BY <1>1, <1>2, <1>3

LEMMA Monotone ==
  ASSUME NEW a \in Nat, NEW b \in Nat, NEW c \in Nat, a <= b
  PROVE  a * c <= b * c /\ a * c \in Nat /\ b * c \in Nat
<1>1. (b - a) * c >= 0 /\ (b - a) * c = b * c - a * c
  OBVIOUS
<1>2. a * c \in Nat /\ b * c \in Nat
  OBVIOUS
<1>3. QED
  BY <1>1, <1>2

LEMMA EnoughIsATick ==
  /\ Enough \in Nat
  /\ Resolution <= Enough * TurnCost
  /\ Enough * TurnCost < Resolution + TurnCost
  /\ Enough * TurnCost \in Nat
<1>1. Resolution + TurnCost - 1 \in Nat /\ TurnCost \in Nat /\ TurnCost >= 1 /\ Resolution \in Nat
  BY TimerConstants
<1>2. /\ Enough \in Nat
      /\ Enough * TurnCost <= Resolution + TurnCost - 1
      /\ Resolution + TurnCost - 1 < Enough * TurnCost + TurnCost
  BY <1>1, Division DEF Enough
<1>3. Enough * TurnCost \in Nat
  BY <1>1, <1>2
<1>4. QED
  BY <1>1, <1>2, <1>3

\* What a clock shows that nobody set: at least a tick after the time of one,
\* and never more than has passed and the tick that was under way.
LEMMA Shown ==
  ASSUME NEW p \in 0 .. Resolution - 1, NEW t \in Nat
  PROVE  /\ ((p + t) \div Resolution) * Resolution \in Nat
         /\ ((p + t) \div Resolution) * Resolution < t + Resolution
         /\ t >= Resolution => ((p + t) \div Resolution) * Resolution >= Resolution
         /\ \/ ((p + t) \div Resolution) * Resolution = 0
            \/ ((p + t) \div Resolution) * Resolution >= Resolution
<1> DEFINE q == (p + t) \div Resolution
           r == q * Resolution
<1>1. p + t \in Nat /\ Resolution \in Nat /\ Resolution >= 1 /\ p \in Nat /\ p < Resolution
  BY TimerConstants
<1>2. q \in Nat /\ r <= p + t /\ p + t < r + Resolution
  BY <1>1, Division
<1>3. r \in Nat
  BY <1>1, <1>2
<1> HIDE DEF q
<1>4. r = 0 \/ r >= Resolution
  <2>1. CASE q = 0
    BY <1>1, <2>1
  <2>2. CASE q # 0
    <3>1. 1 \in Nat /\ 1 <= q
      BY <1>2, <2>2
    <3>2. 1 * Resolution <= q * Resolution
      BY <1>1, <1>2, <3>1, Monotone
    <3>3. QED
      BY <1>1, <3>2
  <2>3. QED
    BY <2>1, <2>2
<1> HIDE DEF r
<1>5. t >= Resolution => r >= Resolution
  BY <1>1, <1>2, <1>3, <1>4
<1>6. r < t + Resolution
  BY <1>1, <1>2, <1>3
<1>7. QED
  BY <1>3, <1>4, <1>5, <1>6 DEF r, q

LEMMA LongestIs ==
  /\ Longest \in ReadCosts /\ Longest \in Nat
  /\ \A c \in ReadCosts : c \in Nat /\ c <= Longest
<1>1. \E c \in ReadCosts : \A d \in ReadCosts : d <= c
  BY LongestAssumption
<1>2. Longest \in ReadCosts /\ \A d \in ReadCosts : d <= Longest
  BY <1>1 DEF Longest
<1>3. QED
  BY <1>2, TimerConstants

\* A difference of two differences that wrapped around is the one of the times.
LEMMA Wrapped ==
  ASSUME NEW a \in Int, NEW b \in Int, NEW w \in Nat, w >= 1, a >= b, a - b < w
  PROVE  ((a % w) - (b % w)) % w = a - b
<1> DEFINE d == (a \div w) - (b \div w)
           x == (a % w) - (b % w)
<1>1. /\ a = (a \div w) * w + (a % w) /\ b = (b \div w) * w + (b % w)
      /\ a % w \in 0 .. w - 1 /\ b % w \in 0 .. w - 1
      /\ a \div w \in Int /\ b \div w \in Int
  OBVIOUS
<1>2. x = (a - b) - d * w /\ x \in Int /\ d \in Int /\ x < w /\ x > -w
  BY <1>1
<1>3. x = a - b \/ x = a - b - w
  <2> HIDE DEF x, d
  <2>1. CASE d = 0
    BY <1>2, <2>1
  <2>2. CASE d = 1
    BY <1>2, <2>2
  <2>3. CASE d >= 2
    <3>1. d * w >= 2 * w
      BY <1>2, <2>3
    <3>2. QED
      BY <1>2, <3>1
  <2>4. CASE d <= -1
    <3>1. (-d) * w >= w /\ (-d) * w = -(d * w)
      BY <1>2, <2>4
    <3>2. QED
      BY <1>2, <3>1
  <2>5. QED
    BY <1>2, <2>1, <2>2, <2>3, <2>4
<1>4. x % w = a - b
  <2> HIDE DEF x, d
  <2>1. CASE x = a - b
    BY <1>2, <2>1
  <2>2. CASE x = a - b - w
    BY <1>2, <2>2
  <2>3. QED
    BY <1>3, <2>1, <2>2
<1>5. QED
  BY <1>4

-----------------------------------------------------------------------------
(***************************************************************************)
(* The inductive invariant.  For every clock: the loop of n turns is no     *)
(* longer than a tick and what the clock was set back by, and the round it *)
(* is longer in is the last; and one of the readings cost no more than a   *)
(* reading can, or the clock was set back in all of them.  Of a clock that *)
(* was not set back: what the readings can be.                             *)
(***************************************************************************)
TimerNumbers == /\ phase \in 0 .. Resolution - 1 /\ n \in Nat /\ setBacks \in 0 .. SetBacks
           /\ repeat \in Nat
           /\ end \in Int /\ temp \in Int /\ times.min \in Int /\ times.max \in Int
Places == {"start", "end", "compare", "printed", "cost", "temp", "last", "exit"}
Looping == {"start", "end", "compare"}

Turns == /\ at \in {"start", "end"} => n <= Enough + setBacks
         /\ at = "compare" => n <= Enough + setBacks \/ (n = Enough + setBacks + 1 /\ end % W # 0)
         /\ at \notin Looping => n = 0

OneReading == times.min <= Longest + Resolution - 1
Between == 0 <= end - temp /\ end - temp < Longest + Resolution
Cheap == /\ at = "printed" => repeat = 0
         /\ at \in {"cost", "temp", "last"} => repeat <= setBacks \/ OneReading
         /\ at = "last" => repeat + 1 <= setBacks \/ OneReading \/ Between
         /\ at = "exit" => Repeats <= setBacks \/ OneReading

Compared == at = "compare" =>
              end = 0 \/ (Resolution <= end /\ end < 2 * Resolution + TurnCost + Longest)
Last == at = "last" => Between
Extremes == IF Resolving
            THEN times.min >= Resolution /\ times.max < 2 * Resolution + TurnCost + Longest
            ELSE times.max <= Longest + Resolution - 1
Unset == Compared /\ Last /\ Extremes

TimerInv == TimerNumbers /\ at \in Places /\ Turns /\ Cheap /\ (setBacks = 0 => Unset)

LEMMA Arithmetic ==
  /\ Resolution \in Nat /\ Resolution >= 1 /\ TurnCost \in Nat /\ TurnCost >= 1
  /\ W \in Nat /\ W >= 1 /\ Enough \in Nat /\ Longest \in Nat /\ Repeats \in Nat
  /\ SetBacks \in Nat /\ SetBacks * TurnCost \in Nat
  /\ Longest + 2 * Resolution + TurnCost + SetBacks * TurnCost < W
BY TimerConstants, LongestIs, EnoughIsATick, RepeatsAssumption

\* What Record does to the extremes.
LEMMA Recorded ==
  ASSUME NEW old, old.min \in Int, old.max \in Int, NEW d \in Int
  PROVE  /\ Record(old, d).min = IF d < old.min THEN d ELSE old.min
         /\ Record(old, d).max = IF d > old.max THEN d ELSE old.max
         /\ Record(old, d).min \in Int /\ Record(old, d).max \in Int
BY DEF Record

LEMMA TimerInitInv == TimerInit => TimerInv
<1> SUFFICES ASSUME TimerInit PROVE TimerInv
  OBVIOUS
<1>1. times.min = W - 1 /\ times.max = 0
  BY DEF TimerInit, Fresh
<1>2. TimerNumbers /\ at \in Places
  <2>1. times.min \in Int /\ times.max \in Int
    BY <1>1, Arithmetic
  <2>2. /\ phase \in 0 .. Resolution - 1 /\ n = 0 /\ setBacks = 0 /\ repeat = 0
        /\ end = 0 /\ temp = 0 /\ again = FALSE /\ at = "start"
    BY DEF TimerInit
  <2>3. QED
    BY <2>1, <2>2, Arithmetic DEF TimerNumbers, Places
<1>3. Turns /\ Cheap /\ Compared /\ Last
  BY Arithmetic DEF TimerInit, Turns, Cheap, Compared, Last, Looping
<1>4. Extremes
  BY <1>1, Arithmetic DEF TimerInit, Extremes, Resolving
<1>5. QED
  BY <1>2, <1>3, <1>4 DEF TimerInv, Unset

LEMMA ReadFirstStep ==
  ASSUME TimerInv, ReadFirst
  PROVE  TimerInv'
<1>1. /\ at = "start" /\ at' = "end" /\ end' = 0
      /\ UNCHANGED <<temp, again, n, repeat, times, setBacks>>
  BY DEF ReadFirst
<1>2. PICK c \in ReadCosts : phase' = (phase + c) % Resolution
  BY DEF ReadFirst
<1>3. phase + c \in Nat
  BY <1>2, TimerConstants DEF TimerInv, TimerNumbers
<1>4. phase' \in 0 .. Resolution - 1
  BY <1>2, <1>3, Division, TimerConstants
<1>5. TimerNumbers' /\ at' \in Places
  BY <1>1, <1>4 DEF TimerInv, TimerNumbers, Places
<1>6. Turns' /\ Cheap' /\ (setBacks = 0 => Compared' /\ Last' /\ Extremes')
  BY <1>1 DEF TimerInv, Unset, Turns, Cheap, Compared, Last, Extremes, Resolving, Looping
<1>7. QED
  BY <1>1, <1>5, <1>6 DEF TimerInv, Unset

\* A reading of a clock that nobody set, and of one that somebody may have.
LEMMA LaterIs ==
  ASSUME TimerInv, NEW reading \in Int, NEW t \in Nat, NEW later, Later(reading, t, later)
  PROVE  /\ phase' \in 0 .. Resolution - 1 /\ later \in Int
         /\ setBacks' \in 0 .. SetBacks
         /\ \/ setBacks' = setBacks + 1
            \/ /\ setBacks' = setBacks
               /\ later = reading + ((phase + t) \div Resolution) * Resolution
<1> DEFINE shown == reading + ((phase + t) \div Resolution) * Resolution
<1>1. phase \in 0 .. Resolution - 1 /\ setBacks \in 0 .. SetBacks
  BY DEF TimerInv, TimerNumbers
<1>2. phase + t \in Nat
  BY <1>1, TimerConstants
<1>3. phase' \in 0 .. Resolution - 1
  <2>1. phase' = (phase + t) % Resolution
    BY DEF Later
  <2>2. QED
    BY <1>2, <2>1, Division, TimerConstants
<1>4. shown \in Int
  <2>1. ((phase + t) \div Resolution) * Resolution \in Nat
    BY <1>1, Shown
  <2>2. QED
    BY <2>1
<1>5. \/ later = shown /\ setBacks' = setBacks
      \/ /\ setBacks < SetBacks /\ setBacks' = setBacks + 1
         /\ \E b \in SetBack : later = shown - b
  BY DEF Later
<1> HIDE DEF shown
<1>6. later \in Int
  <2>1. \A b \in SetBack : b \in Nat
    BY SetBackAssumption
  <2>2. QED
    BY <1>4, <1>5, <2>1
<1>7. /\ setBacks' \in 0 .. SetBacks
      /\ setBacks' = setBacks + 1 \/ (setBacks' = setBacks /\ later = shown)
  BY <1>1, <1>5, TimerConstants
<1>8. QED
  BY <1>3, <1>6, <1>7 DEF shown

LEMMA ReadEndStep ==
  ASSUME TimerInv, ReadEnd
  PROVE  TimerInv'
<1>1. /\ at = "end" /\ at' = "compare"
      /\ UNCHANGED <<temp, again, repeat, times>>
      /\ n' = IF again THEN n + 1 ELSE n
  BY DEF ReadEnd
<1>2. /\ phase \in 0 .. Resolution - 1 /\ n \in Nat /\ setBacks \in 0 .. SetBacks
      /\ temp \in Int /\ times.min \in Int /\ times.max \in Int /\ repeat \in Nat
      /\ n <= Enough + setBacks
  BY <1>1 DEF TimerInv, TimerNumbers, Turns
<1>3. PICK c \in ReadCosts : Later(0, c + (IF again THEN n * TurnCost ELSE 0), end')
  BY DEF ReadEnd
<1> DEFINE t == c + (IF again THEN n * TurnCost ELSE 0)
           r == ((phase + t) \div Resolution) * Resolution
<1>4. c \in Nat /\ c <= Longest
  BY LongestIs
<1>5. n * TurnCost \in Nat
  BY <1>2, Arithmetic
<1>6. t \in Nat
  BY <1>2, <1>4, <1>5
<1>7. /\ r \in Nat /\ r < t + Resolution
      /\ t >= Resolution => r >= Resolution
      /\ r = 0 \/ r >= Resolution
  <2> HIDE DEF t
  <2>1. QED
    BY <1>2, <1>6, Shown
<1>8. /\ phase' \in 0 .. Resolution - 1 /\ end' \in Int /\ setBacks' \in 0 .. SetBacks
      /\ setBacks' = setBacks + 1 \/ (setBacks' = setBacks /\ end' = r)
  <2>1. Later(0, t, end')
    BY <1>3
  <2>2. /\ phase' \in 0 .. Resolution - 1 /\ end' \in Int /\ setBacks' \in 0 .. SetBacks
        /\ setBacks' = setBacks + 1 \/ (setBacks' = setBacks /\ end' = 0 + r)
    <3> HIDE DEF t
    <3> QED
      BY <1>6, <2>1, LaterIs
  <2> HIDE DEF r
  <2> QED
    BY <1>7, <2>2
<1>9. TimerNumbers' /\ at' \in Places
  BY <1>1, <1>2, <1>8 DEF TimerNumbers, Places
<1>10. n * TurnCost < Resolution + TurnCost + setBacks * TurnCost /\ setBacks * TurnCost \in Nat
  <2>1. /\ n * TurnCost <= (Enough + setBacks) * TurnCost
        /\ setBacks * TurnCost <= SetBacks * TurnCost /\ setBacks * TurnCost \in Nat
    BY <1>2, Monotone, Arithmetic
  <2>2. (Enough + setBacks) * TurnCost = Enough * TurnCost + setBacks * TurnCost
    BY <1>2, Arithmetic
  <2>3. Enough * TurnCost < Resolution + TurnCost /\ Enough * TurnCost \in Nat
    BY EnoughIsATick
  <2> QED
    BY <1>5, <2>1, <2>2, <2>3, Arithmetic
<1>11. t < Longest + Resolution + TurnCost + setBacks * TurnCost
  BY <1>2, <1>4, <1>5, <1>10, Arithmetic
<1>12. r < W
  <2>1. setBacks * TurnCost <= SetBacks * TurnCost
    BY <1>2, Monotone, Arithmetic
  <2> HIDE DEF r, t
  <2> QED
    BY <1>6, <1>7, <1>10, <1>11, <2>1, Arithmetic
<1>13. Turns'
  <2>1. SUFFICES n' <= Enough + setBacks' \/ (n' = Enough + setBacks' + 1 /\ end' % W # 0)
    BY <1>1 DEF Turns, Looping
  <2>2. CASE setBacks' = setBacks + 1
    BY <1>1, <1>2, <2>2, Arithmetic
  <2>3. CASE setBacks' = setBacks /\ end' = r /\ again /\ n = Enough + setBacks
    <3>1. Resolution <= n * TurnCost
      <4>1. Enough * TurnCost <= n * TurnCost /\ Enough * TurnCost \in Nat
        BY <1>2, <2>3, Monotone, Arithmetic
      <4> QED
        BY <1>5, <4>1, EnoughIsATick, Arithmetic
    <3>2. t = c + n * TurnCost
      BY <2>3
    <3>3. t >= Resolution
      BY <1>4, <1>5, <3>1, <3>2, Arithmetic
    <3>4. end' \in Nat /\ end' < W /\ end' # 0
      <4> HIDE DEF r, t
      <4> QED
        BY <1>7, <1>12, <2>3, <3>3, Arithmetic
    <3>5. end' % W # 0
      BY <3>4, Fits, Arithmetic
    <3> QED
      BY <1>1, <2>3, <3>5
  <2>4. CASE setBacks' = setBacks /\ ~(again /\ n = Enough + setBacks)
    BY <1>1, <1>2, <2>4, Arithmetic
  <2> HIDE DEF r, t
  <2> QED
    BY <1>8, <2>2, <2>3, <2>4
<1>14. Cheap'
  BY <1>1 DEF Cheap
<1>15. ASSUME setBacks' = 0 PROVE Unset'
  <2>1. setBacks = 0 /\ end' = r /\ Extremes
    <3> HIDE DEF r
    <3>1. setBacks = 0 /\ end' = r
      BY <1>2, <1>8, <1>15, Arithmetic
    <3> QED
      BY <3>1 DEF TimerInv, Unset
  <2>2. r < 2 * Resolution + TurnCost + Longest
    <3>1. setBacks * TurnCost = 0
      BY <2>1, Arithmetic
    <3> HIDE DEF r, t
    <3> QED
      BY <1>6, <1>7, <1>11, <3>1, Arithmetic
  <2> HIDE DEF r, t
  <2>3. Compared'
    <3>1. end' = 0 \/ (Resolution <= end' /\ end' < 2 * Resolution + TurnCost + Longest)
      BY <1>7, <2>1, <2>2, Arithmetic
    <3> QED
      BY <3>1 DEF Compared
  <2>4. Last'
    BY <1>1 DEF Last
  <2>5. Extremes'
    BY <1>1, <2>1 DEF Extremes, Resolving
  <2> QED
    BY <2>3, <2>4, <2>5 DEF Unset
<1>16. QED
  BY <1>9, <1>13, <1>14, <1>15 DEF TimerInv

LEMMA WaitStep ==
  ASSUME TimerInv, Wait
  PROVE  TimerInv'
<1>1. /\ at = "compare" /\ at' = "start" /\ again' = TRUE /\ end % W = 0
      /\ UNCHANGED <<phase, end, temp, n, repeat, times, setBacks>>
  BY DEF Wait
<1>2. TimerNumbers' /\ at' \in Places
  BY <1>1 DEF TimerInv, TimerNumbers, Places
<1>3. Turns' /\ Cheap'
  BY <1>1 DEF TimerInv, Turns, Cheap, Looping
<1>4. setBacks = 0 => Unset'
  BY <1>1 DEF TimerInv, Unset, Compared, Last, Extremes, Resolving
<1>5. QED
  BY <1>1, <1>2, <1>3, <1>4 DEF TimerInv

LEMMA TakeDiffStep ==
  ASSUME TimerInv, TakeDiff
  PROVE  TimerInv'
<1>1. /\ at = "compare" /\ at' \in {"start", "printed"} /\ again' = FALSE /\ n' = 0
      /\ end % W # 0 /\ times' = Record(times, end % W)
      /\ repeat' \in {repeat + 1, 0} /\ (at' = "printed" => repeat' = 0)
      /\ UNCHANGED <<phase, end, temp, setBacks>>
  BY DEF TakeDiff
<1>2. /\ phase \in 0 .. Resolution - 1 /\ setBacks \in 0 .. SetBacks /\ end \in Int /\ temp \in Int
      /\ times.min \in Int /\ times.max \in Int /\ repeat \in Nat
  BY DEF TimerInv, TimerNumbers
<1>3. end % W \in Int
  BY <1>2, Arithmetic
<1>4. /\ times'.min = IF end % W < times.min THEN end % W ELSE times.min
      /\ times'.max = IF end % W > times.max THEN end % W ELSE times.max
      /\ times'.min \in Int /\ times'.max \in Int
  BY <1>1, <1>2, <1>3, Recorded
<1>5. TimerNumbers' /\ at' \in Places
  BY <1>1, <1>2, <1>4 DEF TimerNumbers, Places
<1>6. ASSUME setBacks = 0 PROVE Unset'
  <2>1. Compared /\ Extremes
    BY <1>6 DEF TimerInv, Unset
  <2>2. end # 0
    <3>1. 0 % W = 0
      BY Arithmetic
    <3>2. QED
      BY <1>1, <3>1
  <2>3. Resolution <= end /\ end < 2 * Resolution + TurnCost + Longest
    BY <1>1, <2>1, <2>2 DEF Compared
  <2>4. end % W = end
    BY <1>2, <2>3, Fits, Arithmetic
  <2>5. times.min >= Resolution /\ times.max < 2 * Resolution + TurnCost + Longest
    BY <1>1, <2>1 DEF Extremes, Resolving
  <2>6. Extremes'
    BY <1>1, <1>4, <2>3, <2>4, <2>5 DEF Extremes, Resolving
  <2>7. Compared' /\ Last'
    BY <1>1 DEF Compared, Last
  <2>8. QED
    BY <2>6, <2>7 DEF Unset
<1>7. Turns' /\ Cheap'
  <2>1. setBacks \in Nat /\ 0 <= Enough + setBacks
    BY <1>2, Arithmetic
  <2>2. Turns'
    BY <1>1, <2>1 DEF Turns, Looping
  <2> QED
    BY <1>1, <2>2 DEF Cheap
<1>8. QED
  BY <1>1, <1>5, <1>6, <1>7 DEF TimerInv

LEMMA PrintResolutionStep ==
  ASSUME TimerInv, PrintResolution
  PROVE  TimerInv'
<1>1. /\ at = "printed" /\ at' = "cost" /\ times' = Fresh
      /\ UNCHANGED <<phase, end, temp, again, n, repeat, setBacks>>
  BY DEF PrintResolution
<1>2. times'.min \in Int /\ times'.max = 0
  BY <1>1, Arithmetic DEF Fresh
<1>3. TimerNumbers' /\ at' \in Places
  BY <1>1, <1>2 DEF TimerInv, TimerNumbers, Places
<1>4. n = 0 /\ repeat = 0 /\ setBacks \in Nat
  BY <1>1 DEF TimerInv, TimerNumbers, Turns, Cheap, Looping
<1>5. Turns' /\ Cheap'
  BY <1>1, <1>4 DEF Turns, Cheap
<1>6. Unset'
  BY <1>1, <1>2, Arithmetic DEF Unset, Compared, Last, Extremes, Resolving
<1>7. QED
  BY <1>3, <1>5, <1>6 DEF TimerInv

LEMMA ReadTempStep ==
  ASSUME TimerInv, ReadTemp
  PROVE  TimerInv'
<1>1. /\ at = "cost" /\ at' = "temp"
      /\ UNCHANGED <<end, again, n, repeat, times>>
  BY DEF ReadTemp
<1>2. PICK c \in ReadCosts : Later(0, c, temp')
  BY DEF ReadTemp
<1>3. /\ phase' \in 0 .. Resolution - 1 /\ temp' \in Int
      /\ setBacks' \in 0 .. SetBacks /\ setBacks' \in {setBacks, setBacks + 1}
  BY <1>2, LaterIs, TimerConstants
<1>4. setBacks \in Nat /\ repeat \in Nat
  BY DEF TimerInv, TimerNumbers
<1>5. TimerNumbers' /\ at' \in Places
  BY <1>1, <1>3 DEF TimerInv, TimerNumbers, Places
<1>6. Turns'
  BY <1>1 DEF TimerInv, Turns, Looping
<1>7. Cheap'
  <2>1. repeat <= setBacks \/ OneReading
    BY <1>1 DEF TimerInv, Cheap
  <2> QED
    BY <1>1, <1>3, <1>4, <2>1 DEF Cheap, OneReading
<1>8. setBacks' = 0 => Unset'
  <2>1. setBacks' = 0 => setBacks = 0
    BY <1>3, <1>4
  <2> QED
    BY <1>1, <2>1 DEF TimerInv, Unset, Compared, Last, Extremes, Resolving
<1>9. QED
  BY <1>5, <1>6, <1>7, <1>8 DEF TimerInv

LEMMA ReadLastStep ==
  ASSUME TimerInv, ReadLast
  PROVE  TimerInv'
<1>1. /\ at = "temp" /\ at' = "last"
      /\ UNCHANGED <<temp, again, n, repeat, times>>
  BY DEF ReadLast
<1>2. PICK c \in ReadCosts : Later(temp, c, end')
  BY DEF ReadLast
<1>3. /\ c \in Nat /\ c <= Longest /\ temp \in Int /\ phase \in 0 .. Resolution - 1
      /\ setBacks \in Nat /\ repeat \in Nat
  BY LongestIs DEF TimerInv, TimerNumbers
<1> DEFINE r == ((phase + c) \div Resolution) * Resolution
<1>4. /\ phase' \in 0 .. Resolution - 1 /\ end' \in Int /\ setBacks' \in 0 .. SetBacks
      /\ setBacks' = setBacks + 1 \/ (setBacks' = setBacks /\ end' = temp + r)
  BY <1>2, <1>3, LaterIs
<1>5. r \in Nat /\ r < c + Resolution
  BY <1>3, Shown
<1>6. TimerNumbers' /\ at' \in Places
  BY <1>1, <1>4 DEF TimerInv, TimerNumbers, Places
<1> HIDE DEF r
<1>7. setBacks' = setBacks + 1 \/ (setBacks' = setBacks /\ Between')
  <2>1. SUFFICES ASSUME setBacks' = setBacks, end' = temp + r
                 PROVE  0 <= end' - temp' /\ end' - temp' < Longest + Resolution
    BY <1>4 DEF Between
  <2>2. end' - temp' = r
    BY <1>1, <1>3, <1>4, <1>5, <2>1
  <2>3. QED
    BY <1>3, <1>5, <2>2, Arithmetic
<1>8. Turns'
  BY <1>1 DEF TimerInv, Turns, Looping
<1>9. Cheap'
  <2>1. repeat <= setBacks \/ OneReading
    BY <1>1 DEF TimerInv, Cheap
  <2>2. OneReading' <=> OneReading
    BY <1>1 DEF OneReading
  <2> QED
    BY <1>1, <1>3, <1>7, <2>1, <2>2 DEF Cheap
<1>10. setBacks' = 0 => Unset'
  <2>1. setBacks' = 0 => setBacks = 0 /\ Between'
    BY <1>3, <1>7
  <2> QED
    BY <1>1, <2>1 DEF TimerInv, Unset, Compared, Last, Extremes, Resolving
<1>11. QED
  BY <1>6, <1>8, <1>9, <1>10 DEF TimerInv

LEMMA TakeCostStep ==
  ASSUME TimerInv, TakeCost
  PROVE  TimerInv'
<1> DEFINE diff == ((end % W) - (temp % W)) % W
<1>1. /\ at = "last" /\ times' = Record(times, diff)
      /\ \/ at' = "cost" /\ repeat' = repeat + 1
         \/ at' = "exit" /\ repeat' = 0 /\ ~(repeat + 1 < Repeats)
      /\ UNCHANGED <<phase, end, temp, again, n, setBacks>>
  BY DEF TakeCost
<1>2. /\ end \in Int /\ temp \in Int /\ times.min \in Int /\ times.max \in Int
      /\ repeat \in Nat /\ setBacks \in Nat
  BY DEF TimerInv, TimerNumbers
<1>3. diff \in Int
  BY <1>2, Arithmetic
<1>4. Between => diff <= Longest + Resolution - 1
  <2>1. SUFFICES ASSUME Between PROVE diff <= Longest + Resolution - 1
    OBVIOUS
  <2>2. end >= temp /\ end - temp < W /\ end - temp < Longest + Resolution
    BY <1>2, <2>1, Arithmetic DEF Between
  <2>3. diff = end - temp
    BY <1>2, <2>2, Wrapped, Arithmetic
  <2>4. QED
    BY <1>2, <2>2, <2>3, Arithmetic
<1> HIDE DEF diff
<1>5. /\ times'.max = IF diff > times.max THEN diff ELSE times.max
      /\ times'.min = IF diff < times.min THEN diff ELSE times.min
      /\ times'.min \in Int /\ times'.max \in Int
  BY <1>1, <1>2, <1>3, Recorded
<1>6. TimerNumbers' /\ at' \in Places
  BY <1>1, <1>2, <1>5 DEF TimerInv, TimerNumbers, Places
<1>7. Turns'
  BY <1>1 DEF TimerInv, Turns, Looping
<1>8. repeat + 1 <= setBacks \/ OneReading'
  <2>1. repeat + 1 <= setBacks \/ OneReading \/ Between
    BY <1>1 DEF TimerInv, Cheap
  <2> QED
    BY <1>2, <1>3, <1>4, <1>5, <2>1, Arithmetic DEF OneReading
<1>9. Cheap'
  BY <1>1, <1>2, <1>8, Arithmetic DEF Cheap
<1>10. ASSUME setBacks = 0 PROVE Unset'
  <2>1. Compared' /\ Last'
    BY <1>1 DEF Compared, Last
  <2>2. times.max <= Longest + Resolution - 1 /\ Between
    BY <1>1, <1>10 DEF TimerInv, Unset, Last, Extremes, Resolving
  <2>3. times'.max <= Longest + Resolution - 1
    BY <1>2, <1>3, <1>4, <1>5, <2>2, Arithmetic
  <2>4. Extremes'
    BY <1>1, <2>3 DEF Extremes, Resolving
  <2>5. QED
    BY <2>1, <2>4 DEF Unset
<1>11. QED
  BY <1>1, <1>6, <1>7, <1>9, <1>10 DEF TimerInv

LEMMA TimerNextInv == TimerInv /\ [TimerNext]_timerVars => TimerInv'
<1> SUFFICES ASSUME TimerInv, [TimerNext]_timerVars PROVE TimerInv'
  OBVIOUS
<1>1. CASE ReadFirst BY <1>1, ReadFirstStep
<1>2. CASE ReadEnd BY <1>2, ReadEndStep
<1>3. CASE Wait BY <1>3, WaitStep
<1>4. CASE TakeDiff BY <1>4, TakeDiffStep
<1>5. CASE PrintResolution BY <1>5, PrintResolutionStep
<1>6. CASE ReadTemp BY <1>6, ReadTempStep
<1>7. CASE ReadLast BY <1>7, ReadLastStep
<1>8. CASE TakeCost BY <1>8, TakeCostStep
<1>9. CASE UNCHANGED timerVars
  BY <1>9 DEF timerVars, TimerInv, TimerNumbers, Unset, Turns, Cheap, OneReading, Between, Compared,
              Last, Extremes, Resolving
<1>10. QED
  BY <1>1, <1>2, <1>3, <1>4, <1>5, <1>6, <1>7, <1>8, <1>9 DEF TimerNext, Finished

LEMMA TimerSpecInv == TimerSpec => []TimerInv
BY TimerInitInv, TimerNextInv, PTL DEF TimerSpec

-----------------------------------------------------------------------------
LEMMA TurnsAreFew == TimerInv => FewTurns
<1> SUFFICES ASSUME TimerInv PROVE n <= Enough + 1 + setBacks
  BY DEF FewTurns
<1>1. Turns /\ n \in Nat /\ setBacks \in Nat /\ at \in Places
  BY DEF TimerInv, TimerNumbers
<1>2. n <= Enough + setBacks \/ n = Enough + setBacks + 1
  BY <1>1, Arithmetic DEF Turns, Looping, Places
<1>3. QED
  BY <1>1, <1>2, Arithmetic

\* clock_gettime_resolution waits for a clock to move for no more turns than a
\* tick is long, and one, and one for each time that the clock was set back,
\* whatever the resolution and the time of a turn.
THEOREM TheWaitIsShort == TimerSpec => []FewTurns
BY TurnsAreFew, TimerSpecInv, PTL

LEMMA CostIsOfOne == TimerInv => CostOfOneReading
<1> SUFFICES ASSUME TimerInv, ~Resolving
             PROVE  /\ setBacks = 0 => times.max <= Longest + Resolution - 1
                    /\ setBacks < Taken => OneReading
  BY DEF CostOfOneReading, OneReading
<1>1. at \in {"cost", "temp", "last", "exit"} /\ setBacks \in Nat /\ repeat \in Nat /\ Repeats \in Nat
  BY Arithmetic DEF TimerInv, TimerNumbers, Places, Resolving
<1>2. setBacks = 0 => times.max <= Longest + Resolution - 1
  BY DEF TimerInv, Unset, Extremes
<1>3. Taken <= setBacks \/ OneReading
  BY <1>1 DEF TimerInv, Cheap, Taken
<1>4. Taken \in Nat
  BY <1>1 DEF Taken
<1> QED
  BY <1>1, <1>2, <1>3, <1>4

\* What it reports of a clock that was not set back is never below the resolution,
\* and above it by no more than the loop and a reading can take.
THEOREM ARoundMeasuresATick == TimerSpec => DiffIsTicks
<1>1. TimerInv' /\ [TimerNext]_timerVars =>
        [(at = "compare" /\ at' # at /\ ~again' /\ setBacks = 0) =>
           /\ times'.min >= Resolution
           /\ times'.max < 2 * Resolution + TurnCost + Longest]_timerVars
  <2> SUFFICES ASSUME TimerInv', [TimerNext]_timerVars, at = "compare", at' # at, ~again', setBacks = 0
               PROVE  /\ times'.min >= Resolution
                      /\ times'.max < 2 * Resolution + TurnCost + Longest
    OBVIOUS
  <2>1. TakeDiff \/ Wait
    BY DEF TimerNext, timerVars, ReadFirst, ReadEnd, PrintResolution, ReadTemp, ReadLast, TakeCost,
           Finished
  <2>2. setBacks' = 0 /\ at' \in {"start", "printed"}
    BY <2>1 DEF TakeDiff, Wait
  <2>3. Extremes'
    BY <2>2 DEF TimerInv, Unset
  <2>4. QED
    BY <2>2, <2>3 DEF Extremes, Resolving
<1>2. QED
  BY <1>1, TimerSpecInv, PTL DEF TimerSpec, DiffIsTicks

\* The cost it reports is that of one reading, although the difference is computed
\* from a third reading and each part of it may wrap around: the maximum too, if
\* the clock was not set back, and the minimum if it was set back less often than
\* the cost was taken.
THEOREM TheCostIsOfOneReading == TimerSpec => []CostOfOneReading
BY CostIsOfOne, TimerSpecInv, PTL

-----------------------------------------------------------------------------
(* Side by side *)

\* A run of one of the programs is one of each, of which the others do nothing.
LEMMA PartsOfInit ==
  AnyInit => Init /\ TimerInit /\ Udp!Init /\ Argument!Init
  BY DEF AnyInit, MeasureWaits, TimerWaits, ArgumentWaits

LEMMA PartsOfNext ==
  [AnyNext]_allVars =>
    /\ [Next]_vars /\ [TimerNext]_timerVars
    /\ [Udp!Next]_udpVars /\ [Argument!Next]_argumentVars
  BY DEF AnyNext, allVars, MeasureRuns, TimerRuns, UdpRuns, OnlyUdp, ArgumentRuns

-----------------------------------------------------------------------------
(* The argument *)

ArgumentInv ==
  /\ s \in [number : Int, suffix : Argument!Suffixes]
  /\ s.number = asked.number
  /\ Argument!Unit(s.suffix) = Argument!Unit(asked.suffix)
  /\ calls > 0 => packet_size = Argument!Size(asked)

LEMMA ArgumentInit == Argument!Init => ArgumentInv
<1> SUFFICES ASSUME Argument!Init PROVE ArgumentInv
  OBVIOUS
<1>1. Half \in Int
  BY HalfAssumption
<1>2. s \in [number : Int, suffix : Argument!Suffixes] /\ s = asked /\ calls = 0
  BY <1>1 DEF Argument!Init
<1> QED
  BY <1>2 DEF ArgumentInv

LEMMA ArgumentNext == ArgumentInv /\ [Argument!Next]_argumentVars => ArgumentInv'
<1> SUFFICES ASSUME ArgumentInv, [Argument!Next]_argumentVars PROVE ArgumentInv'
  OBVIOUS
<1>1. CASE UNCHANGED argumentVars
  BY <1>1 DEF argumentVars, ArgumentInv
<1>2. CASE Argument!get_packet_size
  <2>1. /\ packet_size' = Argument!Size(s) /\ s' = Argument!Restored(s) /\ asked' = asked
    BY <1>2 DEF Argument!get_packet_size
  <2>2. Argument!Size(s) = Argument!Size(asked)
    BY DEF ArgumentInv, Argument!Size
  <2>3. PICK x \in {"none", "M", "K"} : /\ s' = [s EXCEPT !.suffix = x]
                                        /\ Argument!Unit(x) = Argument!Unit(s.suffix)
    BY <2>1 DEF ArgumentInv, Argument!Restored, Argument!Unit, Argument!Suffixes
  <2>4. /\ s' \in [number : Int, suffix : Argument!Suffixes]
        /\ s'.number = s.number /\ s'.suffix = x
    BY <2>3 DEF ArgumentInv, Argument!Suffixes
  <2> QED
    BY <2>1, <2>2, <2>3, <2>4 DEF ArgumentInv
<1> QED
  BY <1>1, <1>2 DEF Argument!Next, Argument!Returned, argumentVars, Argument!vars

\* get_packet_size finds the size that was asked for if that is not negative and
\* below 4 GB, another one for every other argument, and the same size again in the
\* argument as it has left it, for every width of an int.
THEOREM TheSizeIsAsked == AnySpec => []SizeIsAsked
<1>1. ArgumentInv => SizeIsAsked
  <2> SUFFICES ASSUME ArgumentInv, calls > 0
               PROVE  /\ packet_size = Argument!Asked <=> Argument!Asked \in 0 .. 2 * Half - 1
                      /\ Argument!Size(s) = packet_size
                      /\ s.number = asked.number
                      /\ Argument!Unit(s.suffix) = Argument!Unit(asked.suffix)
    BY DEF SizeIsAsked, Argument!SizeIsAsked
  <2> DEFINE a == Argument!Asked
             m == 2 * Half
  <2>1. m \in Nat /\ m >= 1
    BY HalfAssumption
  <2>2. packet_size = a % m /\ Argument!Size(s) = packet_size
    BY DEF ArgumentInv, Argument!Size, Argument!Asked
  <2>3. a \in Int
    <3>1. s.number \in Int /\ Kibi \in Nat
      BY HalfAssumption DEF ArgumentInv
    <3>2. Argument!Unit(s.suffix) \in Int
      <4>1. Kibi * Kibi \in Int
        BY <3>1
      <4> QED
        BY <3>1, <4>1 DEF ArgumentInv, Argument!Unit, Argument!Suffixes
    <3>3. a = s.number * Argument!Unit(s.suffix)
      BY DEF ArgumentInv, Argument!Asked
    <3> QED
      BY <3>1, <3>2, <3>3
  <2> HIDE DEF a, m
  <2>4. a % m = a <=> a \in 0 .. m - 1
    <3>1. a % m \in 0 .. m - 1
      BY <2>1, <2>3
    <3>2. CASE a \in 0 .. m - 1
      BY <2>1, <2>3, <3>2, Fits
    <3> QED
      BY <3>1, <3>2
  <2> QED
    BY <2>2, <2>4 DEF a, m, ArgumentInv
<1> QED
  BY <1>1, ArgumentInit, ArgumentNext, PartsOfInit, PartsOfNext, PTL DEF AnySpec

-----------------------------------------------------------------------------
(* The figures *)

\* In every benchmark and for every clock, the average is the elapsed time for each
\* operation that was timed, and no output of Uncompress that was wrong is timed;
\* the minimum is no more than the maximum.  The average lies between them in the
\* benchmarks other than of the caches if the clock never went back, and in those
\* of the caches, for every clock, exactly if it has their divisor.  The cost of
\* reading a clock and the turns of the wait are bounded as in the two theorems on
\* them.
THEOREM TheFiguresAreSound == AnySpec => []FiguresAreSound
<1>1. FiguresInv /\ TimerInv => FiguresAreSound
  BY TheyAreInOrder, AveragesAreTimes, TurnsAreFew, CostIsOfOne
     DEF FiguresAreSound, FiguresInv, MeasureInv, Caught, OnlyRightOutput
<1>2. AnyInit => FiguresInv /\ TimerInv
  BY PartsOfInit, FiguresInit, TimerInitInv
<1>3. FiguresInv /\ TimerInv /\ [AnyNext]_allVars => (FiguresInv /\ TimerInv)'
  BY PartsOfNext, FiguresNext, TimerNextInv
<1> QED
  BY <1>1, <1>2, <1>3, PTL DEF AnySpec

-----------------------------------------------------------------------------
(* The two UDP programs *)

\* Packets further on in the buffer, of 1 kB, after the turns of the first loop.
Skipped == <<0, 1, 3, 7, 15, 31, 63>>

AtTrips(here) == /\ here.turn \in 1 .. 7 /\ here.i \in 0 .. Trips - 1
                 /\ here.skip = 1024 * Skipped[here.turn]
AtBandwidth(here) == here.turn = 1 /\ here.i \in 0 .. Bandwidth - 1 /\ here.skip = 0
AtDrops(here) == /\ here.turn \in 1 .. 18 /\ here.i \in 0 .. Drops - 1
                 /\ here.skip = 8192 * (here.turn - 1)

\* Where a program can be: its place in the buffer belongs to its turn.
AtPlace(here) == /\ here \in [loop : 1 .. 4, turn : Nat, i : Nat, skip : Nat]
                 /\ here.loop = 1 => AtTrips(here)
                 /\ here.loop = 2 => AtBandwidth(here)
                 /\ here.loop = 3 => AtDrops(here)

\* The programs have a place in common, or the client has read the packet whose
\* ack the server has not seen.
UdpInv ==
  /\ sent \in Nat /\ confirmed \in Nat /\ got \in Seq(Int)
  /\ confirmed <= Len(got) /\ Len(got) <= sent /\ sent <= confirmed + 1
  /\ AtPlace(sAt)
  /\ cAt = IF Len(got) = confirmed THEN sAt ELSE Udp!After(Udp!Server, sAt)
  /\ sent > confirmed => ~Udp!Done(sAt) /\ sizeSent = Udp!Size(Udp!Server, sAt)
  /\ sizeSent <= Udp!MaxDatagram

LEMMA IterationsAre ==
  /\ Trips \in Nat /\ Trips >= 1 /\ Bandwidth \in Nat /\ Bandwidth >= 1
  /\ Drops \in Nat /\ Drops >= 1
BY IterationsAssumption

\* Both programs have the same plan.
LEMMA TheyHaveOnePlan ==
  /\ Udp!Client = Udp!Server
  /\ Udp!Server.sizes = <<1024, 2048, 4096, 8192, 16384, 32768, 64512>>
  /\ Udp!Server.trips = Trips /\ Udp!Server.bandwidth = Bandwidth /\ Udp!Server.drops = Drops
  /\ Udp!Server.dropSize = 8192
  /\ Len(Udp!Server.percents) = 18
<1>1. (95 - 5 + 5 - 1) \div 5 = 18
  OBVIOUS
<1>2. Udp!Percents(5, 95, 5) = [k \in 1 .. 18 |-> 5 + 5 * (k - 1)]
  BY <1>1 DEF Udp!Percents
<1>3. Len(Udp!Percents(5, 95, 5)) = 18
  BY <1>2
<1>4. Udp!Client = Udp!Server
  BY DEF Udp!Client, Udp!Server, Udp!KB
<1> QED
  BY <1>3, <1>4 DEF Udp!Server, Udp!KB

LEMMA TheLoopsAre ==
  ASSUME NEW here, here.loop \in 1 .. 4
  PROVE  /\ Udp!Done(here) <=> here.loop = 4
         /\ Udp!In(here, "trips") <=> here.loop = 1
         /\ Udp!In(here, "bandwidth") <=> here.loop = 2
         /\ Udp!In(here, "drops") <=> here.loop = 3
BY DEF Udp!Done, Udp!In, Udp!Loops

LEMMA TripsAre ==
  ASSUME NEW here, here.loop = 1
  PROVE  /\ Udp!Size(Udp!Server, here) = Udp!Server.sizes[here.turn]
         /\ Udp!Iterations(Udp!Server, here) = Trips /\ Udp!Turns(Udp!Server, here) = 7
         /\ Udp!Room(Udp!Server, here) = Udp!Total(Udp!Server)
BY TheLoopsAre, TheyHaveOnePlan DEF Udp!Size, Udp!Iterations, Udp!Turns, Udp!Room

LEMMA BandwidthIs ==
  ASSUME NEW here, here.loop = 2
  PROVE  /\ Udp!Size(Udp!Server, here) = 64512
         /\ Udp!Iterations(Udp!Server, here) = Bandwidth /\ Udp!Turns(Udp!Server, here) = 1
         /\ Udp!Room(Udp!Server, here) = 64512
BY TheLoopsAre, TheyHaveOnePlan DEF Udp!Size, Udp!Iterations, Udp!Turns, Udp!Room

LEMMA DropsAre ==
  ASSUME NEW here, here.loop = 3
  PROVE  /\ Udp!Size(Udp!Server, here) = 8192
         /\ Udp!Iterations(Udp!Server, here) = Drops /\ Udp!Turns(Udp!Server, here) = 18
         /\ Udp!Room(Udp!Server, here) = 8192 * Drops
BY TheLoopsAre, TheyHaveOnePlan DEF Udp!Size, Udp!Iterations, Udp!Turns, Udp!Room

\* The buffer of the first loop.
LEMMA TheTotalIs == Udp!Total(Udp!Server) = 129024
<1> DEFINE p == Udp!Server
           body(f, k) == IF k = 0 THEN 0 ELSE f[k - 1] + p.sizes[k]
           sum == CHOOSE f : f = [k \in 0 .. Len(p.sizes) |-> body(f, k)]
           kept == [k \in 0 .. 7 |-> 1024 * (IF k < 7 THEN Skipped[k + 1] ELSE 126)]
<1>1. Len(p.sizes) = 7
  BY TheyHaveOnePlan
<1>2. kept = [k \in 0 .. Len(p.sizes) |-> body(kept, k)]
  <2>1. ASSUME NEW k \in 0 .. 7 PROVE kept[k] = body(kept, k)
    <3>1. k = 0 \/ k = 1 \/ k = 2 \/ k = 3 \/ k = 4 \/ k = 5 \/ k = 6 \/ k = 7
      OBVIOUS
    <3> QED
      BY <3>1, TheyHaveOnePlan DEF Skipped
  <2> QED
    BY <1>1, <2>1
<1>3. sum = [k \in 0 .. Len(p.sizes) |-> body(sum, k)]
  <2> HIDE DEF kept, body
  <2> QED
    BY <1>2
<1> HIDE DEF sum
<1>4. /\ sum[0] = 0 /\ sum[1] = sum[0] + 1024 /\ sum[2] = sum[1] + 2048 /\ sum[3] = sum[2] + 4096
      /\ sum[4] = sum[3] + 8192 /\ sum[5] = sum[4] + 16384 /\ sum[6] = sum[5] + 32768
      /\ sum[7] = sum[6] + 64512
  BY <1>1, <1>3, TheyHaveOnePlan
<1>5. Udp!Total(p) = sum[Len(p.sizes)]
  BY DEF Udp!Total, sum
<1> QED
  BY <1>1, <1>4, <1>5

\* The packet of a turn is inside the buffer, and fits a datagram.
LEMMA ThePacketFits ==
  ASSUME NEW here, AtPlace(here), ~Udp!Done(here)
  PROVE  /\ Udp!Size(Udp!Server, here) \in Nat
         /\ Udp!Size(Udp!Server, here) <= Udp!MaxDatagram
         /\ here.skip + Udp!Size(Udp!Server, here) <= Udp!Room(Udp!Server, here)
<1> DEFINE size == Udp!Size(Udp!Server, here)
           room == Udp!Room(Udp!Server, here)
<1> SUFFICES size \in Nat /\ size <= 65507 /\ here.skip + size <= room
  BY DEF Udp!MaxDatagram
<1>1. here.loop \in 1 .. 3
  BY TheLoopsAre DEF AtPlace
<1>2. CASE here.loop = 1
  <2>1. /\ here.turn \in 1 .. 7 /\ here.skip = 1024 * Skipped[here.turn]
        /\ size = <<1024, 2048, 4096, 8192, 16384, 32768, 64512>>[here.turn] /\ room = 129024
    BY <1>2, TripsAre, TheyHaveOnePlan, TheTotalIs DEF AtPlace, AtTrips
  <2> HIDE DEF size, room
  <2>2. \/ here.turn = 1 \/ here.turn = 2 \/ here.turn = 3 \/ here.turn = 4 \/ here.turn = 5
        \/ here.turn = 6 \/ here.turn = 7
    BY <2>1
  <2> QED
    BY <2>1, <2>2 DEF Skipped
<1>3. CASE here.loop = 2
  BY <1>3, BandwidthIs DEF AtPlace, AtBandwidth
<1>4. CASE here.loop = 3
  <2>1. here.turn \in 1 .. 18 /\ here.skip = 8192 * (here.turn - 1) /\ size = 8192 /\ room = 8192 * Drops
    BY <1>4, DropsAre DEF AtPlace, AtDrops
  <2>2. 18 <= Drops /\ Drops \in Nat
    BY IterationsAre, TheyHaveOnePlan, DropsAssumption
  <2> QED
    BY <2>1, <2>2
<1> QED
  BY <1>1, <1>2, <1>3, <1>4

\* What follows a place is a place.
LEMMA TheNextIsAPlace ==
  ASSUME NEW here, AtPlace(here), ~Udp!Done(here)
  PROVE  AtPlace(Udp!After(Udp!Server, here))
<1> DEFINE size == Udp!Size(Udp!Server, here)
           most == Udp!Iterations(Udp!Server, here)
           turns == Udp!Turns(Udp!Server, here)
           next == Udp!After(Udp!Server, here)
<1> SUFFICES AtPlace(next)
  OBVIOUS
<1>1. here.loop \in 1 .. 3 /\ here \in [loop : 1 .. 4, turn : Nat, i : Nat, skip : Nat]
  BY TheLoopsAre DEF AtPlace
<1>2. size \in Nat
  BY ThePacketFits
<1>3. most \in Nat /\ turns \in Nat /\ here.i < most
  BY <1>1, TripsAre, BandwidthIs, DropsAre, IterationsAre DEF AtPlace, AtTrips, AtBandwidth, AtDrops
<1>4. next = IF here.i + 1 < most THEN [here EXCEPT !.i = @ + 1]
             ELSE IF here.turn < turns THEN [here EXCEPT !.i = 0, !.turn = @ + 1, !.skip = @ + size]
             ELSE [loop |-> here.loop + 1, turn |-> 1, i |-> 0, skip |-> 0]
  BY <1>1, <1>3 DEF Udp!After, Udp!Start
<1>5. CASE here.i + 1 < most
  <2>1. next = [loop |-> here.loop, turn |-> here.turn, i |-> here.i + 1, skip |-> here.skip]
    BY <1>1, <1>4, <1>5
  <2> QED
    BY <1>1, <1>5, <2>1, TripsAre, BandwidthIs, DropsAre, IterationsAre
       DEF AtPlace, AtTrips, AtBandwidth, AtDrops
<1>6. CASE here.i + 1 >= most /\ here.turn < turns
  <2>1. next = [loop |-> here.loop, turn |-> here.turn + 1, i |-> 0, skip |-> here.skip + size]
    <3>1. ~(here.i + 1 < most)
      BY <1>1, <1>3, <1>6
    <3>2. next = [here EXCEPT !.i = 0, !.turn = @ + 1, !.skip = @ + size]
      BY <1>4, <1>6, <3>1, Zenon
    <3> HIDE DEF next, size
    <3> QED
      BY <1>1, <3>2
  <2> HIDE DEF next
  <2>2. next \in [loop : 1 .. 4, turn : Nat, i : Nat, skip : Nat]
    BY <1>1, <1>2, <2>1
  <2>3. CASE here.loop = 1
    <3>1. turns = 7 /\ size = <<1024, 2048, 4096, 8192, 16384, 32768, 64512>>[here.turn]
      BY <2>3, TripsAre, TheyHaveOnePlan
    <3>2. here.turn \in 1 .. 7 /\ here.skip = 1024 * Skipped[here.turn]
      BY <2>3 DEF AtPlace, AtTrips
    <3> HIDE DEF size, turns
    <3>3. here.turn \in 1 .. 6
      BY <1>6, <3>1, <3>2
    <3>4. here.skip + size = 1024 * Skipped[here.turn + 1]
      <4>1. \/ here.turn = 1 \/ here.turn = 2 \/ here.turn = 3 \/ here.turn = 4 \/ here.turn = 5
            \/ here.turn = 6
        BY <3>3
      <4> QED
        BY <3>1, <3>2, <4>1 DEF Skipped
    <3> QED
      BY <2>1, <2>2, <2>3, <3>3, <3>4, IterationsAre DEF AtPlace, AtTrips
  <2>4. CASE here.loop = 2
    BY <1>6, <2>4, BandwidthIs DEF AtPlace, AtBandwidth
  <2>5. CASE here.loop = 3
    <3>1. turns = 18 /\ size = 8192
      BY <2>5, DropsAre
    <3>2. here.turn \in 1 .. 18 /\ here.skip = 8192 * (here.turn - 1)
      BY <2>5 DEF AtPlace, AtDrops
    <3> HIDE DEF size, turns
    <3> QED
      BY <1>6, <2>1, <2>2, <2>5, <3>1, <3>2, IterationsAre DEF AtPlace, AtDrops
  <2> QED
    BY <1>1, <2>3, <2>4, <2>5
<1>7. CASE here.i + 1 >= most /\ here.turn >= turns
  <2>1. next = [loop |-> here.loop + 1, turn |-> 1, i |-> 0, skip |-> 0]
    BY <1>1, <1>3, <1>4, <1>7
  <2> HIDE DEF next
  <2> QED
    BY <1>1, <2>1, IterationsAre DEF AtPlace, AtTrips, AtBandwidth, AtDrops, Skipped
<1> QED
  BY <1>1, <1>3, <1>5, <1>6, <1>7

LEMMA UdpInitInv == Udp!Init => UdpInv
<1> SUFFICES ASSUME Udp!Init PROVE UdpInv
  OBVIOUS
<1>1. /\ sAt = Udp!Start /\ cAt = Udp!Start /\ sent = 0 /\ got = <<>> /\ confirmed = 0
      /\ sizeSent = 0
  BY DEF Udp!Init, Udp!Channel!Init
<1>2. AtPlace(Udp!Start)
  BY IterationsAre DEF Udp!Start, AtPlace, AtTrips, Skipped
<1> QED
  BY <1>1, <1>2 DEF UdpInv, Udp!MaxDatagram

LEMMA ServerWritesPlans ==
  ASSUME UdpInv, Udp!ServerWrites
  PROVE  UdpInv'
<1>1. /\ confirmed = sent /\ sent' = sent + 1 /\ ~Udp!Done(sAt)
      /\ sizeSent' = Udp!Size(Udp!Server, sAt)
      /\ UNCHANGED <<sAt, cAt, got, confirmed>>
  BY DEF Udp!ServerWrites, Udp!Channel!Begin
<1>2. sizeSent' <= Udp!MaxDatagram
  BY <1>1, ThePacketFits DEF UdpInv
<1> QED
  BY <1>1, <1>2 DEF UdpInv

LEMMA ServerReturnsPlans ==
  ASSUME UdpInv, Udp!ServerReturns
  PROVE  UdpInv'
<1>1. /\ confirmed < Len(got) /\ confirmed' = confirmed + 1
      /\ sAt' = Udp!After(Udp!Server, sAt)
      /\ UNCHANGED <<cAt, sizeSent, sent, got>>
  BY DEF Udp!ServerReturns, Udp!Channel!Confirm
<1>2. Len(got) \in Nat /\ Len(got) = confirmed + 1 /\ sent = confirmed + 1
  BY <1>1 DEF UdpInv
<1>3. AtPlace(sAt') /\ cAt = sAt'
  BY <1>1, <1>2, TheNextIsAPlace DEF UdpInv
<1> QED
  BY <1>1, <1>2, <1>3 DEF UdpInv

LEMMA ClientReadsPlans ==
  ASSUME UdpInv, Udp!ClientReads
  PROVE  UdpInv'
<1>1. /\ Len(got) < sent /\ got' = Append(got, sent)
      /\ cAt' = Udp!After(Udp!Client, cAt)
      /\ UNCHANGED <<sAt, sizeSent, sent, confirmed>>
  BY DEF Udp!ClientReads, Udp!Channel!Deliver
<1>2. Len(got) = confirmed /\ sent = confirmed + 1 /\ got \in Seq(Int) /\ sent \in Int
  BY <1>1 DEF UdpInv
<1>3. got' \in Seq(Int) /\ Len(got') = Len(got) + 1
  BY <1>1, <1>2
<1>4. cAt' = Udp!After(Udp!Server, sAt)
  BY <1>1, <1>2, TheyHaveOnePlan DEF UdpInv
<1> QED
  BY <1>1, <1>2, <1>3, <1>4 DEF UdpInv

LEMMA UdpNextInv == UdpInv /\ [Udp!Next]_udpVars => UdpInv'
<1> SUFFICES ASSUME UdpInv, [Udp!Next]_udpVars PROVE UdpInv'
  OBVIOUS
<1>1. CASE UNCHANGED udpVars
  BY <1>1 DEF udpVars, UdpInv
<1>2. CASE Udp!ServerResends \/ Udp!Exited
  BY <1>2 DEF Udp!ServerResends, Udp!Exited, Udp!vars, UdpInv
<1> QED
  BY <1>1, <1>2, ServerWritesPlans, ServerReturnsPlans, ClientReadsPlans DEF Udp!Next

\* The two programs keep to one plan, whatever their numbers of iterations, as long
\* as the third loop has one for each percentage.
THEOREM TheProgramsAgree == AnySpec => []PlansAgree
<1>1. UdpInv => PlansAgree
  <2> SUFFICES ASSUME UdpInv PROVE PlansAgree
    OBVIOUS
  <2>1. Udp!ReadsWhatIsWritten
    BY TheyHaveOnePlan DEF UdpInv, Udp!ReadsWhatIsWritten
  <2>2. AtPlace(cAt)
    BY TheNextIsAPlace DEF UdpInv
  <2>3. Udp!InsideBuffers
    BY <2>2, ThePacketFits, TheyHaveOnePlan, SMTT(30) DEF UdpInv, Udp!InsideBuffers
  <2> QED
    BY <2>1, <2>3 DEF UdpInv, PlansAgree, Udp!PacketsFit
<1> QED
  BY <1>1, UdpInitInv, UdpNextInv, PartsOfInit, PartsOfNext, PTL DEF AnySpec

-----------------------------------------------------------------------------
(* The types *)

\* What Record keeps: numbers of 64 bits, but for the greatest of the numbers of
\* turns, which are not limited.
Stats(top) == [min : 0 .. W - 1, max : top, sum : 0 .. W - 1]

LEMMA FreshIsTyped == Fresh \in Stats(0 .. W - 1) /\ Fresh \in Stats(Nat)
BY WAssumption DEF Fresh, Stats

LEMMA RecordIsTyped ==
  ASSUME NEW top \in SUBSET Nat, NEW old \in Stats(top), NEW d \in top
  PROVE  Record(old, d) \in Stats(top)
<1>1. /\ old.min \in 0 .. W - 1 /\ old.max \in top /\ old.sum \in 0 .. W - 1 /\ d \in Nat
      /\ W \in Nat /\ W >= 1
  BY WAssumption DEF Stats
<1>2. (old.sum + d) % W \in 0 .. W - 1
  BY <1>1
<1>3. (IF d < old.min THEN d ELSE old.min) \in 0 .. W - 1
  BY <1>1
<1>4. (IF d > old.max THEN d ELSE old.max) \in top
  BY <1>1
<1> QED
  BY <1>2, <1>3, <1>4 DEF Record, Stats

LEMMA Remainder == ASSUME NEW d \in Int PROVE d % W \in 0 .. W - 1
BY WAssumption

LEMMA PlansCount == ASSUME NEW c PROVE Counted(c) \in Nat
<1>1. /\ L1 \in Nat /\ L2 \in Nat /\ Skip2 \in Nat /\ Skip2 >= 1 /\ Skip3 \in Nat /\ Skip3 >= 1
      /\ L3 \in Nat /\ Spare \in Nat
  BY SizesAssumption
<1>2. L2 \div Skip2 \in Nat /\ L2 \div Skip3 \in Nat
  BY <1>1
<1> QED
  BY <1>1, <1>2 DEF Counted, Caches, Plan, L1Plan, L2Plan, L3Plan

LEMMA PlansFill == ASSUME NEW c \in Caches PROVE Plan(c).filled \in Nat
<1>1. /\ L1 \in Nat /\ L2 \in Nat /\ L3 \in Nat /\ Spare \in Nat /\ L1 + L2 <= L3 - Spare
  BY SizesAssumption, CachesAssumption
<1> QED
  BY <1>1 DEF Caches, Plan, L1Plan, L2Plan, L3Plan, TotalSize

\* Only the benchmarks of a cache fill a buffer.
Filling == pc \in {"calibrate", "warm"} => name \in Caches

LEMMA MeasureInitTypes == Init => TypeOK /\ Filling
<1> SUFFICES ASSUME Init PROVE TypeOK /\ Filling
  OBVIOUS
<1>1. Len(program) \in 1 .. 10 /\ program \in {Part1, EchoServer}
  BY DEF Init, Part1, EchoServer
<1>2. stats \in Stats(0 .. W - 1) /\ 0 \in 0 .. W - 1
  BY FreshIsTyped, WAssumption DEF Init
<1>3. FirstAction(program[1]) \in {"calibrate", "before"}
  BY DEF FirstAction
<1>4. stage = 1 /\ pc = FirstAction(program[1])
  BY DEF Init
<1> QED
  BY <1>1, <1>2, <1>3, <1>4 DEF Init, TypeOK, Stats, Filling, FirstAction, name

LEMMA MeasureNextTypes == TypeOK /\ Filling /\ MeasureInv /\ [Next]_vars => (TypeOK /\ Filling)'
<1> SUFFICES ASSUME TypeOK, Filling, MeasureInv, [Next]_vars PROVE (TypeOK /\ Filling)'
  OBVIOUS
<1>0. /\ W \in Nat /\ W >= 1 /\ Kilo \in Nat /\ Kilo >= 1
      /\ \A d \in Moves : d \in Int
  BY MeasureConstants, SizesAssumption
<1>1. CASE Calibrate
  <2>1. PICK d \in Moves : LET sum == (loopTime + d) % W
                           IN  IF round + 1 = Kilo
                               THEN loopTime' = sum \div Kilo /\ round' = 0 /\ pc' = "warm"
                               ELSE loopTime' = sum /\ round' = round + 1 /\ UNCHANGED pc
    BY <1>1 DEF Calibrate
  <2>2. loopTime + d \in Int
    BY <1>0, <2>1, SMTT(30) DEF TypeOK
  <2>3. (loopTime + d) % W \in 0 .. W - 1
    BY <2>2, Remainder
  <2> DEFINE sum == (loopTime + d) % W
  <2>4. sum \div Kilo \in 0 .. W - 1
    <3>1. sum \in Nat /\ sum <= W - 1
      BY <1>0, <2>3
    <3> HIDE DEF sum
    <3> DEFINE q == sum \div Kilo
    <3>2. q \in Int /\ sum = Kilo * q + (sum % Kilo) /\ sum % Kilo \in 0 .. Kilo - 1
      BY <1>0, <3>1
    <3> HIDE DEF q
    <3>3. q >= 0
      <4>1. SUFFICES ASSUME q <= -1 PROVE FALSE
        BY <3>2
      <4>2. Kilo * q <= -Kilo
        BY <1>0, <3>2, <4>1
      <4> QED
        BY <1>0, <3>1, <3>2, <4>2
    <3>4. q <= Kilo * q
      BY <1>0, <3>2, <3>3
    <3>5. q \in 0 .. W - 1
      BY <1>0, <3>1, <3>2, <3>3, <3>4
    <3> QED
      BY <3>5 DEF q
  <2>5. /\ loopTime' \in 0 .. W - 1 /\ round' \in Nat /\ pc' \in {"calibrate", "warm"}
    BY <1>1, <2>1, <2>3, <2>4, SMTT(30) DEF Calibrate, TypeOK
  <2>6. UNCHANGED <<program, stage, moved, mutex, warm, good, stats, iterations, history>>
    BY <1>1 DEF Calibrate
  <2> QED
    BY <1>1, <2>5, <2>6 DEF TypeOK, Filling, history, name, Calibrate
<1>2. CASE Warm
  BY <1>2, PlansFill DEF Warm, TypeOK, Filling, history, name
<1>3. CASE ReadStart
  BY <1>3 DEF ReadStart, TypeOK, Filling, history, name
<1>4. CASE \/ TimeAccesses \/ TimeLock \/ TimeUnlock \/ TimeMemory \/ TimeCompress
           \/ TimeUncompress \/ TimeCopy \/ TimeDisk \/ TimeWrite
  <2>1. Timed /\ mutex' \in {"free", "held"} /\ good' \in BOOLEAN
    BY <1>4 DEF TypeOK, TimeAccesses, TimeLock, TimeUnlock, TimeMemory, TimeCompress, TimeUncompress,
                TimeCopy, TimeDisk, TimeWrite
  <2>2. moved = 0
    BY <2>1 DEF Timed, MeasureInv, Started
  <2>3. moved' \in Moves
    BY <1>0, <2>1, <2>2 DEF Timed
  <2> QED
    BY <2>1, <2>3 DEF Timed, TypeOK, Filling, history, name
<1>5. CASE TakeTime
  <2>1. moved \in Int /\ elapsed \in Int /\ low \in Int /\ high \in Int /\ recorded \in Nat
        /\ failures \in Nat /\ iterations \in Nat /\ round \in Nat
    BY <1>0 DEF TypeOK, MeasureInv, MeasureNumbers
  <2>2. Record(stats, moved % W) \in Stats(0 .. W - 1)
    <3>1. moved % W \in 0 .. W - 1 /\ stats \in Stats(0 .. W - 1)
      BY <2>1, Remainder DEF TypeOK, Stats
    <3>2. 0 .. W - 1 \in SUBSET Nat
      BY <1>0
    <3> QED
      BY <3>1, <3>2, RecordIsTyped
  <2>3. /\ stats' \in Stats(0 .. W - 1) /\ iterations' \in Nat /\ recorded' \in Nat /\ failures' \in Nat
        /\ elapsed' \in Int /\ low' \in Int /\ high' \in Int
    <3>1. CASE UNCHANGED <<stats, iterations, history>>
      BY <2>1, <3>1 DEF TypeOK, Stats, history
    <3>2. CASE /\ stats' = Record(stats, moved % W)
               /\ iterations' = iterations + Counted(name)
               /\ recorded' = recorded + 1
               /\ failures' = IF good THEN failures ELSE failures + 1
               /\ elapsed' = elapsed + moved
               /\ low' = IF recorded = 0 \/ moved < low THEN moved ELSE low
               /\ high' = IF recorded = 0 \/ moved > high THEN moved ELSE high
      <4>1. Counted(name) \in Nat
        BY PlansCount
      <4> QED
        BY <2>1, <2>2, <3>2, <4>1
    <3> QED
      BY <1>5, <3>1, <3>2 DEF TakeTime
  <2>4. /\ round' \in Nat /\ pc' \in {"before", "print"} /\ mutex' = "free"
        /\ UNCHANGED <<program, stage, moved, warm, good, loopTime>>
    BY <1>5, <2>1 DEF TakeTime
  <2> QED
    BY <2>3, <2>4 DEF TypeOK, Stats, Filling
<1>6. CASE PrintFigures
  BY <1>6 DEF PrintFigures, TypeOK, Filling, history, name
<1>7. CASE NextStage
  <2>1. stage' \in 1 .. Len(program) /\ program' = program
    <3>1. Len(program) \in Nat
      BY DEF TypeOK, Part1, EchoServer
    <3> QED
      BY <1>7, <3>1, SMTT(30) DEF NextStage, TypeOK
  <2>2. pc' = FirstAction(program[stage']) /\ pc' \in {"calibrate", "before"}
    BY <1>7 DEF NextStage, FirstAction
  <2>3. stats' \in Stats(0 .. W - 1) /\ 0 \in 0 .. W - 1
    BY <1>0, <1>7, FreshIsTyped DEF NextStage
  <2>4. Filling'
    BY <2>1, <2>2 DEF Filling, FirstAction, name
  <2>5. /\ moved' = 0 /\ mutex' = mutex /\ good' = TRUE /\ warm' = 0 /\ round' = 0 /\ iterations' = 0
        /\ recorded' = 0 /\ failures' = 0 /\ loopTime' = 0 /\ elapsed' = 0 /\ low' = 0 /\ high' = 0
    BY <1>7 DEF NextStage
  <2> QED
    BY <2>1, <2>2, <2>3, <2>4, <2>5 DEF TypeOK, Stats
<1>8. CASE UNCHANGED vars
  BY <1>8 DEF vars, history, TypeOK, Filling, name
<1> QED
  BY <1>1, <1>2, <1>3, <1>4, <1>5, <1>6, <1>7, <1>8 DEF Next, Exited

LEMMA LaterIsTyped ==
  ASSUME TimerTypeOK, NEW reading \in Int, NEW time \in Nat, NEW later, Later(reading, time, later)
  PROVE  phase' \in 0 .. Resolution - 1 /\ setBacks' \in 0 .. SetBacks /\ later \in Int
<1>1. Resolution \in Nat /\ Resolution >= 1 /\ phase \in Nat /\ SetBacks \in Nat
      /\ setBacks \in 0 .. SetBacks /\ SetBack \subseteq Nat
  BY ClockAssumption, SetBackAssumption DEF TimerTypeOK
<1> DEFINE shown == reading + ((phase + time) \div Resolution) * Resolution
<1>2. shown \in Int /\ (phase + time) % Resolution \in 0 .. Resolution - 1
  BY <1>1
<1>3. /\ phase' = (phase + time) % Resolution
      /\ \/ later = shown /\ UNCHANGED setBacks
         \/ /\ setBacks < SetBacks /\ setBacks' = setBacks + 1
            /\ \E b \in SetBack : later = shown - b
  BY DEF Later
<1> HIDE DEF shown
<1> QED
  BY <1>1, <1>2, <1>3

LEMMA TimerInitTypes == TimerInit => TimerTypeOK
<1> SUFFICES ASSUME TimerInit PROVE TimerTypeOK
  OBVIOUS
<1>1. Fresh \in Stats(0 .. W - 1) /\ Fresh \in Stats(Nat)
  BY FreshIsTyped
<1>2. times = Fresh /\ iters = Fresh
  BY DEF TimerInit
<1>3. /\ clock \in Clocks /\ phase \in 0 .. Resolution - 1 /\ end = 0 /\ temp = 0
      /\ again = FALSE /\ n = 0 /\ repeat = 0 /\ setBacks = 0
  BY DEF TimerInit
<1>4. 0 \in 0 .. Repeats - 1 /\ 0 \in 0 .. SetBacks
  BY RepeatsAssumption, SetBackAssumption
<1>5. /\ times \in [min : 0 .. W - 1, max : 0 .. W - 1, sum : 0 .. W - 1]
      /\ iters \in [min : 0 .. W - 1, max : Nat, sum : 0 .. W - 1]
  BY <1>1, <1>2 DEF Stats
<1>6. again \in BOOLEAN
  BY <1>3
<1>7. {end, temp} \subseteq Int /\ n \in Nat /\ repeat \in 0 .. Repeats - 1 /\ setBacks \in 0 .. SetBacks
  BY <1>3, <1>4
<1> QED
  BY <1>3, <1>5, <1>6, <1>7 DEF TimerTypeOK

LEMMA TimerNextTypes == TimerTypeOK /\ [TimerNext]_timerVars => TimerTypeOK'
<1> SUFFICES ASSUME TimerTypeOK, [TimerNext]_timerVars PROVE TimerTypeOK'
  OBVIOUS
<1>0. /\ Resolution \in Nat /\ Resolution >= 1 /\ ReadCosts \subseteq Nat /\ TurnCost \in Nat
      /\ Repeats \in Nat /\ Repeats >= 1 /\ phase \in Nat /\ n \in Nat /\ end \in Int /\ temp \in Int
      /\ again \in BOOLEAN /\ repeat \in 0 .. Repeats - 1
  BY ClockAssumption, TurnAssumption, RepeatsAssumption DEF TimerTypeOK
<1>1. CASE ReadFirst
  <2>1. phase' \in 0 .. Resolution - 1
    BY <1>0, <1>1 DEF ReadFirst
  <2> QED
    BY <1>1, <2>1 DEF ReadFirst, TimerTypeOK
<1>2. CASE ReadEnd
  <2>1. PICK c \in ReadCosts : Later(0, c + (IF again THEN n * TurnCost ELSE 0), end')
    BY <1>2 DEF ReadEnd
  <2>2. c + (IF again THEN n * TurnCost ELSE 0) \in Nat
    BY <1>0, <2>1
  <2>3. phase' \in 0 .. Resolution - 1 /\ setBacks' \in 0 .. SetBacks /\ end' \in Int
    BY <2>1, <2>2, LaterIsTyped
  <2>4. n' \in Nat /\ UNCHANGED <<clock, temp, again, repeat, times, iters>>
    BY <1>0, <1>2 DEF ReadEnd
  <2> QED
    BY <2>3, <2>4 DEF TimerTypeOK
<1>3. CASE Wait
  BY <1>3 DEF Wait, TimerTypeOK
<1>4. CASE TakeDiff
  <2>1. times' \in Stats(0 .. W - 1)
    <3>1. times \in Stats(0 .. W - 1) /\ 0 .. W - 1 \in SUBSET Nat /\ end % W \in 0 .. W - 1
      BY <1>0, Remainder, WAssumption DEF TimerTypeOK, Stats
    <3> QED
      BY <1>4, <3>1, RecordIsTyped DEF TakeDiff
  <2>2. iters' \in Stats(Nat)
    <3>1. iters \in Stats(Nat)
      BY DEF TimerTypeOK, Stats
    <3> QED
      BY <1>0, <1>4, <3>1, RecordIsTyped DEF TakeDiff
  <2>3. /\ n' = 0 /\ again' = FALSE /\ repeat' \in 0 .. Repeats - 1
        /\ UNCHANGED <<clock, phase, end, temp, setBacks>>
    BY <1>0, <1>4 DEF TakeDiff
  <2> QED
    BY <2>1, <2>2, <2>3 DEF TimerTypeOK, Stats
<1>5. CASE PrintResolution
  <2>1. times' \in Stats(0 .. W - 1) /\ iters' \in Stats(Nat)
    BY <1>5, FreshIsTyped DEF PrintResolution
  <2> QED
    BY <1>5, <2>1 DEF PrintResolution, TimerTypeOK, Stats
<1>6. CASE ReadTemp
  <2>1. PICK c \in ReadCosts : Later(0, c, temp')
    BY <1>6 DEF ReadTemp
  <2>2. phase' \in 0 .. Resolution - 1 /\ setBacks' \in 0 .. SetBacks /\ temp' \in Int
    BY <1>0, <2>1, LaterIsTyped
  <2> QED
    BY <1>6, <2>2 DEF ReadTemp, TimerTypeOK
<1>7. CASE ReadLast
  <2>1. PICK c \in ReadCosts : Later(temp, c, end')
    BY <1>7 DEF ReadLast
  <2>2. phase' \in 0 .. Resolution - 1 /\ setBacks' \in 0 .. SetBacks /\ end' \in Int
    BY <1>0, <2>1, LaterIsTyped
  <2> QED
    BY <1>7, <2>2 DEF ReadLast, TimerTypeOK
<1>8. CASE TakeCost
  <2>1. times' \in Stats(0 .. W - 1)
    <3>1. times \in Stats(0 .. W - 1) /\ 0 .. W - 1 \in SUBSET Nat
      BY WAssumption DEF TimerTypeOK, Stats
    <3>2. (end % W) - (temp % W) \in Int
      BY <1>0, WAssumption
    <3>3. ((end % W) - (temp % W)) % W \in 0 .. W - 1
      BY <3>2, Remainder
    <3> QED
      BY <1>8, <3>1, <3>3, RecordIsTyped DEF TakeCost
  <2>2. repeat' \in 0 .. Repeats - 1 /\ UNCHANGED <<clock, phase, end, temp, again, n, iters, setBacks>>
    BY <1>0, <1>8 DEF TakeCost
  <2> QED
    BY <2>1, <2>2 DEF TimerTypeOK, Stats
<1>9. CASE UNCHANGED timerVars
  BY <1>9 DEF timerVars, TimerTypeOK
<1> QED
  BY <1>1, <1>2, <1>3, <1>4, <1>5, <1>6, <1>7, <1>8, <1>9 DEF TimerNext, Finished

\* The percentages the UDP programs set.
DropsSet == {sDrop, cDrop} \subseteq {0} \cup {5 * k : k \in 1 .. 18}

LEMMA PercentIsSet ==
  ASSUME NEW here, AtPlace(here), NEW old \in {0} \cup {5 * k : k \in 1 .. 18}
  PROVE  Udp!SetDrop(Udp!Server, here, old) \in {0} \cup {5 * k : k \in 1 .. 18}
<1>1. CASE Udp!In(here, "drops")
  <2>1. here.loop = 3 /\ here.turn \in 1 .. 18
    BY <1>1, TheLoopsAre DEF AtPlace, AtDrops
  <2>2. (95 - 5 + 5 - 1) \div 5 = 18
    OBVIOUS
  <2>3. Udp!Percents(5, 95, 5) = [k \in 1 .. 18 |-> 5 + 5 * (k - 1)]
    BY <2>2 DEF Udp!Percents
  <2>4. Udp!Server.percents[here.turn] = 5 * here.turn
    BY <2>1, <2>3 DEF Udp!Server
  <2> QED
    BY <2>1, <2>4 DEF Udp!SetDrop
<1>2. CASE ~Udp!In(here, "drops")
  BY <1>2 DEF Udp!SetDrop
<1> QED
  BY <1>1, <1>2

LEMMA UdpNextTypes == UdpInv /\ DropsSet /\ sizeSent \in Nat /\ [Udp!Next]_udpVars
                        => (DropsSet /\ sizeSent \in Nat)'
<1> SUFFICES ASSUME UdpInv, DropsSet, sizeSent \in Nat, [Udp!Next]_udpVars
             PROVE  (DropsSet /\ sizeSent \in Nat)'
  OBVIOUS
<1>1. CASE Udp!ServerWrites
  <2>1. sizeSent' \in Nat
    BY <1>1, ThePacketFits DEF UdpInv, Udp!ServerWrites
  <2>2. sDrop' \in {0} \cup {5 * k : k \in 1 .. 18} /\ cDrop' = cDrop
    BY <1>1, PercentIsSet DEF UdpInv, Udp!ServerWrites, DropsSet
  <2> QED
    BY <2>1, <2>2 DEF DropsSet
<1>2. CASE Udp!ServerReturns
  BY <1>2 DEF Udp!ServerReturns, DropsSet
<1>3. CASE Udp!ClientReads
  <2>1. AtPlace(cAt)
    BY TheNextIsAPlace DEF UdpInv
  <2>2. cDrop' \in {0} \cup {5 * k : k \in 1 .. 18} /\ sDrop' = sDrop /\ sizeSent' = sizeSent
    BY <1>3, <2>1, PercentIsSet, TheyHaveOnePlan DEF Udp!ClientReads, DropsSet
  <2> QED
    BY <2>2 DEF DropsSet
<1>4. CASE UNCHANGED udpVars
  BY <1>4 DEF udpVars, DropsSet
<1> QED
  BY <1>1, <1>2, <1>3, <1>4 DEF Udp!Next, Udp!ServerResends, Udp!Exited, Udp!vars, udpVars

ArgumentTypes == /\ asked \in [number : -Half .. Half - 1, suffix : Argument!Suffixes]
                 /\ packet_size \in 0 .. 2 * Half - 1 /\ calls \in 0 .. 2

LEMMA ArgumentNextTypes ==
  ArgumentInv /\ ArgumentTypes /\ [Argument!Next]_argumentVars => ArgumentTypes'
<1> SUFFICES ASSUME ArgumentInv, ArgumentTypes, [Argument!Next]_argumentVars PROVE ArgumentTypes'
  OBVIOUS
<1>1. CASE Argument!get_packet_size
  <2>1. Argument!Size(s) \in 0 .. 2 * Half - 1
    <3>1. Half \in Nat /\ Half >= 1 /\ Kibi \in Nat /\ s.number \in Int /\ s.suffix \in Argument!Suffixes
      BY HalfAssumption DEF ArgumentInv
    <3>2. Argument!Unit(s.suffix) \in Int
      BY <3>1 DEF Argument!Unit, Argument!Suffixes
    <3>3. s.number * Argument!Unit(s.suffix) \in Int
      BY <3>1, <3>2
    <3> QED
      BY <3>1, <3>3 DEF Argument!Size
  <2> QED
    BY <1>1, <2>1 DEF Argument!get_packet_size, ArgumentTypes
<1>2. CASE UNCHANGED argumentVars
  BY <1>2 DEF argumentVars, ArgumentTypes
<1> QED
  BY <1>1, <1>2 DEF Argument!Next, Argument!Returned, Argument!vars, argumentVars

\* Every variable of the programs keeps its type, for every clock, cache and plan: no
\* statistic leaves its 64 bits, and no size its int.
THEOREM TypesAreKept == AnySpec => []TypesOK
<1> DEFINE Inv == /\ TypeOK /\ Filling /\ MeasureInv /\ TimerTypeOK
                  /\ UdpInv /\ DropsSet /\ sizeSent \in Nat /\ ArgumentInv /\ ArgumentTypes
<1>1. AnyInit => Inv
  <2> SUFFICES ASSUME AnyInit PROVE Inv
    OBVIOUS
  <2>1. Init /\ TimerInit /\ Udp!Init /\ Argument!Init
    BY PartsOfInit
  <2>2. DropsSet /\ sizeSent \in Nat
    BY <2>1 DEF Udp!Init, DropsSet
  <2>3. ArgumentTypes
    BY <2>1, HalfAssumption DEF Argument!Init, ArgumentTypes
  <2> QED
    BY <2>1, <2>2, <2>3, MeasureInitTypes, MeasureInitInv, TimerInitTypes, UdpInitInv, ArgumentInit
<1>2. Inv /\ [AnyNext]_allVars => Inv'
  BY PartsOfNext, MeasureNextTypes, MeasureNextInv, TimerNextTypes, UdpNextInv, UdpNextTypes,
     ArgumentNext, ArgumentNextTypes
<1>3. Inv => TypesOK
  <2> SUFFICES ASSUME Inv PROVE TypesOK
    OBVIOUS
  <2>1. AtPlace(sAt) /\ AtPlace(cAt)
    BY TheNextIsAPlace DEF UdpInv
  <2>2. Len(Udp!Loops) = 3
    BY DEF Udp!Loops
  <2>3. Udp!TypeOK
    BY <2>1, <2>2 DEF AtPlace, Udp!TypeOK, DropsSet
  <2>4. Argument!TypeOK
    BY DEF ArgumentInv, ArgumentTypes, Argument!TypeOK
  <2> QED
    BY <2>3, <2>4 DEF TypesOK
<1> QED
  BY <1>1, <1>2, <1>3, PTL DEF AnySpec
=============================================================================
