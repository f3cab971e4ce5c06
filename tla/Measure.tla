------------------------------ MODULE Measure ------------------------------
(***************************************************************************)
(* The programs that time something again and again and print the average, *)
(* the minimum and the maximum: part1.cpp, whose main runs one benchmark   *)
(* after the other, and the trials of client_server/SocketServer.c.        *)
(*                                                                         *)
(* A clock is given by how far it has moved since it was read into         *)
(* "start", the only thing that the programs look at.  CLOCK_REALTIME may  *)
(* be set back by anybody.  Sizes are in units of which L1, L2, ... give   *)
(* the number; an access of the L1 loop reads one unit.                    *)
(***************************************************************************)
EXTENDS Statistics, Sequences, FiniteSets

CONSTANTS Steps, Back, \* what a clock moves on, or is set back, between two readings
          L1, L2, L3, \* l1_size, l2_size, l3_size
          Spare,      \* what is left of the L3 cache for other things
          Skip2, Skip3, \* skip_size
          Kilo,       \* rounds of the empty loops
          Rounds      \* rounds of every other loop

ASSUME StepsAssumption == Steps \subseteq Nat /\ Back \subseteq Nat
\* No benchmark takes the 584 years that 64 bits of ns can count.
ASSUME WideAssumption == \A s \in Steps : Rounds * s < W
ASSUME SizesAssumption == {L1, L2, L3, Spare, Skip2, Skip3, Kilo, Rounds} \subseteq Nat \ {0}
ASSUME CachesAssumption == L1 + L2 <= L3 - Spare

\* main of part1.cpp, and the server of the TCP benchmark.
Part1 == <<"l1", "l2", "l3", "lock", "unlock", "memory", "compress", "uncompress", "copy", "disk">>
EchoServer == <<"echo">>
Caches == {"l1", "l2", "l3"}

VARIABLES program, stage,   \* the benchmark that runs is program[stage]
          moved,            \* the clock now, less the clock at "start"
          mutex, warm,      \* warm: units of buf that have been written
          good,             \* the last operation did what it is timed for
          stats, round, iterations, loopTime,
          printed, pc,
          elapsed, low, high, recorded, failures   \* history: the times as they were recorded

vars == <<program, stage, moved, mutex, warm, good, stats, round, iterations, loopTime,
          printed, pc, elapsed, low, high, recorded, failures>>
history == <<elapsed, low, high, recorded, failures>>
name == program[stage]

Moves == Steps \cup {-b : b \in Back}

Repeat == 1
TotalSize == L3 - Spare

\* The three cache benchmarks: the units of buf that are filled, the index loop
\* that is timed, and what it adds to "iterations".
L1Plan == [filled |-> L1, from |-> 0, to |-> L1, skip |-> 1, counted |-> L1]
L2Plan == [filled |-> L1 + L2, from |-> L1, to |-> L1 + L2, skip |-> Skip2,
           counted |-> L2 \div Skip2]
\* (with the loop up to the end of the cache)
L3PlanWhole == [filled |-> TotalSize, from |-> L1 + L2, to |-> L3, skip |-> Skip3,
                counted |-> L2 \div Skip3]
L3Plan == [filled |-> TotalSize, from |-> L1 + L2, to |-> TotalSize, skip |-> Skip3,
           counted |-> L2 \div Skip3]
Plan(c) == CASE c = "l1" -> L1Plan [] c = "l2" -> L2Plan [] c = "l3" -> L3Plan

Reads(c) == {i \in Plan(c).from .. Plan(c).to - 1 : (i - Plan(c).from) % Plan(c).skip = 0}
Counted(c) == IF c \in Caches THEN Plan(c).counted ELSE 1
Times(c) == IF c \in Caches THEN Repeat ELSE Rounds

FirstAction(c) == IF c \in Caches THEN "calibrate" ELSE "before"

Init == /\ program \in {Part1, EchoServer} /\ stage = 1
        /\ moved = 0 /\ mutex = "free" /\ warm = 0 /\ good = TRUE
        /\ stats = Fresh /\ round = 0 /\ iterations = 0 /\ loopTime = 0
        /\ printed = {} /\ pc = FirstAction(program[1])
        /\ elapsed = 0 /\ low = 0 /\ high = 0 /\ recorded = 0 /\ failures = 0

\* Once around the loop without accesses; after the last one, the average of it.
Calibrate ==
  /\ pc = "calibrate"
  /\ \E d \in Moves :
       LET sum == (loopTime + d) % W
       IN  IF round + 1 = Kilo
           THEN loopTime' = sum \div Kilo /\ round' = 0 /\ pc' = "warm"
           ELSE loopTime' = sum /\ round' = round + 1 /\ UNCHANGED pc
  /\ UNCHANGED <<program, stage, moved, mutex, warm, good, stats, iterations, printed, history>>

Warm == /\ pc = "warm" /\ pc' = "before"
        /\ warm' = Plan(name).filled
        /\ UNCHANGED <<program, stage, moved, mutex, good, stats, round, iterations, loopTime,
                       printed, history>>

\* What precedes the first reading of the clock, and that reading.
ReadStart ==
  /\ pc = "before" /\ pc' = "timed"
  /\ name = "unlock" => mutex = "free"
  /\ mutex' = IF name = "unlock" THEN "held" ELSE mutex
  /\ moved' = 0
  /\ UNCHANGED <<program, stage, warm, good, stats, round, iterations, loopTime, printed, history>>

\* What is timed, and the second reading.
Timed == /\ pc = "timed" /\ pc' = "after"
         /\ \E d \in Moves : moved' = moved + d
         /\ UNCHANGED <<program, stage, warm, stats, round, iterations, loopTime, printed, history>>

TimeAccesses == name \in Caches /\ Timed /\ good' = TRUE /\ UNCHANGED mutex

TimeLock == /\ name = "lock" /\ mutex = "free"
            /\ mutex' = "held"
            /\ Timed /\ good' = TRUE

TimeUnlock == /\ name = "unlock" /\ mutex = "held"
              /\ mutex' = "free"
              /\ Timed /\ good' = TRUE

\* A read of a word, a compression and a copy do not fail.
TimeMemory == name = "memory" /\ Timed /\ good' = TRUE /\ UNCHANGED mutex
TimeCompress == name = "compress" /\ Timed /\ good' = TRUE /\ UNCHANGED mutex
TimeCopy == name = "copy" /\ Timed /\ good' = TRUE /\ UNCHANGED mutex

\* Uncompress may not restore the input; the file may not be there, or be short;
\* the peer may be gone.
TimeUncompress == name = "uncompress" /\ Timed /\ good' \in BOOLEAN /\ UNCHANGED mutex
TimeDisk == name = "disk" /\ Timed /\ good' \in BOOLEAN /\ UNCHANGED mutex
TimeWrite == name = "echo" /\ Timed /\ good' \in BOOLEAN /\ UNCHANGED mutex

\* The rest of the round.  Uncompress alone takes no time of a failure.
\* (with the time of wrong output taken too)
TakeTimeAlways ==
  /\ pc = "after"
  /\ mutex' = "free"
  /\ stats' = Record(stats, moved % W)
  /\ iterations' = iterations + Counted(name)
  /\ recorded' = recorded + 1
  /\ failures' = IF good THEN failures ELSE failures + 1
  /\ elapsed' = elapsed + moved
  /\ low' = IF recorded = 0 \/ moved < low THEN moved ELSE low
  /\ high' = IF recorded = 0 \/ moved > high THEN moved ELSE high
  /\ round' = round + 1
  /\ pc' = IF round' < Times(name) THEN "before" ELSE "print"
  /\ UNCHANGED <<program, stage, moved, warm, good, loopTime, printed>>
TakeTime ==
  /\ pc = "after"
  /\ mutex' = "free"
  /\ \/ /\ name = "uncompress" => good
        /\ stats' = Record(stats, moved % W)
        /\ iterations' = iterations + Counted(name)
        /\ recorded' = recorded + 1
        /\ failures' = IF good THEN failures ELSE failures + 1
        /\ elapsed' = elapsed + moved
        /\ low' = IF recorded = 0 \/ moved < low THEN moved ELSE low
        /\ high' = IF recorded = 0 \/ moved > high THEN moved ELSE high
     \/ name = "uncompress" /\ ~good /\ UNCHANGED <<stats, iterations, history>>
  /\ round' = round + 1
  /\ pc' = IF round' < Times(name) THEN "before" ELSE "print"
  /\ UNCHANGED <<program, stage, moved, warm, good, loopTime, printed>>

\* The numbers that are printed, as fractions.  Reading from disk and the trials
\* of the server divide integers, and lock, unlock and compress divide by the
\* constant of their loop.
\* (with the time of the empty loop not taken off the minimum)
FiguresUneven ==
  [avg |-> CASE name \in Caches -> <<(stats.sum - loopTime) % W, iterations>>
             [] name \in {"disk", "echo"} -> <<stats.sum \div Rounds, 1>>
             [] name \in {"memory", "uncompress", "copy"} -> <<stats.sum, iterations>>
             [] OTHER -> <<stats.sum, Rounds>>,
   min |-> IF name \in Caches THEN <<stats.min, L1>> ELSE <<stats.min, 1>>,
   max |-> IF name \in Caches THEN <<(stats.max - loopTime \div Repeat) % W, L1>>
           ELSE <<stats.max, 1>>]
Figures ==
  [avg |-> CASE name \in Caches -> <<(stats.sum - loopTime) % W, iterations>>
             [] name \in {"disk", "echo"} -> <<stats.sum \div Rounds, 1>>
             [] name \in {"memory", "uncompress", "copy"} -> <<stats.sum, iterations>>
             [] OTHER -> <<stats.sum, Rounds>>,
   min |-> IF name \in Caches THEN <<(stats.min - loopTime \div Repeat) % W, L1>>
           ELSE <<stats.min, 1>>,
   max |-> IF name \in Caches THEN <<(stats.max - loopTime \div Repeat) % W, L1>>
           ELSE <<stats.max, 1>>]

PrintFigures == /\ pc = "print" /\ pc' = "printed"
         /\ printed' = {Figures}
         /\ UNCHANGED <<program, stage, moved, mutex, warm, good, stats, round, iterations,
                        loopTime, history>>

\* The next benchmark begins with variables of its own, or sets those of the one
\* before it again.
\* (with the sum of the last benchmark kept)
NextStageStale ==
  /\ pc = "printed"
  /\ stage < Len(program)
  /\ stage' = stage + 1
  /\ stats' = [Fresh EXCEPT !.sum = stats.sum]
  /\ round' = 0 /\ iterations' = 0 /\ loopTime' = 0 /\ warm' = 0 /\ moved' = 0
  /\ elapsed' = 0 /\ low' = 0 /\ high' = 0 /\ recorded' = 0 /\ failures' = 0
  /\ printed' = {} /\ good' = TRUE
  /\ pc' = FirstAction(program[stage'])
  /\ UNCHANGED <<program, mutex>>
NextStage ==
  /\ pc = "printed"
  /\ stage < Len(program)
  /\ stage' = stage + 1
  /\ stats' = Fresh
  /\ round' = 0 /\ iterations' = 0 /\ loopTime' = 0 /\ warm' = 0 /\ moved' = 0
  /\ elapsed' = 0 /\ low' = 0 /\ high' = 0 /\ recorded' = 0 /\ failures' = 0
  /\ printed' = {} /\ good' = TRUE
  /\ pc' = FirstAction(program[stage'])
  /\ UNCHANGED <<program, mutex>>

Exited == pc = "printed" /\ stage = Len(program) /\ UNCHANGED vars

Next == \/ Calibrate \/ Warm \/ ReadStart
        \/ TimeAccesses \/ TimeLock \/ TimeUnlock \/ TimeMemory \/ TimeCompress \/ TimeUncompress
        \/ TimeCopy \/ TimeDisk \/ TimeWrite \/ TakeTime \/ PrintFigures \/ NextStage \/ Exited

Spec == Init /\ [][Next]_vars

(***************************************************************************)
(* Properties                                                              *)
(***************************************************************************)
TypeOK == /\ program \in {Part1, EchoServer} /\ stage \in 1 .. Len(program)
          /\ moved \in Moves \cup {0} /\ mutex \in {"free", "held"} /\ good \in BOOLEAN
          /\ stats \in [min : 0 .. W - 1, max : 0 .. W - 1, sum : 0 .. W - 1]
          /\ {warm, round, iterations, recorded, failures} \subseteq Nat /\ loopTime \in 0 .. W - 1
          /\ {elapsed, low, high} \subseteq Int
          /\ pc \in {"calibrate", "warm", "before", "timed", "after", "print", "printed"}

\* Even when the clock was set back in the middle, so that a difference wrapped
\* around to nearly 2^64, the sum is the time that passed by that clock, modulo
\* 2^64: one bad difference does not spoil the average, if the clock has made up
\* for it.
SumIsElapsed == stats.sum = elapsed % W

\* Output that differs from the input is not timed.
OnlyRightOutput == name = "uncompress" => failures = 0

\* While the clock never went back, the extremes are the least and the greatest
\* of the times of this benchmark, of the first one on and of no other benchmark.
ExtremesHold == recorded > 0 /\ low >= 0 => stats.min = low /\ stats.max = high

\* Whatever the clock did, the average that is printed is the time that passed by
\* it, modulo 2^64 and less the average empty loop of a cache, for each of the
\* operations that were timed.  These are all of the benchmark's, a read of the
\* disk or a write that failed among them, but for an Uncompress whose output was
\* wrong.
Passed == (elapsed - loopTime) % W
AverageIsTime ==
  \A f \in printed :
    /\ name # "uncompress" => recorded = Times(name)
    /\ f.avg = IF name \in {"disk", "echo"} THEN <<Passed \div recorded, 1>>
               ELSE <<Passed, recorded * Counted(name)>>

\* The figures are in order, min <= avg <= max, if the clock never went back.  If
\* it did, the minimum is still no more than the maximum, but the average can be
\* anything.  A cache is timed once, so that minimum and maximum are equal for
\* every clock; as both are divided by the L1 cache's size, the average is not
\* between them unless it is divided by the same number, which that of L1 is, or
\* nothing is left of the time.
LessEq(p, q) == p[1] * q[2] <= q[1] * p[2]
InOrder == \A f \in printed : LessEq(f.min, f.avg) /\ LessEq(f.avg, f.max)
PrintedInOrder ==
  /\ recorded > 0 => \A f \in printed : LessEq(f.min, f.max)
  /\ recorded > 0 /\ low >= 0 /\ name \notin Caches => InOrder
  /\ name \in Caches =>
       \A f \in printed : /\ f.min = f.max
                          /\ InOrder <=> Counted(name) = L1 \/ Passed = 0

\* A timed loop reads no byte outside buf and none that was not written before:
\* the fill of malloc'ed memory, the sizes of three caches and what is spared fit.
ReadsAreWarm == name \in Caches /\ pc \in {"before", "timed", "after"} =>
                  \A i \in Reads(name) : 0 <= i /\ i < warm /\ warm <= TotalSize
=============================================================================
