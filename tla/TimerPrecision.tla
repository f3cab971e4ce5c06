--------------------------- MODULE TimerPrecision ---------------------------
(***************************************************************************)
(* timer_precision.cpp: how fine is a clock, and what does reading it      *)
(* cost.  A clock shows the time rounded down to its resolution; what      *)
(* matters of the true time is how long the present tick has lasted.  The  *)
(* first loop reads the clock twice with more and more turns of an empty   *)
(* loop between, until the readings differ.  CLOCK_REALTIME, which         *)
(* gettimeofday reads too, may be set back by anybody.                     *)
(***************************************************************************)
EXTENDS Statistics

CONSTANTS Resolution, \* time between two ticks
          ReadCosts,  \* time that reading a clock may take
          TurnCost,   \* time of a turn of the empty loop, which -O0 keeps
          SetBack,    \* how far a clock may be set back,
          SetBacks,   \* and how often
          Repeats     \* MILLION

ASSUME ClockAssumption == Resolution \in Nat \ {0} /\ ReadCosts \subseteq Nat
ASSUME LongestAssumption == \E c \in ReadCosts : \A d \in ReadCosts : d <= c
ASSUME TurnAssumption == TurnCost \in Nat \ {0}
ASSUME SetBackAssumption == SetBack \subseteq Nat /\ SetBacks \in Nat
\* The time of a round is short of the 584 years that 64 bits of ns can count.
ASSUME DifferencesAssumption ==
  \A c \in ReadCosts : c + 2 * Resolution + (SetBacks + 1) * TurnCost < W
ASSUME RepeatsAssumption == Repeats \in Nat \ {0}

Clocks == {"MONOTONIC", "REALTIME", "MONOTONIC_RAW", "gettimeofday"}
CanBeSet == {"REALTIME", "gettimeofday"}

VARIABLES clock,
          phase,        \* how long the clock has shown what it shows
          end, temp,    \* readings, relative to that in "start"
          again,        \* inside the while loop
          n, repeat, times, iters, at,
          setBacks      \* history: how often the clock was set back

timerVars == <<clock, phase, end, temp, again, n, repeat, times, iters, at, setBacks>>

\* A reading of the clock a time after another one: that one plus the ticks in
\* between, less what it was set back by.
Later(reading, time, later) ==
  LET shown == reading + ((phase + time) \div Resolution) * Resolution
  IN  /\ phase' = (phase + time) % Resolution
      /\ \/ later = shown /\ UNCHANGED setBacks
         \/ /\ clock \in CanBeSet /\ setBacks < SetBacks
            /\ setBacks' = setBacks + 1
            /\ \E b \in SetBack : later = shown - b

TimerInit == /\ clock \in Clocks
        /\ phase \in 0 .. Resolution - 1
        /\ end = 0 /\ temp = 0 /\ again = FALSE /\ n = 0 /\ repeat = 0
        /\ times = Fresh /\ iters = Fresh
        /\ at = "start" /\ setBacks = 0

\* The reading into "start", from which the others are counted.
ReadFirst == /\ at = "start" /\ at' = "end"
             /\ \E c \in ReadCosts : phase' = (phase + c) % Resolution
             /\ end' = 0
             /\ UNCHANGED <<clock, temp, again, n, repeat, times, iters, setBacks>>

\* The reading into "end"; in the while loop, after n turns and before n++.
\* (without n++)
ReadEndNotLonger ==
  /\ at = "end" /\ at' = "compare"
  /\ \E c \in ReadCosts : Later(0, c + (IF again THEN n * TurnCost ELSE 0), end')
  /\ UNCHANGED <<clock, temp, again, n, repeat, times, iters>>
ReadEnd ==
  /\ at = "end" /\ at' = "compare"
  /\ \E c \in ReadCosts : Later(0, c + (IF again THEN n * TurnCost ELSE 0), end')
  /\ n' = IF again THEN n + 1 ELSE n
  /\ UNCHANGED <<clock, temp, again, repeat, times, iters>>

\* while (diff <= 0): an unsigned number is never negative.
Wait == /\ at = "compare" /\ end % W = 0
        /\ again' = TRUE /\ at' = "start"
        /\ UNCHANGED <<clock, phase, end, temp, n, repeat, times, iters, setBacks>>

\* The end of a round; after the last one come those that measure the cost, which
\* gettimeofday_resolution does not have.
\* (with "int n = 0" in front of the for loop, or no while loop at all)
TakeDiffKeepN ==
  /\ at = "compare" /\ end % W # 0
  /\ times' = Record(times, end % W) /\ iters' = Record(iters, n)
  /\ again' = FALSE /\ UNCHANGED n
  /\ IF repeat + 1 < Repeats THEN repeat' = repeat + 1 /\ at' = "start"
     ELSE repeat' = 0 /\ at' = "printed"
  /\ UNCHANGED <<clock, phase, end, temp, setBacks>>
TakeDiffAtOnce ==
  /\ at = "compare"
  /\ times' = Record(times, end % W) /\ iters' = Record(iters, n)
  /\ n' = 0 /\ again' = FALSE
  /\ IF repeat + 1 < Repeats THEN repeat' = repeat + 1 /\ at' = "start"
     ELSE repeat' = 0 /\ at' = "printed"
  /\ UNCHANGED <<clock, phase, end, temp, setBacks>>
TakeDiff ==
  /\ at = "compare" /\ end % W # 0
  /\ times' = Record(times, end % W) /\ iters' = Record(iters, n)
  /\ n' = 0 /\ again' = FALSE
  /\ IF repeat + 1 < Repeats THEN repeat' = repeat + 1 /\ at' = "start"
     ELSE repeat' = 0 /\ at' = "printed"
  /\ UNCHANGED <<clock, phase, end, temp, setBacks>>

\* The results are printed and the variables set again.
PrintResolution ==
  /\ at = "printed" /\ clock # "gettimeofday"
  /\ times' = Fresh /\ iters' = Fresh /\ at' = "cost"
  /\ UNCHANGED <<clock, phase, end, temp, again, n, repeat, setBacks>>

\* The readings into "start" and "temp", and then into "end".
ReadTemp == /\ at = "cost" /\ at' = "temp"
            /\ \E c \in ReadCosts : Later(0, c, temp')
            /\ UNCHANGED <<clock, end, again, n, repeat, times, iters>>
ReadLast == /\ at = "temp" /\ at' = "last"
            /\ \E c \in ReadCosts : Later(temp, c, end')
            /\ UNCHANGED <<clock, temp, again, n, repeat, times, iters>>

\* (with the time of two readings)
TakeBothCosts ==
  /\ at = "last"
  /\ times' = Record(times, end % W)
  /\ IF repeat + 1 < Repeats THEN repeat' = repeat + 1 /\ at' = "cost"
     ELSE repeat' = 0 /\ at' = "exit"
  /\ UNCHANGED <<clock, phase, end, temp, again, n, iters, setBacks>>
TakeCost ==
  /\ at = "last"
  /\ times' = Record(times, ((end % W) - (temp % W)) % W)
  /\ IF repeat + 1 < Repeats THEN repeat' = repeat + 1 /\ at' = "cost"
     ELSE repeat' = 0 /\ at' = "exit"
  /\ UNCHANGED <<clock, phase, end, temp, again, n, iters, setBacks>>

Returned == at = "exit" \/ (at = "printed" /\ clock = "gettimeofday")
Finished == Returned /\ UNCHANGED timerVars

TimerNext == \/ ReadFirst \/ ReadEnd \/ Wait \/ TakeDiff \/ PrintResolution
        \/ ReadTemp \/ ReadLast \/ TakeCost \/ Finished

\* One thread, which the system runs again and again.
TimerSpec == TimerInit /\ [][TimerNext]_timerVars /\ WF_timerVars(TimerNext)

(***************************************************************************)
(* Properties                                                              *)
(***************************************************************************)
TimerTypeOK == /\ clock \in Clocks /\ phase \in 0 .. Resolution - 1
          /\ {end, temp} \subseteq Int /\ again \in BOOLEAN
          /\ n \in Nat /\ repeat \in 0 .. Repeats - 1 /\ setBacks \in 0 .. SetBacks
          /\ times \in [min : 0 .. W - 1, max : 0 .. W - 1, sum : 0 .. W - 1]
          /\ iters \in [min : 0 .. W - 1, max : Nat, sum : 0 .. W - 1]

\* What a round reports of a clock that nobody set is what it says, a resolution:
\* the difference of two readings that differ, never 0 and never less than a
\* tick, which the empty loop can overshoot by no more than the loop is long.
Longest == CHOOSE c \in ReadCosts : \A d \in ReadCosts : d <= c
Resolving == at \in {"start", "end", "compare", "printed"}
DiffIsTicks ==
  [][(at = "compare" /\ at' # at /\ ~again' /\ setBacks = 0) =>
       /\ times'.min >= Resolution
       /\ times'.max < 2 * Resolution + TurnCost + Longest]_timerVars

\* The wait is short: the loop grows by one turn each time, so that it is longer
\* than the resolution as soon as it can be, and by one more for each time that
\* somebody sets the clock back, which can show a difference of 0 again.  A round
\* begins with the short loop again.
Enough == (Resolution + TurnCost - 1) \div TurnCost
FewTurns == n <= Enough + 1 + setBacks

\* The cost of a reading is that of one, between "temp" and "end", although it is
\* computed from "start": no more than the longest can show.  The maximum is one
\* such cost if nobody sets the clock, and the minimum is as soon as there are
\* more rounds than times that the clock was set back.
Taken == IF at = "exit" THEN Repeats ELSE repeat
CostOfOneReading ==
  ~Resolving => /\ setBacks = 0 => times.max <= Longest + Resolution - 1
                /\ setBacks < Taken => times.min <= Longest + Resolution - 1

\* The loop that waits for the clock ends, on a clock that is set back now and
\* then too: a time that seems negative is a large one to it.
Terminates == <>Returned
=============================================================================
