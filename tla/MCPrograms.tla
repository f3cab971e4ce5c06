----------------------------- MODULE MCPrograms -----------------------------
(* The programs that measure something, one of which runs: those of Measure,  *)
(* timer_precision, the pair of UDP programs, and get_packet_size, which any  *)
(* of them may call.                                                          *)
EXTENDS Measure, TimerPrecision

CONSTANTS Trips, Bandwidth, Drops,  \* iterations of the UDP programs
          Half, Kibi                \* INT_MAX + 1 and 1024 of get_packet_size

ASSUME IterationsAssumption == {Trips, Bandwidth, Drops} \subseteq Nat \ {0}
ASSUME HalfAssumption == {Half, Kibi} \subseteq Nat \ {0}

VARIABLES part,
          sAt, cAt, sDrop, cDrop, sizeSent, sent, got, confirmed,
          asked, s, packet_size, calls

Udp == INSTANCE Benchmark
Argument == INSTANCE PacketSize WITH Numbers <- -Half .. Half - 1, Kilo <- Kibi

\* The buffer of the third loop, a packet for each of its 200 iterations, is gone
\* through with one packet for each percentage.
ASSUME DropsAssumption == Len(Udp!Server.percents) <= Drops

udpVars == <<sAt, cAt, sDrop, cDrop, sizeSent, sent, got, confirmed>>
argumentVars == <<asked, s, packet_size, calls>>
allVars == <<part, vars, timerVars, udpVars, argumentVars>>

MeasureWaits == Init /\ program = Part1
TimerWaits == TimerInit /\ clock = "MONOTONIC" /\ phase = 0
ArgumentWaits == Argument!Init /\ asked = [number |-> 0, suffix |-> "none"]

AnyInit == /\ Udp!Init
           /\ \/ part = "measure" /\ Init /\ TimerWaits /\ ArgumentWaits
              \/ part = "timer" /\ MeasureWaits /\ TimerInit /\ ArgumentWaits
              \/ part = "udp" /\ MeasureWaits /\ TimerWaits /\ ArgumentWaits
              \/ part = "argument" /\ MeasureWaits /\ TimerWaits /\ Argument!Init

MeasureRuns == part = "measure" /\ Next /\ UNCHANGED <<part, timerVars, udpVars, argumentVars>>
TimerRuns == part = "timer" /\ TimerNext /\ UNCHANGED <<part, vars, udpVars, argumentVars>>
OnlyUdp == part = "udp" /\ UNCHANGED <<part, vars, timerVars, argumentVars>>
UdpRuns == OnlyUdp /\ Udp!Next
ArgumentRuns == part = "argument" /\ Argument!Next /\ UNCHANGED <<part, vars, timerVars, udpVars>>

AnyNext == MeasureRuns \/ TimerRuns \/ UdpRuns \/ ArgumentRuns

\* The fairness of TimerPrecision and of Benchmark.
AnySpec == /\ AnyInit /\ [][AnyNext]_allVars
           /\ WF_allVars(TimerRuns)
           /\ WF_allVars(OnlyUdp /\ Udp!ServerWrites)
           /\ WF_allVars(OnlyUdp /\ Udp!ServerReturns)
           /\ WF_allVars(OnlyUdp /\ Udp!ClientReads)

(***************************************************************************)
(* Properties, beside SumIsElapsed, ExtremesHold, ReadsAreWarm and         *)
(* DiffIsTicks                                                             *)
(***************************************************************************)
\* The state of every program is of its type.
TypesOK == TypeOK /\ TimerTypeOK /\ Udp!TypeOK /\ Argument!TypeOK

\* What the printed figures are, for every clock: averages of the time that passed,
\* with no wrong output of Uncompress among the operations; minimum, average and
\* maximum in order exactly as far as PrintedInOrder says; the cost of one reading
\* of the clock, as long as there is a round in which it was not set back; and a
\* tick that was waited for with as few turns as can be.
FiguresAreSound ==
  OnlyRightOutput /\ AverageIsTime /\ PrintedInOrder /\ CostOfOneReading /\ FewTurns

\* The two UDP programs keep to one plan although each has its own copy: a client
\* asks for exactly the packet that was written, both stay in their buffers, and
\* every packet fits a datagram.
PlansAgree == Udp!ReadsWhatIsWritten /\ Udp!InsideBuffers /\ Udp!PacketsFit

\* get_packet_size finds the size that was asked for exactly from 0 on and below
\* 4 GB, and finds the same again in the argument it has changed.
SizeIsAsked == Argument!SizeIsAsked

\* The wait for a tick of the clock ends, even if the clock is set back; and both
\* UDP programs get to their end.
ProgramsEnd == /\ part = "timer" => Terminates
               /\ part = "udp" => Udp!BothExit
=============================================================================
