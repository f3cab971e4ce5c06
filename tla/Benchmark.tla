----------------------------- MODULE Benchmark -----------------------------
(***************************************************************************)
(* SocketServer.cpp and SocketClient.cpp over a session that keeps its     *)
(* promise, a ReliableChannel.  The two programs have no message that says *)
(* what comes next: each goes through its own copy of three loops, over    *)
(* packet sizes, at the largest size, and over drop percentages.           *)
(***************************************************************************)
EXTENDS Integers, Sequences

CONSTANTS Trips,      \* iterations for every packet size
          Bandwidth,  \* iterations at the largest size
          Drops       \* iterations for every drop percentage

KB == 1024
MaxDatagram == 65507  \* the largest payload of UDP over IPv4

\* for (drop_percent = first; drop_percent < limit; drop_percent += step)
Percents(first, limit, step) == [n \in 1 .. (limit - first + step - 1) \div step |-> first + step * (n - 1)]

\* What each of the programs goes through.
\* (with the largest packets of 64 kB)
Server64 == [sizes |-> <<KB, KB * 2, KB * 4, KB * 8, KB * 16, KB * 32, KB * 64>>,
             trips |-> Trips, bandwidth |-> Bandwidth, drops |-> Drops,
             dropSize |-> KB * 8, percents |-> Percents(5, 95, 5)]
Server == [sizes |-> <<KB, KB * 2, KB * 4, KB * 8, KB * 16, KB * 32, KB * 63>>,
           trips |-> Trips, bandwidth |-> Bandwidth, drops |-> Drops,
           dropSize |-> KB * 8, percents |-> Percents(5, 95, 5)]
\* (without the smallest packets; up to 85 %)
ClientFromTwo == [sizes |-> <<KB * 2, KB * 4, KB * 8, KB * 16, KB * 32, KB * 63>>,
                  trips |-> Trips, bandwidth |-> Bandwidth, drops |-> Drops,
                  dropSize |-> KB * 8, percents |-> Percents(5, 95, 5)]
ClientTo90 == [sizes |-> <<KB * 1, KB * 2, KB * 4, KB * 8, KB * 16, KB * 32, KB * 63>>,
               trips |-> Trips, bandwidth |-> Bandwidth, drops |-> Drops,
               dropSize |-> KB * 8, percents |-> Percents(5, 90, 5)]
Client == [sizes |-> <<KB * 1, KB * 2, KB * 4, KB * 8, KB * 16, KB * 32, KB * 63>>,
           trips |-> Trips, bandwidth |-> Bandwidth, drops |-> Drops,
           dropSize |-> KB * 8, percents |-> Percents(5, 95, 5)]

VARIABLES
  sAt, cAt,             \* where each program is: loop, its turn, iteration, skip_size
  sDrop, cDrop,         \* the percentage that each program set last
  sizeSent,             \* the size of the packet that is written
  sent, got, confirmed  \* of the channel

vars == <<sAt, cAt, sDrop, cDrop, sizeSent, sent, got, confirmed>>

Channel == INSTANCE ReliableChannel WITH
  Calls <- Len(Server.sizes) * Trips + Bandwidth + Len(Server.percents) * Drops

Loops == <<"trips", "bandwidth", "drops">>
Start == [loop |-> 1, turn |-> 1, i |-> 0, skip |-> 0]
Done(at) == at.loop > Len(Loops)
In(at, loop) == ~Done(at) /\ Loops[at.loop] = loop

\* The buffer, the packet and the loops' bounds where a program is.
Total(p) ==
  LET sum[k \in 0 .. Len(p.sizes)] == IF k = 0 THEN 0 ELSE sum[k - 1] + p.sizes[k]
  IN  sum[Len(p.sizes)]
Size(p, at) == CASE In(at, "trips") -> p.sizes[at.turn]
                 [] In(at, "bandwidth") -> p.sizes[Len(p.sizes)]
                 [] In(at, "drops") -> p.dropSize
Room(p, at) == CASE In(at, "trips") -> Total(p)
                 [] In(at, "bandwidth") -> p.sizes[Len(p.sizes)]
                 [] In(at, "drops") -> p.dropSize * p.drops
Iterations(p, at) == CASE In(at, "trips") -> p.trips
                       [] In(at, "bandwidth") -> p.bandwidth
                       [] In(at, "drops") -> p.drops
Turns(p, at) == CASE In(at, "trips") -> Len(p.sizes)
                  [] In(at, "bandwidth") -> 1
                  [] In(at, "drops") -> Len(p.percents)

\* After a call: the next iteration, the next turn further on in the buffer, or
\* the next loop.
\* (with skip_size moved on in every iteration)
AfterEachTime(p, at) ==
  CASE at.i + 1 < Iterations(p, at) -> [at EXCEPT !.i = @ + 1, !.skip = @ + Size(p, at)]
    [] at.i + 1 = Iterations(p, at) /\ at.turn < Turns(p, at) ->
         [at EXCEPT !.i = 0, !.turn = @ + 1, !.skip = @ + Size(p, at)]
    [] OTHER -> [Start EXCEPT !.loop = at.loop + 1]
After(p, at) ==
  CASE at.i + 1 < Iterations(p, at) -> [at EXCEPT !.i = @ + 1]
    [] at.i + 1 = Iterations(p, at) /\ at.turn < Turns(p, at) ->
         [at EXCEPT !.i = 0, !.turn = @ + 1, !.skip = @ + Size(p, at)]
    [] OTHER -> [Start EXCEPT !.loop = at.loop + 1]

Init == /\ sAt = Start /\ cAt = Start
        /\ sDrop = 0 /\ cDrop = 0 /\ sizeSent = 0
        /\ Channel!Init

\* SetDropPercentage at the beginning of a turn of the third loop.
SetDrop(p, at, old) == IF In(at, "drops") /\ at.i = 0 /\ p.percents[at.turn] \in 0 .. 99
                       THEN p.percents[at.turn] ELSE old

ServerWrites == /\ ~Done(sAt) /\ Channel!Begin
                /\ sizeSent' = Size(Server, sAt)
                /\ sDrop' = SetDrop(Server, sAt, sDrop)
                /\ UNCHANGED <<sAt, cAt, cDrop>>

ServerReturns == /\ Channel!Confirm
                 /\ sAt' = After(Server, sAt)
                 /\ UNCHANGED <<cAt, sDrop, cDrop, sizeSent>>

\* While there is no ack, WriteData sends the packet again, which changes nothing
\* of what the channel promises.
ServerResends == confirmed < sent /\ UNCHANGED vars

\* The client waits in ReadData until a packet comes.
ClientReads == /\ ~Done(cAt) /\ Channel!Deliver
               /\ cAt' = After(Client, cAt)
               /\ cDrop' = SetDrop(Client, cAt, cDrop)
               /\ UNCHANGED <<sAt, sDrop, sizeSent>>

Exited == Done(sAt) /\ Done(cAt) /\ UNCHANGED vars

Next == ServerWrites \/ ServerResends \/ ServerReturns \/ ClientReads \/ Exited

\* Two processes that keep running.
Spec == Init /\ [][Next]_vars /\ WF_vars(ServerWrites) /\ WF_vars(ServerReturns) /\ WF_vars(ClientReads)

(***************************************************************************)
(* Properties                                                              *)
(***************************************************************************)
TypeOK == /\ \A at \in {sAt, cAt} : /\ at.loop \in 1 .. Len(Loops) + 1
                                    /\ {at.turn, at.i, at.skip} \subseteq Nat
          /\ {sDrop, cDrop} \subseteq {0} \cup {5 * n : n \in 1 .. 18}
          /\ sizeSent \in Nat

\* A client that reads asks for exactly the packet that was written: the same
\* size, so that nothing is cut off and no stale bytes remain, and into the place
\* of its buffer from which the server's packet came.
ReadsWhatIsWritten ==
  Len(got) < sent /\ ~Done(cAt) =>
    /\ Size(Client, cAt) = sizeSent
    /\ cAt = sAt

\* No packet is read from or stored behind the end of a buffer: the third loop
\* has a buffer of as many packets as iterations, but goes on in it with every
\* percentage.
InsideBuffers ==
  /\ ~Done(sAt) => sAt.skip + Size(Server, sAt) <= Room(Server, sAt)
  /\ ~Done(cAt) => cAt.skip + Size(Client, cAt) <= Room(Client, cAt)

\* Every packet fits a datagram: sendto would refuse it for ever.
PacketsFit == sizeSent <= MaxDatagram

\* Both programs get to their end.
BothExit == <>(Done(sAt) /\ Done(cAt))
=============================================================================
