--------------------------- MODULE ReliableChannel ---------------------------
(***************************************************************************)
(* What a session of Socket.h promises its two programs while every        *)
(* datagram is either dropped by DropPacket or delivered in time: each     *)
(* WriteData hands one packet to one ReadData, in order, and returns only  *)
(* afterwards.                                                             *)
(***************************************************************************)
EXTENDS Integers, Sequences

CONSTANT Calls  \* WriteData calls of the writer

VARIABLES
  sent,       \* WriteData calls begun
  got,        \* packets received, in the order of reception
  confirmed   \* WriteData calls that have returned

vars == <<sent, got, confirmed>>

Init == sent = 0 /\ got = <<>> /\ confirmed = 0

Begin ==
  /\ sent < Calls /\ confirmed = sent
  /\ sent' = sent + 1
  /\ UNCHANGED <<got, confirmed>>

Deliver ==
  /\ Len(got) < sent
  /\ got' = Append(got, sent)
  /\ UNCHANGED <<sent, confirmed>>

Confirm ==
  /\ confirmed < Len(got)
  /\ confirmed' = confirmed + 1
  /\ UNCHANGED <<sent, got>>

Next == Begin \/ Deliver \/ Confirm

Spec == Init /\ [][Next]_vars /\ WF_vars(Next)

=============================================================================
