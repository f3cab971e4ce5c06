----------------------------- MODULE PacketSize -----------------------------
(***************************************************************************)
(* get_packet_size of Generic.h: the argument "n", "nk" or "nm" of the     *)
(* command line becomes a number of bytes.  The function works in the      *)
(* argument itself, from which it cuts off the suffix for a moment, and in *)
(* int; its caller takes the result as an unsigned number.  The server     *)
(* prints the argument afterwards.  The width of an int and the thousand   *)
(* are parameters; they are scaled together.                               *)
(***************************************************************************)
EXTENDS Integers

CONSTANTS Half,    \* INT_MAX + 1
          Kilo,    \* 1024
          Numbers  \* numbers that are written in the argument

Suffixes == {"none", "k", "K", "m", "M"}

VARIABLES asked,   \* history: the argument as it was
          s,       \* the argument: its number and its suffix
          packet_size, calls

vars == <<asked, s, packet_size, calls>>

Unit(suffix) == CASE suffix \in {"m", "M"} -> Kilo * Kilo
                  [] suffix \in {"k", "K"} -> Kilo
                  [] suffix = "none" -> 1

Init == /\ asked \in [number : Numbers, suffix : Suffixes]
        /\ s = asked /\ packet_size = 0 /\ calls = 0

\* A product in int wraps around, as the multiplication of the builds does, and
\* is then converted.
Size(a) == (a.number * Unit(a.suffix)) % (2 * Half)

\* What the argument is afterwards.
\* (with the suffix left cut off)
CutOff(a) == [a EXCEPT !.suffix = "none"]
Restored(a) == [a EXCEPT !.suffix = CASE @ \in {"m", "M"} -> "M"
                                      [] @ \in {"k", "K"} -> "K"
                                      [] @ = "none" -> "none"]

get_packet_size == /\ calls < 2
                   /\ packet_size' = Size(s)
                   /\ s' = Restored(s)
                   /\ calls' = calls + 1
                   /\ UNCHANGED asked

Returned == calls = 2 /\ UNCHANGED vars

Next == get_packet_size \/ Returned

Spec == Init /\ [][Next]_vars

(***************************************************************************)
(* Properties                                                              *)
(***************************************************************************)
TypeOK == /\ asked.number \in Numbers /\ s.number = asked.number /\ s.suffix \in Suffixes
          /\ packet_size \in 0 .. 2 * Half - 1 /\ calls \in 0 .. 2

\* The size is what was asked for from 0 on and below 4 GB, beyond INT_MAX too,
\* where the product and the conversion to unsigned both go wrong and make good
\* for each other; for every other argument, negative or larger, it is something
\* else.  The argument, which the function has changed, says the same when it is
\* read a second time, by the function or by a person.
Asked == asked.number * Unit(asked.suffix)
SizeIsAsked ==
  calls > 0 => /\ packet_size = Asked <=> Asked \in 0 .. 2 * Half - 1
               /\ Size(s) = packet_size
               /\ s.number = asked.number /\ Unit(s.suffix) = Unit(asked.suffix)
=============================================================================
