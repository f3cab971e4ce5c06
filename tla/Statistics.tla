---------------------------- MODULE Statistics ----------------------------
(***************************************************************************)
(* The running min, max and sum that the latency loops of part1.cpp,       *)
(* client_server/SocketServer.c and timer_precision.cpp keep, in uint64.   *)
(***************************************************************************)
EXTENDS Integers

CONSTANT W            \* ULLONG_MAX + 1

ASSUME WAssumption == W \in Nat \ {0}

\* max = sum = 0; min = ULLONG_MAX.
Fresh == [min |-> W - 1, max |-> 0, sum |-> 0]

\* sum += diff; if (diff < min) ...; if (diff > max) ...
\* (with "else if": the first difference never becomes the maximum)
RecordElse(s, diff) == [min |-> IF diff < s.min THEN diff ELSE s.min,
                        max |-> IF diff >= s.min /\ diff > s.max THEN diff ELSE s.max,
                        sum |-> (s.sum + diff) % W]
\* (or with a sum of more bits)
RecordNoWrap(s, diff) == [min |-> IF diff < s.min THEN diff ELSE s.min,
                          max |-> IF diff > s.max THEN diff ELSE s.max,
                          sum |-> s.sum + diff]
Record(s, diff) == [min |-> IF diff < s.min THEN diff ELSE s.min,
                    max |-> IF diff > s.max THEN diff ELSE s.max,
                    sum |-> (s.sum + diff) % W]
=============================================================================
