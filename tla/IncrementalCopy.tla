--------------------------- MODULE IncrementalCopy ---------------------------
(***************************************************************************)
(* IncrementalCopy of snappy.cc: a copy whose source and destination may   *)
(* overlap, done in stores of 8 bytes that go past the end of the copy.    *)
(* Addresses are positions in the buffer; the copy goes from src to        *)
(* [op, op_limit), the buffer ends at buf_limit.  At first byte i holds i, *)
(* so that every byte can be told from every other.                        *)
(***************************************************************************)
EXTENDS Integers

CONSTANTS Sources, Patterns, Lengths,   \* src, op - src, op_limit - op
          Slops                         \* buf_limit - op_limit

ASSUME CopiesAssumption == /\ Sources \subseteq Nat
                           /\ Patterns \subseteq Nat \ {0}
                           /\ Lengths \subseteq Nat
                           /\ Slops \subseteq Nat

VARIABLES mem,
          src, op,
          opLimit, bufLimit,
          pattern,    \* pattern_size
          start,      \* op when the function was called
          period,     \* pattern_size when the function was called
          step        \* where the function is

copyVars == <<mem, src, op, opLimit, bufLimit, pattern, start, period, step>>
limits == <<opLimit, bufLimit, start, period>>

CopyInit == /\ src \in Sources
            /\ period \in Patterns /\ pattern = period
            /\ start = src + period /\ op = start
            /\ \E len \in Lengths, slop \in Slops :
                 opLimit = start + len /\ bufLimit = start + len + slop
            /\ mem = [i \in 0 .. bufLimit - 1 |-> i]
            /\ step = "begin"

\* UnalignedCopy64, by way of an array of its own.  A store past the end of the
\* buffer makes the domain of the memory larger.
Copy64(m, from, to) ==
  [i \in (DOMAIN m) \cup (to .. to + 7) |-> IF i \in to .. to + 7 THEN m[from + (i - to)] ELSE m[i]]

\* (with room for the first store only)
BeginOneStore == /\ step = "begin"
                 /\ step' = IF pattern < 8 THEN IF op <= bufLimit - 8 THEN "expand" ELSE "bytes"
                            ELSE "blocks"
                 /\ UNCHANGED <<mem, src, op, pattern, limits>>
Begin == /\ step = "begin"
         /\ step' = IF pattern < 8 THEN IF op <= bufLimit - 14 THEN "expand" ELSE "bytes"
                  ELSE "blocks"
         /\ UNCHANGED <<mem, src, op, pattern, limits>>

\* A pattern of less than 8 bytes is doubled until it has 8.
Expand == /\ step = "expand" /\ pattern < 8
          /\ mem' = Copy64(mem, src, op)
          /\ op' = op + pattern
          /\ pattern' = pattern * 2
          /\ UNCHANGED <<src, step, limits>>

Expanded == /\ step = "expand" /\ pattern >= 8
            /\ step' = IF op >= opLimit THEN "done" ELSE "blocks"
            /\ UNCHANGED <<mem, src, op, pattern, limits>>

\* Two copies of 8 bytes, of which the second may read what the first stored.
\* (with src left behind)
TwoCopiesFromStart == /\ step = "blocks" /\ op <= bufLimit - 16
                      /\ mem' = Copy64(Copy64(mem, src, op), src + 8, op + 8)
                      /\ op' = op + 16
                      /\ step' = IF op' >= opLimit THEN "done" ELSE "blocks"
                      /\ UNCHANGED <<src, pattern, limits>>
TwoCopies == /\ step = "blocks" /\ op <= bufLimit - 16
             /\ mem' = Copy64(Copy64(mem, src, op), src + 8, op + 8)
             /\ src' = src + 16
             /\ op' = op + 16
             /\ step' = IF op' >= opLimit THEN "done" ELSE "blocks"
             /\ UNCHANGED <<pattern, limits>>

LastCopy == /\ step = "blocks" /\ op > bufLimit - 16
            /\ IF op <= bufLimit - 8
               THEN mem' = Copy64(mem, src, op) /\ src' = src + 8 /\ op' = op + 8
               ELSE UNCHANGED <<mem, src, op>>
            /\ step' = "bytes"
            /\ UNCHANGED <<pattern, limits>>

\* IncrementalCopySlow.
\* (with op left where it is)
CopyByteInPlace == /\ step = "bytes" /\ op < opLimit
                   /\ mem' = [mem EXCEPT ![op] = mem[src]]
                   /\ UNCHANGED <<src, op, pattern, step, limits>>
CopyByte == /\ step = "bytes" /\ op < opLimit
            /\ mem' = [mem EXCEPT ![op] = mem[src]]
            /\ src' = src + 1
            /\ op' = op + 1
            /\ UNCHANGED <<pattern, step, limits>>

CopyEnd == /\ step = "bytes" /\ op >= opLimit
           /\ step' = "done"
           /\ UNCHANGED <<mem, src, op, pattern, limits>>

CopyOver == step = "done" /\ UNCHANGED copyVars

CopyNext == \/ Begin \/ Expand \/ Expanded \/ TwoCopies \/ LastCopy \/ CopyByte \/ CopyEnd
            \/ CopyOver

CopySpec == CopyInit /\ [][CopyNext]_copyVars /\ WF_copyVars(CopyNext)

-----------------------------------------------------------------------------

CopyTypeOK == /\ src \in Nat /\ op \in Nat
              /\ opLimit \in Nat /\ bufLimit \in Nat
              /\ start \in Nat /\ period \in Nat \ {0}
              /\ pattern \in (1 .. 14) \cup {period}
              /\ step \in {"begin", "expand", "blocks", "bytes", "done"}
              /\ 0 .. bufLimit - 1 \subseteq DOMAIN mem

\* Nothing is stored at or after buf_limit, and nothing before the copy.
InsideBuffer == /\ DOMAIN mem = 0 .. bufLimit - 1
                /\ \A i \in 0 .. start - 1 : mem[i] = i

\* The result is that of a copy byte by byte: each byte is equal to the one a
\* period before it.
ResultIsPattern == step = "done" => \A i \in start .. opLimit - 1 : mem[i] = mem[i - period]

\* The function returns.
CopyReturns == <>(step = "done")

\* The strengthening that is inductive: the result is right up to op, the
\* distance from src to op is a small multiple of the period, and there is
\* room for the stores to come.
Distance == /\ op - src \in {period, 2 * period, 4 * period, 8 * period}
            /\ step \in {"begin", "expand"} => pattern = op - src /\ src + period = start
            /\ start <= src + period /\ period <= start
            /\ step = "blocks" => op - src >= 8
Room == /\ opLimit <= bufLimit
        /\ start <= op /\ op <= bufLimit
        /\ step = "expand" => start <= bufLimit - 14
        /\ step = "done" => op >= opLimit
PatternSoFar == \A i \in start .. op - 1 : mem[i] = mem[i - period]
IInv == CopyTypeOK /\ InsideBuffer /\ Distance /\ Room /\ PatternSoFar
==============================================================================
