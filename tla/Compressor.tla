----------------------------- MODULE Compressor -----------------------------
(***************************************************************************)
(* CompressFragment of snappy.cc: one block of input becomes literals and  *)
(* copies.  A step is a call of EmitLiteral, a round of the scan, a match, *)
(* a call of EmitCopyAtMost64 or the update of the hash table after a      *)
(* match.  Pointers are offsets from the start of the input or output.     *)
(***************************************************************************)
EXTENDS SnappyFormat

CONSTANTS Inputs,        \* the blocks: sequences of bytes
          Hash(_, _),    \* HashBytes: any function of a word and a table size
          MinTable,      \* buckets of the smallest hash table: 256
          MaxTable       \* kMaxHashTableSize: 2^14

kBlockSize == 65536
kInputMarginBytes == 15

\* How many values a uint16 has.
Uint16s == 65536

\* MaxCompressedLength: the size of the output buffer.
MaxCompressedLength(n) == 32 + n + n \div 6

\* GetHashTable: doubled from the smallest until it has a bucket per byte.
TableSize(n) ==
  LET sizes == {MinTable * 2 ^ i : i \in 0 .. 14} \cap 1 .. MaxTable
      enough == {t \in sizes : t >= n} \cup {MaxTable}
  IN  CHOOSE t \in enough : \A u \in enough : t <= u

\* UNALIGNED_LOAD32(p): the four bytes at position p.
Load32(s, p) == SubSeq(s, p + 1, p + 4)

VARIABLES input,
          table,      \* per bucket the position last hashed into it, a uint16
          ip, nextIp, nextHash, skip, candidate,
          nextEmit,   \* bytes from here on have not been emitted
          offset,     \* how far behind ip the match is
          left,       \* bytes of the match EmitCopy has still to emit
          lessThan12, \* the flag FindMatchLength returned
          op,         \* the output pointer
          out,        \* the bytes before op
          reach,      \* end of the highest output byte ever written
          readEnd,    \* end of the highest input byte ever read
          pc

vars == <<input, table, ip, nextIp, nextHash, skip, candidate, nextEmit, offset,
          left, lessThan12, op, out, reach, readEnd, pc>>

n == Len(input)
ipLimit == n - kInputMarginBytes
HashAt(p) == Hash(Load32(input, p), TableSize(n))

Max2(a, b) == IF a >= b THEN a ELSE b

\* What the copying step, and what the scan, leave alone.
matchVars == <<offset, left, lessThan12>>
scanVars == <<table, nextIp, nextHash, skip, candidate>>
outputVars == <<op, out, reach>>

\* The block is at hand and the hash table cleared.
Init == /\ input \in Inputs
        /\ table = [h \in 0 .. TableSize(n) - 1 |-> 0]
        /\ ip = 0 /\ nextIp = 0 /\ nextHash = 0 /\ skip = 32
        /\ candidate = 0 /\ nextEmit = 0 /\ offset = 0 /\ left = 0 /\ lessThan12 = FALSE
        /\ op = 0 /\ out = <<>> /\ reach = 0 /\ readEnd = 0
        /\ pc = "start"

\* Too short a block is one literal.
Start == /\ pc = "start"
         /\ IF n >= kInputMarginBytes
            THEN /\ ip' = 1
                 /\ nextHash' = HashAt(1)
                 /\ readEnd' = Max2(readEnd, 5)
                 /\ pc' = "outer"
            ELSE pc' = "remainder" /\ UNCHANGED <<ip, nextHash, readEnd>>
         /\ UNCHANGED <<input, table, nextIp, skip, candidate, nextEmit>>
         /\ UNCHANGED <<matchVars, outputVars>>

BeginScan == /\ pc = "outer"
             /\ skip' = 32
             /\ nextIp' = ip
             /\ pc' = "scan"
             /\ UNCHANGED <<input, table, ip, nextHash, candidate, nextEmit, readEnd>>
             /\ UNCHANGED <<matchVars, outputVars>>

\* The loop that looks for four bytes that are equal, further and further
\* apart.
Scan ==
  LET here == nextIp
      between == skip \div 32
      next == here + between
  IN  /\ pc = "scan"
      /\ ip' = here
      /\ skip' = skip + between
      /\ nextIp' = next
      /\ IF next > ipLimit
         THEN pc' = "remainder" /\ UNCHANGED <<nextHash, candidate, table, readEnd>>
         ELSE /\ nextHash' = HashAt(next)
              /\ candidate' = table[nextHash]
              /\ table' = [table EXCEPT ![nextHash] = here % Uint16s]
              /\ readEnd' = Max2(readEnd, next + 4)
              /\ pc' = IF Load32(input, here) = Load32(input, table[nextHash])
                       THEN "literal" ELSE "scan"
      /\ UNCHANGED <<input, nextEmit>> /\ UNCHANGED <<matchVars, outputVars>>

\* EmitLiteral of the bytes [nextEmit, to): on the fast path 16 bytes are read
\* and written whatever the length.
EmitLiteral(to, fast) ==
  LET len == to - nextEmit
      body == op + 1 + LengthBytes(len)
      copied == IF fast /\ len <= 16 THEN 16 ELSE len
  IN  /\ out' = out \o LiteralTag(len) \o SubSeq(input, nextEmit + 1, to)
      /\ op' = body + len
      /\ reach' = Max2(reach, body + copied)
      /\ readEnd' = Max2(readEnd, nextEmit + copied)

EmitUnmatched == /\ pc = "literal"
                 /\ EmitLiteral(ip, TRUE)
                 /\ pc' = "match"
                 /\ UNCHANGED <<input, ip, nextEmit>> /\ UNCHANGED <<matchVars, scanVars>>

\* FindMatchLength(candidate + 4, ip + 4, ip_end), whose contract is the
\* property LongestMatch of the module FindMatchLength.
MatchLength == CHOOSE k \in 0 .. n - (ip + 4) :
                 /\ \A i \in 1 .. k : input[candidate + 4 + i] = input[ip + 4 + i]
                 /\ k < n - (ip + 4) => input[candidate + 5 + k] # input[ip + 5 + k]

FindMatch == /\ pc = "match"
             /\ offset' = ip - candidate
             /\ left' = 4 + MatchLength
             /\ lessThan12' = (MatchLength < 8)
             /\ ip' = ip + 4 + MatchLength
             /\ pc' = "copy"
             /\ UNCHANGED <<input, nextEmit, readEnd>>
             /\ UNCHANGED <<scanVars, outputVars>>

\* EmitCopy calls EmitCopyAtMost64 so that at least four bytes stay for the
\* last call.
\* (with 64 bytes taken as long as there are as many)
PieceGreedy == IF left >= 64 THEN 64 ELSE left
Piece == IF left >= 68 THEN 64 ELSE IF left > 64 THEN 60 ELSE left
PieceLessThan12 == lessThan12 \/ (left <= 64 /\ left < 12)

\* EmitCopyAtMost64: the longer form writes four bytes and keeps three.
EmitPiece == LET tag == CopyTag(offset, Piece, PieceLessThan12)
             IN  /\ pc = "copy"
                 /\ out' = out \o tag
                 /\ op' = op + Len(tag)
                 /\ reach' = Max2(reach, op + IF Len(tag) = 2 THEN 2 ELSE 4)
                 /\ left' = left - Piece
                 /\ pc' = IF left' = 0 THEN "copied" ELSE "copy"
                 /\ UNCHANGED <<input, ip, nextEmit, offset, lessThan12, readEnd>>
                 /\ UNCHANGED scanVars

\* After a match: the table learns ip - 1 and ip, and what it knew of ip says
\* whether another match begins at once.  The candidate is read from the table
\* before ("before") or after the new position is stored.
AfterCopyReading(before) ==
  LET prevHash == HashAt(ip - 1)
      curHash == HashAt(ip)
      table1 == [table EXCEPT ![prevHash] = (ip - 1) % Uint16s]
      table2 == [table1 EXCEPT ![curHash] = ip % Uint16s]
      known == IF before THEN table1[curHash] ELSE table2[curHash]
  IN  /\ pc = "copied"
      /\ nextEmit' = ip
      /\ IF ip >= ipLimit
         THEN pc' = "remainder" /\ UNCHANGED <<ip, table, candidate, nextHash, readEnd>>
         ELSE /\ table' = table2
              /\ candidate' = known
              /\ readEnd' = Max2(readEnd, ip + 7)
              /\ IF Load32(input, ip) = Load32(input, known)
                 THEN pc' = "match" /\ UNCHANGED <<ip, nextHash>>
                 ELSE pc' = "outer" /\ ip' = ip + 1 /\ nextHash' = HashAt(ip + 1)
      /\ UNCHANGED <<input, nextIp, skip>> /\ UNCHANGED <<matchVars, outputVars>>

\* (with the new position stored before the old one is read)
AfterCopyStoreFirst == AfterCopyReading(FALSE)
AfterCopy == AfterCopyReading(TRUE)

\* The rest of the block is a literal, never on the fast path.
\* (with the fast path allowed)
EmitRemainderFast == /\ pc = "remainder"
                     /\ IF nextEmit < n
                        THEN EmitLiteral(n, TRUE)
                        ELSE UNCHANGED <<outputVars, readEnd>>
                     /\ pc' = "done"
                     /\ UNCHANGED <<input, ip, nextEmit>> /\ UNCHANGED <<matchVars, scanVars>>
EmitRemainder == /\ pc = "remainder"
                 /\ IF nextEmit < n
                    THEN EmitLiteral(n, FALSE)
                    ELSE UNCHANGED <<outputVars, readEnd>>
                 /\ pc' = "done"
                 /\ UNCHANGED <<input, ip, nextEmit>> /\ UNCHANGED <<matchVars, scanVars>>

\* The call has returned.
Returned == pc = "done" /\ UNCHANGED vars

Next == \/ Start \/ BeginScan \/ Scan \/ EmitUnmatched \/ FindMatch \/ EmitPiece
        \/ AfterCopy \/ EmitRemainder \/ Returned

Spec == Init /\ [][Next]_vars

TypeOK == /\ input \in Seq(Byte)
          /\ table \in [0 .. TableSize(n) - 1 -> 0 .. Uint16s - 1]
          /\ ip \in 0 .. n /\ nextIp \in Nat /\ skip \in Nat
          /\ nextHash \in 0 .. TableSize(n) - 1
          /\ candidate \in 0 .. n /\ nextEmit \in 0 .. n
          /\ offset \in 0 .. n /\ left \in 0 .. n /\ lessThan12 \in BOOLEAN
          /\ op \in Nat /\ reach \in Nat /\ readEnd \in Nat
          /\ pc \in {"start", "outer", "scan", "literal", "match", "copy", "copied",
                     "remainder", "done"}

\* How much of the input the bytes before op stand for.
Emitted == CASE pc = "match" -> ip
             [] pc = "copy" -> ip - left
             [] pc = "copied" -> ip
             [] pc = "done" -> n
             [] OTHER -> nextEmit

(***************************************************************************)
(* What is written so far decodes to what has been emitted of the input:   *)
(* no hash collision, skipped position, piece of a long match or stale     *)
(* table entry ever changes a byte, whatever the hash function.            *)
(***************************************************************************)
RoundTrip == LET d == Decode(out, n)
             IN  d.ok /\ d.out = SubSeq(input, 1, Emitted) /\ op = Len(out)

(***************************************************************************)
(* The fast paths read and write more than they need.  The margin of 15    *)
(* bytes keeps the reads inside the input, and the size of the output      *)
(* buffer, MaxCompressedLength, allows for the writes and for the worst    *)
(* expansion.                                                              *)
(***************************************************************************)
InsideBuffers == readEnd <= n /\ reach <= MaxCompressedLength(n)

(***************************************************************************)
(* The assertions of CompressFragment, EmitLiteral and EmitCopyAtMost64.   *)
(* They are compiled out of a release build, and each relates values that  *)
(* were set several iterations apart.  The candidate of a round of the     *)
(* scan is behind the place it is compared with, and a match is equal to   *)
(* the bytes "offset" before, all of it and what is left of it after every *)
(* call of EmitCopyAtMost64.                                               *)
(***************************************************************************)
Assertions ==
  /\ pc = "outer" => nextEmit < ip
  /\ pc = "scan" => nextHash = HashAt(nextIp) /\ table[nextHash] < nextIp
  /\ pc = "literal" => /\ candidate < ip
                       /\ nextEmit + 16 <= n
                       /\ ip - nextEmit > 0
  /\ pc = "copy" => /\ Piece \in 4 .. 64
                    /\ offset \in 1 .. Uint16s - 1
                    /\ PieceLessThan12 = (Piece < 12)
                    /\ \A i \in ip - left + 1 .. ip : input[i] = input[i - offset]
=============================================================================
