----------------------------- MODULE IOVecWriter -----------------------------
(***************************************************************************)
(* SnappyIOVecWriter of snappy.cc: the output is scattered over the        *)
(* buffers of an iovec.  A step is a round of one of the loops of Append   *)
(* and AppendFromSelf.                                                     *)
(***************************************************************************)
EXTENDS WriterCalls

CONSTANTS Buffers,    \* lengths of the buffers: sequences of numbers
          Limits      \* expected lengths

VARIABLES len,        \* output_iov_[..].iov_len
          iov,        \* what the buffers hold
          curr,       \* curr_iov_index_, counted from 1
          written,    \* curr_iov_written_
          total,      \* total_written_
          limit,      \* output_limit_
          call,       \* the call of the decompressor that is under way
          src,        \* bytes that Append has still to write
          from, fromOffset,   \* from_iov_index, from_iov_offset
          back,       \* "offset" of AppendFromSelf: how far to go back still
          left,       \* "len" of AppendFromSelf: bytes still to copy
          pc,         \* "append" is Append called by the decompressor,
                      \* "appendSelf" Append called by AppendFromSelf
          refused,    \* a call returned false
          spoiled,    \* a call found no buffer for its bytes
          done        \* history: the content after the calls that succeeded

vars == <<len, iov, curr, written, total, limit, call, src, from, fromOffset, back, left,
          pc, refused, spoiled, done>>
destination == <<iov, curr, written, total>>
copyVars == <<from, fromOffset, back, left>>

Count == Len(len)

\* The first k buffers, one after the other, and their length.
Flat[k \in 0 .. Count] == IF k = 0 THEN <<>> ELSE Flat[k - 1] \o iov[k]
Before[k \in 0 .. Count] == IF k = 0 THEN 0 ELSE Before[k - 1] + len[k]

\* What has been written: the buffers before the current one, and its start.
Content == Flat[curr - 1] \o SubSeq(iov[curr], 1, written)

Init == /\ len \in Buffers /\ limit \in Limits
        /\ iov = [i \in 1 .. Count |-> Blank(len[i])]
        /\ curr = 1 /\ written = 0 /\ total = 0
        /\ call = NoCall /\ src = <<>> /\ from = 1 /\ fromOffset = 0 /\ back = 0 /\ left = 0
        /\ pc = "idle" /\ refused = FALSE /\ spoiled = FALSE /\ done = <<>>

\* The decompressor stops at the first call that returns false.
Call(c) == /\ pc = "idle" /\ ~refused
           /\ call' = c
           /\ pc' = "call"
           /\ UNCHANGED <<len, limit, src, refused, spoiled, done>>
           /\ UNCHANGED destination /\ UNCHANGED copyVars

\* The call returns, and its result is taken.
Returns(result) == /\ pc' = "idle"
                   /\ call' = NoCall
                   /\ refused' = ~result
                   /\ done' = IF result /\ ~spoiled' THEN Content' ELSE done

AppendStart ==
  /\ pc = "call" /\ call.kind = "literal"
  /\ UNCHANGED <<len, limit, spoiled>> /\ UNCHANGED destination /\ UNCHANGED copyVars
  /\ IF total + call.len > limit
     THEN Returns(FALSE) /\ UNCHANGED src
     ELSE src' = LiteralBytes(total, call.len) /\ pc' = "append"
          /\ UNCHANGED <<call, refused, done>>

\* The caller of Append is the decompressor, which takes the result, or
\* AppendFromSelf, which does not look at it.
AppendReturns(result) ==
  /\ src' = <<>>
  /\ IF pc = "append" THEN Returns(result)
                      ELSE pc' = "copy" /\ UNCHANGED <<call, refused, done>>

AppendEnd == /\ pc \in {"append", "appendSelf"} /\ src = <<>>
             /\ UNCHANGED <<len, limit, spoiled>>
             /\ UNCHANGED destination /\ UNCHANGED copyVars
             /\ AppendReturns(TRUE)

Full == written >= len[curr]

\* (with the bytes counted before there is a buffer for them)
AppendNoBufferCounted == /\ pc \in {"append", "appendSelf"} /\ src # <<>>
                         /\ Full /\ curr + 1 > Count
                         /\ spoiled' = TRUE
                         /\ total' = total + Len(src)
                         /\ UNCHANGED <<len, limit, iov, curr, written>>
                         /\ UNCHANGED copyVars
                         /\ AppendReturns(FALSE)
\* (with no return)
AppendNoBufferLoops == /\ pc \in {"append", "appendSelf"} /\ src # <<>>
                       /\ Full /\ curr + 1 > Count
                       /\ spoiled' = TRUE
                       /\ UNCHANGED <<len, limit, call, done, src, pc, refused>>
                       /\ UNCHANGED destination /\ UNCHANGED copyVars
AppendNoBuffer == /\ pc \in {"append", "appendSelf"} /\ src # <<>>
                  /\ Full /\ curr + 1 > Count
                  /\ spoiled' = TRUE
                  /\ UNCHANGED <<len, limit>>
                  /\ UNCHANGED destination /\ UNCHANGED copyVars
                  /\ AppendReturns(FALSE)

\* A round of the loop in Append, which goes to the next buffer when this one
\* is full.
AppendRound ==
  LET to == IF Full THEN curr + 1 ELSE curr
      at == IF Full THEN 0 ELSE written
      k == Least(Len(src), len[to] - at)
  IN  /\ pc \in {"append", "appendSelf"} /\ src # <<>>
      /\ to <= Count
      /\ iov' = [iov EXCEPT ![to] = Overwrite(@, at, SubSeq(src, 1, k))]
      /\ curr' = to
      /\ written' = at + k
      /\ total' = total + k
      /\ src' = SubSeq(src, k + 1, Len(src))
      /\ UNCHANGED <<len, limit, call, pc, refused, spoiled, done>> /\ UNCHANGED copyVars

\* TryFastAppend stores Wide bytes where there is "room"; "kept" are those that
\* curr_iov_written_ counts.
FastAppend(room, kept) ==
  /\ pc = "call" /\ call.kind = "literal" /\ call.len <= Wide
  /\ limit - total >= Wide /\ room >= Wide
  /\ iov' = [iov EXCEPT ![curr] = Overwrite(@, written, WideBytes(total, call.len))]
  /\ written' = written + kept
  /\ total' = total + call.len
  /\ UNCHANGED <<len, limit, curr, src, spoiled>> /\ UNCHANGED copyVars
  /\ Returns(TRUE)
\* (with the end of the buffer not looked at)
TryFastAppendAnywhere == FastAppend(limit - total, call.len)
\* (with the bytes that do not count kept)
TryFastAppendWide == FastAppend(len[curr] - written, Wide)
TryFastAppend == FastAppend(len[curr] - written, call.len)

AppendFromSelf ==
  /\ pc = "call" /\ call.kind = "copy"
  /\ UNCHANGED <<len, limit, src, spoiled>> /\ UNCHANGED destination
  /\ IF call.offset > total \/ call.offset = 0 \/ call.len > limit - total
     THEN Returns(FALSE) /\ UNCHANGED copyVars
     ELSE /\ from' = curr /\ fromOffset' = written
          /\ back' = call.offset /\ left' = call.len
          /\ pc' = "locate"
          /\ UNCHANGED <<call, refused, done>>

\* A round of the loop that looks for the buffer to copy from.
Locate == /\ pc = "locate"
          /\ \/ /\ fromOffset >= back
                /\ fromOffset' = fromOffset - back
                /\ back' = 0
                /\ pc' = "copy"
                /\ UNCHANGED from
             \/ /\ fromOffset < back
                /\ back' = back - fromOffset
                /\ from' = from - 1
                /\ fromOffset' = len[from - 1]
                /\ UNCHANGED pc
          /\ UNCHANGED <<len, limit, call, src, left, refused, spoiled, done>>
          /\ UNCHANGED destination

\* A round of the copying loop while the source is in an earlier buffer.
CopyFromEarlier ==
  LET k == Least(len[from] - fromOffset, left)
  IN  /\ pc = "copy" /\ left > 0 /\ from # curr
      /\ src' = SubSeq(iov[from], fromOffset + 1, fromOffset + k)
      /\ left' = left - k
      /\ IF left > k THEN from' = from + 1 /\ fromOffset' = 0
                     ELSE UNCHANGED <<from, fromOffset>>
      /\ pc' = "appendSelf"
      /\ UNCHANGED <<len, limit, call, back, refused, spoiled, done>> /\ UNCHANGED destination

\* The source is in the current buffer and that one is full.
CopyNextBuffer ==
  /\ pc = "copy" /\ left > 0 /\ from = curr /\ Full
  /\ IF curr + 1 > Count
     THEN /\ spoiled' = TRUE
          /\ UNCHANGED <<curr, written>>
          /\ Returns(FALSE)
     ELSE /\ curr' = curr + 1 /\ written' = 0
          /\ UNCHANGED <<call, pc, refused, spoiled, done>>
  /\ UNCHANGED <<len, limit, iov, total, src>> /\ UNCHANGED copyVars

\* A round when source and destination are in one buffer, byte by byte.
\* (as memcpy, of bytes that are not there yet)
CopyWithinBlock ==
  LET k == Least(len[curr] - written, left)
  IN  /\ pc = "copy" /\ left > 0 /\ from = curr /\ ~Full
      /\ iov' = [iov EXCEPT ![curr] = Overwrite(@, written, SubSeq(@, fromOffset + 1, fromOffset + k))]
      /\ written' = written + k
      /\ fromOffset' = fromOffset + k
      /\ total' = total + k
      /\ left' = left - k
      /\ UNCHANGED <<len, limit, curr, call, src, from, back, pc, refused, spoiled, done>>
CopyWithin ==
  LET k == Least(len[curr] - written, left)
  IN  /\ pc = "copy" /\ left > 0 /\ from = curr /\ ~Full
      /\ iov' = [iov EXCEPT ![curr] = Overwrite(@, written,
                   Repeated(SubSeq(@, 1, written), written - fromOffset, k))]
      /\ written' = written + k
      /\ fromOffset' = fromOffset + k
      /\ total' = total + k
      /\ left' = left - k
      /\ UNCHANGED <<len, limit, curr, call, src, from, back, pc, refused, spoiled, done>>

\* AppendFromSelf returns true after its last round.
CopyEnd == /\ pc = "copy" /\ left = 0
           /\ UNCHANGED <<len, limit, src, spoiled>>
           /\ UNCHANGED destination /\ UNCHANGED copyVars
           /\ Returns(TRUE)

Stopped == refused /\ UNCHANGED vars

Next == \/ \E c \in Calls : Call(c)
        \/ AppendStart \/ AppendRound \/ AppendNoBuffer \/ AppendEnd \/ TryFastAppend
        \/ AppendFromSelf \/ Locate \/ CopyFromEarlier \/ CopyNextBuffer \/ CopyWithin
        \/ CopyEnd
        \/ Stopped

Spec == Init /\ [][Next]_vars /\ WF_vars(Next)

TypeOK ==
  /\ len \in Buffers /\ limit \in Limits
  /\ iov \in Seq(Seq(Nat)) /\ Len(iov) = Count
  /\ curr \in 1 .. Count /\ written \in Nat /\ total \in 0 .. limit
  /\ src \in Seq(Nat) /\ done \in Seq(Nat)
  /\ from \in 1 .. Count /\ fromOffset \in Nat /\ back \in Nat /\ left \in Nat
  /\ call \in Calls \cup {NoCall}
  /\ pc \in {"idle", "call", "append", "appendSelf", "locate", "copy"}
  /\ refused \in BOOLEAN /\ spoiled \in BOOLEAN

\* No store leaves its buffer, and the asserts of the loops hold: the writer
\* has not passed the end of its buffer, and the source of a copy is not after
\* the destination.
InsideBuffers == /\ \A i \in 1 .. Count : Len(iov[i]) = len[i]
                 /\ written <= len[curr]
                 /\ from <= curr
                 /\ pc = "locate" => back <= Before[from - 1] + fromOffset

\* total_written_ counts what the buffers hold: none is left half full.
TotalIsWritten == total = Before[curr - 1] + written

\* AppendFromSelf does not look at the result of Append, so that it returns
\* true for bytes it had no buffer for.  The length check at the end must find
\* out.
SpoiledIsIncomplete == spoiled => total < limit

\* Each call returns: the loops over buffers and bytes end.
CallsReturn == []<>(pc = "idle")

\* The writer is a DecompressionWriter whose destination holds the sum of the
\* buffers' lengths: whatever the buffers, the calls put the same bytes in the
\* same order, and a call that does not fit makes the writer useless even if
\* it returned true.
Writer == INSTANCE DecompressionWriter WITH expected <- limit, capacity <- Before[Count],
                                            content <- done, dead <- refused \/ spoiled
Implements == Writer!Spec
==============================================================================
