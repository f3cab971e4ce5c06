--------------------------- MODULE ScatteredWriter ---------------------------
(***************************************************************************)
(* SnappyScatteredWriter with SnappySinkAllocator of snappy.cc: the output *)
(* goes to blocks that are allocated one after the other, and from there   *)
(* to a Sink when the decompressor is done or has given up, as in          *)
(* UncompressAsMuchAsPossible.  A step is a call, or a round of the loop   *)
(* of SlowAppend, SlowAppendFromSelf or Flush.                             *)
(***************************************************************************)
EXTENDS WriterCalls

CONSTANTS Limits,     \* expected lengths
          BlockSize   \* kBlockSize

VARIABLES expected,   \* expected_
          sizes,      \* sizes of the blocks allocated
          blocks,     \* blocks_, with what they hold; op_base_ is the last one
          ptr,        \* op_ptr_ - op_base_
          full,       \* full_size_
          src,        \* bytes that SlowAppend has still to write
          self, left, \* "src" and "len" of SlowAppendFromSelf
          call,       \* the call of the decompressor that is under way
          refused,    \* a call returned false
          pc,         \* "slow" is SlowAppend called by the decompressor,
                      \* "slowSelf" by way of SlowAppendFromSelf
          flushed,    \* blocks Flush has written
          sink,       \* bytes the sink has got
          done        \* history: the content after the calls that succeeded

vars == <<expected, sizes, blocks, ptr, full, src, self, left, call, refused, pc,
          flushed, sink, done>>
blockVars == <<sizes, blocks, ptr, full>>
selfVars == <<self, left>>
flushVars == <<flushed, sink>>

Init == /\ expected \in Limits
        /\ sizes = <<>> /\ blocks = <<>> /\ ptr = 0 /\ full = 0
        /\ src = <<>> /\ self = 0 /\ left = 0
        /\ call = NoCall /\ refused = FALSE /\ pc = "idle"
        /\ flushed = 0 /\ sink = <<>> /\ done = <<>>

Last == Len(blocks)
Limit == IF Last = 0 THEN 0 ELSE sizes[Last]   \* op_limit_ - op_base_
Avail == Limit - ptr
Size == full + ptr

\* The blocks with "bytes" stored at op_ptr_.  Before there is a block, these are
\* no bytes.
Stored(bytes) == IF Last = 0 THEN blocks
                 ELSE [blocks EXCEPT ![Last] = Overwrite(@, ptr, bytes)]

\* Store "bytes" at op_ptr_, of which n count.
Put(bytes, n) == blocks' = Stored(bytes) /\ ptr' = ptr + n

Flat[k \in 0 .. Last] == IF k = 0 THEN <<>> ELSE Flat[k - 1] \o blocks[k]
Content == IF Last = 0 THEN <<>> ELSE Flat[Last - 1] \o SubSeq(blocks[Last], 1, ptr)

\* The decompressor stops at the first call that returns false.
Call(c) == /\ pc = "idle" /\ ~refused
           /\ call' = c /\ pc' = "call"
           /\ UNCHANGED <<expected, src, refused, done>>
           /\ UNCHANGED blockVars /\ UNCHANGED selfVars /\ UNCHANGED flushVars

Returns(result) == /\ pc' = "idle" /\ call' = NoCall
                   /\ refused' = ~result
                   /\ done' = IF result THEN Content' ELSE done

\* The fast paths: all is stored in the current block.
FastAppend == /\ pc = "call" /\ call.kind = "literal"
              /\ call.len <= Avail
              /\ \/ Put(LiteralBytes(Size, call.len), call.len)
                 \/ /\ call.len <= Wide /\ Avail >= Wide
                    /\ Put(WideBytes(Size, call.len), call.len)
              /\ UNCHANGED <<expected, sizes, full, src>>
              /\ UNCHANGED selfVars /\ UNCHANGED flushVars
              /\ Returns(TRUE)

\* The copy may leave anything between op_end and op_limit_.
\* (with op_end not looked at)
FitsHereAnywhere == Minus1u(call.offset) < ptr
FitsHere == Minus1u(call.offset) < ptr /\ call.len <= Avail
FastAppendFromSelf ==
  /\ pc = "call" /\ call.kind = "copy" /\ FitsHere
  /\ \E slop \in {0, Avail - call.len} :
       Put(Repeated(SubSeq(blocks[Last], 1, ptr), call.offset, call.len)
             \o Blank(slop), call.len)
  /\ UNCHANGED <<expected, sizes, full, src>>
  /\ UNCHANGED selfVars /\ UNCHANGED flushVars
  /\ Returns(TRUE)

SlowAppendStart ==
  /\ pc = "call" /\ call.kind = "literal" /\ call.len > Avail
  /\ src' = LiteralBytes(Size, call.len)
  /\ pc' = "slow"
  /\ UNCHANGED <<expected, call, refused, done>>
  /\ UNCHANGED blockVars /\ UNCHANGED selfVars /\ UNCHANGED flushVars

\* The caller of SlowAppend is the decompressor, which takes the result, or
\* SlowAppendFromSelf, which does not look at it.
SlowReturns(result) ==
  /\ src' = <<>>
  /\ IF pc = "slow" THEN Returns(result)
                    ELSE pc' = "self" /\ UNCHANGED <<call, refused, done>>

\* A round of SlowAppend fills the block, counts it, and makes a new one of
\* "size" bytes for the rest if there may be a rest.
SlowRound(size) ==
  LET rest == SubSeq(src, Avail + 1, Len(src))
      filled == Stored(SubSeq(src, 1, Avail))
  IN  /\ pc \in {"slow", "slowSelf"} /\ Len(src) > Avail
      /\ full' = full + Limit
      /\ UNCHANGED expected /\ UNCHANGED selfVars /\ UNCHANGED flushVars
      /\ IF full' + Len(rest) > expected
         THEN /\ blocks' = filled /\ ptr' = Limit
              /\ UNCHANGED sizes
              /\ SlowReturns(FALSE)
         ELSE /\ blocks' = Append(filled, Blank(size)) /\ ptr' = 0
              /\ sizes' = Append(sizes, size)
              /\ src' = rest
              /\ UNCHANGED <<call, refused, done, pc>>
\* (with blocks no larger than what the literal needs)
SlowAppendRoundTight == SlowRound(Least(BlockSize, Len(src) - Avail))
SlowAppendRound == SlowRound(Least(BlockSize, expected - (full + Limit)))

SlowAppendEnd == /\ pc \in {"slow", "slowSelf"} /\ Len(src) <= Avail
                 /\ Put(src, Len(src))
                 /\ UNCHANGED <<expected, sizes, full>>
                 /\ UNCHANGED selfVars /\ UNCHANGED flushVars
                 /\ SlowReturns(TRUE)

SlowAppendFromSelf ==
  /\ pc = "call" /\ call.kind = "copy" /\ ~FitsHere
  /\ UNCHANGED <<expected, src>> /\ UNCHANGED blockVars /\ UNCHANGED flushVars
  /\ IF Minus1u(call.offset) >= Size \/ expected - Size < call.len
     THEN Returns(FALSE) /\ UNCHANGED selfVars
     ELSE /\ self' = Size - call.offset /\ left' = call.len
          /\ pc' = "self"
          /\ UNCHANGED <<call, refused, done>>

\* (with the place in the block counted from 1)
SelfRoundShifted == /\ pc = "self" /\ left > 0
                    /\ src' = <<blocks[(self \div BlockSize) + 1]
                                      [IF self % BlockSize = 0 THEN 1 ELSE self % BlockSize]>>
                    /\ self' = self + 1 /\ left' = left - 1
                    /\ pc' = "slowSelf"
                    /\ UNCHANGED <<expected, call, refused, done>>
                    /\ UNCHANGED blockVars /\ UNCHANGED flushVars
\* A round reads one byte, whichever block it is in, and appends it.
SelfRound == /\ pc = "self" /\ left > 0
             /\ src' = <<blocks[(self \div BlockSize) + 1][(self % BlockSize) + 1]>>
             /\ self' = self + 1 /\ left' = left - 1
             /\ pc' = "slowSelf"
             /\ UNCHANGED <<expected, call, refused, done>>
             /\ UNCHANGED blockVars /\ UNCHANGED flushVars

SelfEnd == /\ pc = "self" /\ left = 0
           /\ UNCHANGED <<expected, src>>
           /\ UNCHANGED blockVars /\ UNCHANGED selfVars /\ UNCHANGED flushVars
           /\ Returns(TRUE)

\* The decompressor flushes when it is at the end of the stream, and also when
\* it has given up.
FlushStart == /\ pc = "idle"
              /\ pc' = "flush"
              /\ UNCHANGED <<expected, src, call, refused, done>>
              /\ UNCHANGED blockVars /\ UNCHANGED selfVars /\ UNCHANGED flushVars

\* A round of Flush(Produced()) hands a block over to the sink.
FlushRound(k) == /\ pc = "flush" /\ flushed < Last
                 /\ sink' = sink \o SubSeq(blocks[flushed + 1], 1, k)
                 /\ flushed' = flushed + 1
                 /\ UNCHANGED <<expected, src, call, refused, done, pc>>
                 /\ UNCHANGED blockVars /\ UNCHANGED selfVars
\* (with the last block handed over whole)
FlushBlockWhole == FlushRound(sizes[flushed + 1])
FlushBlock == FlushRound(Least(sizes[flushed + 1], Size - Len(sink)))

FlushEnd == /\ pc = "flush" /\ flushed = Last
            /\ pc' = "flushed"
            /\ UNCHANGED <<expected, src, call, refused, done>>
            /\ UNCHANGED blockVars /\ UNCHANGED selfVars /\ UNCHANGED flushVars

Returned == pc = "flushed" /\ UNCHANGED vars

Next == \/ \E c \in Calls : Call(c)
        \/ FastAppend \/ FastAppendFromSelf
        \/ SlowAppendStart \/ SlowAppendRound \/ SlowAppendEnd
        \/ SlowAppendFromSelf \/ SelfRound \/ SelfEnd
        \/ FlushStart \/ FlushBlock \/ FlushEnd
        \/ Returned

Spec == Init /\ [][Next]_vars

TypeOK == /\ expected \in Limits
          /\ sizes \in Seq(1 .. BlockSize) /\ blocks \in Seq(Seq(Nat))
          /\ ptr \in Nat /\ full \in Nat
          /\ src \in Seq(Nat) /\ self \in Nat /\ left \in Nat
          /\ call \in Calls \cup {NoCall} /\ refused \in BOOLEAN
          /\ pc \in {"idle", "call", "slow", "slowSelf", "self", "flush", "flushed"}
          /\ flushed \in 0 .. Last /\ sink \in Seq(Nat) /\ done \in Seq(Nat)

\* No store leaves its block.
InsideBlocks == /\ Len(blocks) = Len(sizes)
                /\ \A i \in 1 .. Last : Len(blocks[i]) = sizes[i]
                /\ ptr <= Limit

\* All of the blocks except the last have the length kBlockSize, which is what
\* makes the block of a byte its position divided by kBlockSize; and there is
\* no room for more than the expected length.
BlocksAreWhole == /\ \A i \in 1 .. Last - 1 : sizes[i] = BlockSize
                  /\ Len(Flat[Last]) <= expected

\* The sink gets what the calls that succeeded have written, whether the stream
\* was legal or not.  Behind it there may be the beginning of the literal that
\* was refused, and nothing that was never written.
SinkGetsContent ==
  pc = "flushed" => /\ SubSeq(sink, 1, Len(done)) = done
                    /\ ~refused => sink = done
                    /\ \A i \in 1 .. Len(sink) : sink[i] # 0

\* A copy across blocks gives the bytes a copy in one array would, and a call
\* that does not fit is refused: the writer is a DecompressionWriter with room
\* for the expected length.
Writer == INSTANCE DecompressionWriter WITH capacity <- expected,
                                            content <- done, dead <- refused
Implements == Writer!Spec
==============================================================================
