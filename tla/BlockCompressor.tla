--------------------------- MODULE BlockCompressor ---------------------------
(***************************************************************************)
(* Compress of a Source to a Sink, in snappy.cc: the input is cut into     *)
(* blocks, which are compressed one by one, either where the source has    *)
(* them or after they were collected in a scratch buffer.  Byte i of the   *)
(* input is i.  What CompressFragment makes of a block is left open but    *)
(* for its length, which MaxCompressedLength bounds.                       *)
(***************************************************************************)
EXTENDS Memory

CONSTANTS Sizes,      \* lengths of inputs
          Peeks,      \* lengths of the fragments Peek may return
          Beyond,     \* bytes of a fragment that may lie past Available()
          Outputs,    \* lengths that compressed blocks may have
          BlockSize,  \* kBlockSize
          Uint32s     \* how many values a uint32 has

None == -1

VARIABLES size,       \* uncompressed_size
          pos,        \* bytes of the source that were skipped
          n,          \* N: bytes that are not yet compressed
          peeked,     \* the fragment that Peek has returned last, until Skip
          pending,    \* pending_advance
          scratch,    \* scratch, or <<>> before it is allocated
          bytesRead,  \* bytes_read
          block,      \* [fragment, fragment + fragment_size) is in "peeked" or
                      \* in "scratch"
          outSize,    \* size of scratch_output, or None before it is allocated
          header,     \* the length at the start of the output
          sink,       \* blocks the sink has got, each with its compressed length
          written,    \* written
          pc

vars == <<size, pos, n, peeked, pending, scratch, bytesRead, block, outSize, header,
          sink, written, pc>>
outputVars == <<outSize, header, sink, written>>

Least(a, b) == IF a <= b THEN a ELSE b
Bytes(from, to) == [i \in 1 .. to - from |-> from + i]

MaxCompressedLength(len) == 32 + len + len \div 6

\* What Peek may return at position p: nothing iff nothing is available.
Fragments(p) == IF p = size THEN {<<>>}
                ELSE {Bytes(p, Least(p + k, size + Beyond)) : k \in Peeks}

Init == /\ size \in Sizes
        /\ pos = 0 /\ n = size /\ peeked = <<>> /\ pending = 0
        /\ scratch = <<>> /\ bytesRead = 0 /\ block = "none"
        /\ outSize = None /\ header = None /\ sink = <<>> /\ written = 0
        /\ pc = "header"

\* Varint::Encode32, which takes the length as a uint32, and the first Append: one
\* to five bytes.
AppendHeader == /\ pc = "header"
                /\ header' = size % Uint32s
                /\ \E k \in 1 .. 5 : written' = written + k
                /\ pc' = "block"
                /\ UNCHANGED <<size, pos, n, peeked, pending, scratch, bytesRead, block,
                               outSize, sink>>

NumToRead == Least(n, BlockSize)

\* Skip(k) of the source takes back what Peek has returned.
Skip(k) == pos' = pos + k /\ peeked' = IF k > 0 THEN <<>> ELSE peeked

\* The next block is used where it is if the fragment has all of it, ...
UseInPlace == /\ pc = "block" /\ n > 0
              /\ peeked' \in Fragments(pos)
              /\ Len(peeked') >= NumToRead
              /\ pending' = NumToRead
              /\ block' = "peeked"
              /\ pc' = "compress"
              /\ UNCHANGED <<size, pos, n, scratch, bytesRead>> /\ UNCHANGED outputVars

\* ... and is copied to the scratch buffer if it has only a part.  "extent" is
\* the size of the buffer if this is the first copy.
Collect(extent) ==
  /\ pc = "block" /\ n > 0
  /\ \E fragment \in Fragments(pos) :
       /\ Len(fragment) < NumToRead
       /\ scratch' = Overwrite(IF scratch = <<>> THEN Blank(extent) ELSE scratch, 0, fragment)
       /\ bytesRead' = Len(fragment)
       /\ Skip(Len(fragment))
  /\ pending' = 0
  /\ pc' = "collect"
  /\ UNCHANGED <<size, n, block>> /\ UNCHANGED outputVars
\* (with a buffer for the rest of the input, or half a block)
StartCollectingHalf == Collect(Least(n, BlockSize \div 2))
StartCollecting == Collect(NumToRead)

\* A round of the loop that copies the fragments of a block, and its end.
\* (with all of the fragment taken)
CollectMoreWhole == /\ pc = "collect" /\ bytesRead < NumToRead
                    /\ \E fragment \in Fragments(pos) :
                         /\ scratch' = Overwrite(scratch, bytesRead, fragment)
                         /\ bytesRead' = bytesRead + Len(fragment)
                         /\ Skip(Len(fragment))
                    /\ UNCHANGED <<size, n, pending, block, pc>> /\ UNCHANGED outputVars
\* (with every fragment put at the start of the buffer)
CollectMoreAtStart == /\ pc = "collect" /\ bytesRead < NumToRead
                      /\ \E fragment \in Fragments(pos) :
                           LET k == Least(Len(fragment), NumToRead - bytesRead)
                           IN  /\ scratch' = Overwrite(scratch, 0, SubSeq(fragment, 1, k))
                               /\ bytesRead' = bytesRead + k
                               /\ Skip(k)
                      /\ UNCHANGED <<size, n, pending, block, pc>> /\ UNCHANGED outputVars
\* (with nothing counted and nothing skipped)
CollectMoreInPlace == /\ pc = "collect" /\ bytesRead < NumToRead
                      /\ UNCHANGED vars
CollectMore == /\ pc = "collect" /\ bytesRead < NumToRead
               /\ \E fragment \in Fragments(pos) :
                    LET k == Least(Len(fragment), NumToRead - bytesRead)
                    IN  /\ scratch' = Overwrite(scratch, bytesRead, SubSeq(fragment, 1, k))
                        /\ bytesRead' = bytesRead + k
                        /\ Skip(k)
               /\ UNCHANGED <<size, n, pending, block, pc>> /\ UNCHANGED outputVars

Collected == /\ pc = "collect" /\ bytesRead >= NumToRead
             /\ block' = "scratch"
             /\ pc' = "compress"
             /\ UNCHANGED <<size, pos, n, peeked, pending, scratch, bytesRead>>
             /\ UNCHANGED outputVars

\* CompressFragment of [fragment, fragment + num_to_read) to the buffer that
\* the sink provides or to scratch_output, and Append.
\* (with the block's bytes counted, not those of the output)
CompressBlockCounted ==
  /\ pc = "compress"
  /\ outSize' = IF outSize = None THEN MaxCompressedLength(NumToRead) ELSE outSize
  /\ \E k \in Outputs :
       /\ k <= MaxCompressedLength(NumToRead)
       /\ sink' = Append(sink, [bytes |-> SubSeq(IF block = "peeked" THEN peeked ELSE scratch,
                                                 1, NumToRead),
                                len |-> k])
       /\ written' = written + NumToRead
  /\ pc' = "advance"
  /\ UNCHANGED <<size, pos, n, peeked, pending, scratch, bytesRead, block, header>>
CompressBlock ==
  /\ pc = "compress"
  /\ outSize' = IF outSize = None THEN MaxCompressedLength(NumToRead) ELSE outSize
  /\ \E k \in Outputs :
       /\ k <= MaxCompressedLength(NumToRead)
       /\ sink' = Append(sink, [bytes |-> SubSeq(IF block = "peeked" THEN peeked ELSE scratch,
                                                 1, NumToRead),
                                len |-> k])
       /\ written' = written + k
  /\ pc' = "advance"
  /\ UNCHANGED <<size, pos, n, peeked, pending, scratch, bytesRead, block, header>>

Advance == /\ pc = "advance"
           /\ n' = n - NumToRead
           /\ Skip(pending)
           /\ block' = "none"
           /\ pc' = "block"
           /\ UNCHANGED <<size, pending, scratch, bytesRead>> /\ UNCHANGED outputVars

Finish == /\ pc = "block" /\ n = 0
          /\ pc' = "done"
          /\ UNCHANGED <<size, pos, n, peeked, pending, scratch, bytesRead, block>>
          /\ UNCHANGED outputVars

Returned == pc = "done" /\ UNCHANGED vars

Next == \/ AppendHeader \/ UseInPlace \/ StartCollecting \/ CollectMore \/ Collected
        \/ CompressBlock \/ Advance \/ Finish \/ Returned

Spec == Init /\ [][Next]_vars /\ WF_vars(Next)

-----------------------------------------------------------------------------

TypeOK == /\ size \in Sizes /\ pos \in 0 .. size + Beyond /\ n \in 0 .. size
          /\ peeked \in Seq(Nat) /\ pending \in 0 .. BlockSize
          /\ scratch \in Seq(Nat) /\ bytesRead \in Nat
          /\ block \in {"none", "peeked", "scratch"}
          /\ outSize \in Nat \cup {None} /\ header \in {None} \cup 0 .. Uint32s - 1
          /\ sink \in Seq([bytes : Seq(Nat), len : Nat]) /\ written \in Nat
          /\ pc \in {"header", "block", "collect", "compress", "advance", "done"}

\* No more is taken from the source than it has available, whatever lies behind
\* in its last fragment, and all of it is taken when the function returns.
ConsumedExactly == /\ pos <= size
                   /\ pc \in {"header", "block", "done"} => pos = size - n
                   /\ pc = "collect" => pos = size - n + bytesRead

\* The buffers that are allocated once are large enough for every later block,
\* and no store leaves them; a fragment is not used after Skip took it back.
BuffersSuffice == /\ scratch # <<>> => Len(scratch) <= BlockSize
                  /\ pc = "collect" => Len(scratch) >= NumToRead
                  /\ pc = "advance" => outSize >= MaxCompressedLength(NumToRead)
                  /\ pc = "compress" /\ block = "peeked" => Len(peeked) >= NumToRead

\* The blocks in the sink are the input, in order, in pieces of kBlockSize but
\* for the last, which has at least a byte: no copy in a block can reach into
\* another.  The length in front of them is that of the input if it fits a uint32,
\* and another one otherwise, of which nobody is told.
BlocksAreInput ==
  /\ \A i \in 1 .. Len(sink) :
       /\ (i - 1) * BlockSize < size
       /\ sink[i].bytes = Bytes((i - 1) * BlockSize, Least(i * BlockSize, size))
  /\ pc = "done" => /\ Len(sink) * BlockSize >= size
                    /\ header = size <=> size < Uint32s

\* The result is what the sink has got: the header of 1 to 5 bytes and the
\* blocks.
Total == LET sum[k \in 0 .. Len(sink)] == IF k = 0 THEN 0 ELSE sum[k - 1] + sink[k].len
         IN  sum[Len(sink)]
WrittenIsAppended == pc # "header" => written - Total \in 1 .. 5

\* Compress returns, if the source keeps its promise to have something to peek
\* at as long as something is available.
Terminates == <>(pc = "done")
==============================================================================
