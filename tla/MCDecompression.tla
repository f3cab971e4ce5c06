--------------------------- MODULE MCDecompression ---------------------------
(* The parts of the decompressor, one of which runs: the functions that       *)
(* uncompress a whole buffer, IncrementalCopy, SnappyDecompressor on a        *)
(* Source, and the writers that it calls.                                     *)
EXTENDS Uncompress, IncrementalCopy, SequencesExt

CONSTANTS Streams, StreamLengths(_), Peeks,   \* of Decompressor, for short streams
          TagStreams, TagLengths(_), TagPeeks, \* and for long ones
          ArrayLengths, ArrayOffsets, ArrayWide, ArrayLimits,
          IOVecLengths, IOVecOffsets, IOVecWide, IOVecLimits, IOVecBuffers,
          BlocksLengths, BlocksOffsets, BlocksWide, BlocksLimits, BlockSize

VARIABLES part,
          \* of Decompressor
          stream, expected, streamPos, peeked, buf, slack, needed, litLeft, eof, out, ok,
          streamPc,
          \* of ArrayWriter
          array, arrayOp, arrayLimit, arrayRefused, arrayProduced, invalid, arrayCall,
          arrayDone,
          \* of IOVecWriter
          len, iov, curr, written, total, iovLimit, iovCall, iovSrc, from, fromOffset, back,
          iovLeft, iovPc, iovRefused, spoiled, iovDone,
          \* of ScatteredWriter
          blocksLimit, sizes, blocks, ptr, full, blocksSrc, self, blocksLeft, blocksCall,
          blocksRefused, blocksPc, flushed, sink, blocksDone

(***************************************************************************)
(* Headers for Uncompress: up to six bytes that go on, with and without a  *)
(* last one, and the encodings of small and large numbers; bodies that     *)
(* produce what the header says, more or less of it.                       *)
(***************************************************************************)
MCNumbers == {[d EXCEPT ![5] = k] : d \in [1 .. 5 -> {0, 127}], k \in {0, 15}}
               \cup {<<1, 0, 0, 0, 0>>, <<0, 0, 1, 0, 0>>, <<5, 0, 0, 0, 15>>}

GoingOn == SeqOf({128, 255}, 5) \cup {<<128, 128, 128, 128, 143, 1>>}
MCHeaders == GoingOn \cup {Append(s, c) : s \in SeqOf({128, 255}, 5), c \in {0, 15, 16}}
                     \cup {Encode(d) : d \in MCNumbers}

MCBodies(h) ==
  IF Parse(h) = None THEN {[yields |-> 0, last |-> 0, clean |-> TRUE]}
  ELSE LET v == Value(Parse(h))
           b(y, l) == {[yields |-> y, last |-> l, clean |-> c] : c \in BOOLEAN}
       IN  b(0, 0) \cup b(v, IF v > 0 THEN 1 ELSE 0) \cup b(v + 2, 3 - (IF v > 0 THEN 0 ELSE 1))
             \cup (IF v > 0 THEN b(v - 1, 0) ELSE {})

(***************************************************************************)
(* Streams for Decompressor: every kind of tag in every order, legal and   *)
(* illegal, cut off anywhere.                                              *)
(***************************************************************************)
Bytes(k) == [i \in 1 .. k |-> 100 + i]

\* Literals whose length is in the tag or in 1 to 4 bytes behind it.
Literals == {<<0, 7>>, <<8>> \o Bytes(3), <<240, 1>> \o Bytes(2),
             <<244, 0, 0>> \o Bytes(1), <<248, 2, 0, 0>> \o Bytes(3),
             <<252, 1, 0, 0, 0>> \o Bytes(2)}

\* Copies with offsets in 1, 2 and 4 bytes; an offset of 0 and one before the
\* start of the output are illegal.
Copies == {<<1, 1>>, <<5, 2>>, <<1, 0>>, <<14, 2, 0>>, <<2, 9, 0>>, <<10, 0, 1>>,
           <<3, 1, 0, 0, 0>>, <<19, 3, 0, 0, 0>>}

Elements == Literals \cup Copies

MCStreams ==
  LET two == {a \o b : a \in Literals, b \in Elements}
      three == {a \o b \o c : a \in {<<0, 7>>, <<8>> \o Bytes(3)}, b \in Elements, c \in Copies}
  IN  {<<>>} \cup UNION {{SubSeq(s, 1, k) : k \in 1 .. Len(s)} : s \in two} \cup three
        \cup {<<240, 60>> \o Bytes(61), <<76>> \o Bytes(20) \o <<1, 1, 0, 7>>,
              <<0, 7, 252, 254, 255, 255, 255>>, <<0, 7, 252, 255, 255, 255, 255>>}

Format == INSTANCE SnappyFormat

\* The length the reference makes of the stream, and lengths beside it.
MCStreamLengths(s) == LET k == Len(Format!Decode(s, 100).out)
                      IN  {k, k + 1} \cup (IF k > 0 THEN {k - 1} ELSE {})

\* Every tag byte, after a literal longer than any offset in a tag and before
\* one more literal.
Element(c) == LET extra == SubSeq(<<3, 0, 0, 0>>, 1, Format!TagExtra(c))
              IN  IF ~Format!IsLiteral(c) THEN <<c>> \o extra
                  ELSE IF c \div 4 < 60 THEN <<c>> \o Bytes((c \div 4) + 1)
                  ELSE <<c>> \o extra \o Bytes(4)
MCTagStreams ==
  {<<244, 252, 7>> \o [i \in 1 .. 2045 |-> (i \div 2) % 251] \o Element(c) \o <<4>> \o Bytes(2)
     : c \in Byte}
MCTagLengths(s) == {Len(Format!Decode(s, 3000).out)}

\* The same decompressor, on short streams in fragments of any length and on
\* the long ones in two fragments.
Stream == INSTANCE Decompressor WITH
            Expected <- StreamLengths, pos <- streamPos, pc <- streamPc
Tags == INSTANCE Decompressor WITH
            Streams <- TagStreams, Expected <- TagLengths, Peeks <- TagPeeks,
            pos <- streamPos, pc <- streamPc

ASSUME StreamsAssumption == /\ Streams \subseteq Seq(Byte) /\ TagStreams \subseteq Seq(Byte)
                            /\ \A s \in Streams : StreamLengths(s) \subseteq Nat
                            /\ \A s \in TagStreams : TagLengths(s) \subseteq Nat
                            /\ Peeks \subseteq Nat \ {0} /\ TagPeeks \subseteq Nat \ {0}

(***************************************************************************)
(* The writers.                                                            *)
(***************************************************************************)
Array == INSTANCE ArrayWriter WITH
            Lengths <- ArrayLengths, Offsets <- ArrayOffsets, Wide <- ArrayWide,
            Limits <- ArrayLimits,
            buf <- array, op <- arrayOp, limit <- arrayLimit, refused <- arrayRefused,
            produced <- arrayProduced, call <- arrayCall, done <- arrayDone

\* Empty, small and large buffers in several orders.
MCBuffers == {<<5>>, <<2, 3>>, <<1, 0, 3>>, <<3, 0, 1, 2>>, <<0, 4, 2>>, <<1, 1, 1, 1, 1>>}

IOVec == INSTANCE IOVecWriter WITH
            Lengths <- IOVecLengths, Offsets <- IOVecOffsets, Wide <- IOVecWide,
            Limits <- IOVecLimits, Buffers <- IOVecBuffers,
            limit <- iovLimit, call <- iovCall, src <- iovSrc, left <- iovLeft, pc <- iovPc,
            refused <- iovRefused, done <- iovDone

Blocks == INSTANCE ScatteredWriter WITH
            Lengths <- BlocksLengths, Offsets <- BlocksOffsets, Wide <- BlocksWide,
            Limits <- BlocksLimits,
            expected <- blocksLimit, src <- blocksSrc, left <- blocksLeft, call <- blocksCall,
            refused <- blocksRefused, pc <- blocksPc, done <- blocksDone

\* A literal whose length wraps around to 0 is a call as well.  Numbers are below
\* the one that stands for an offset of 0 less 1.
ASSUME WritersAssumption ==
  /\ ArrayLengths \cup IOVecLengths \cup BlocksLengths \subseteq Nat
  /\ ArrayOffsets \cup IOVecOffsets \cup BlocksOffsets \subseteq Nat
  /\ {ArrayWide, IOVecWide, BlocksWide, BlockSize} \subseteq Nat \ {0}
  /\ ArrayLimits \cup IOVecLimits \cup BlocksLimits \subseteq 0 .. Array!MaxSize
  /\ IOVecBuffers \subseteq Seq(Nat) \ {<<>>}

(***************************************************************************)
(* One part runs, and the others wait in one of their initial states.      *)
(***************************************************************************)
streamVars == <<stream, expected, streamPos, peeked, buf, slack, needed, litLeft, eof, out, ok,
                streamPc>>
arrayVars == <<array, arrayOp, arrayLimit, arrayRefused, arrayProduced, invalid, arrayCall,
               arrayDone>>
iovVars == <<len, iov, curr, written, total, iovLimit, iovCall, iovSrc, from, fromOffset, back,
             iovLeft, iovPc, iovRefused, spoiled, iovDone>>
blocksVars == <<blocksLimit, sizes, blocks, ptr, full, blocksSrc, self, blocksLeft, blocksCall,
                blocksRefused, blocksPc, flushed, sink, blocksDone>>
allVars == <<part, vars, copyVars, streamVars, arrayVars, iovVars, blocksVars>>

One(S) == CHOOSE x \in S : TRUE
CallWaits == part # "call" => api = "validate" /\ header = One(Headers) /\ body = One(Bodies(header))
CopyWaits == part # "copy" => /\ src = One(Sources) /\ period = One(Patterns)
                              /\ start = src + period
                              /\ opLimit = start + One(Lengths)
                              /\ bufLimit = opLimit + One(Slops)
FirstStream == One(Streams)
FirstLength == One(StreamLengths(FirstStream))
StreamWaits == part \notin {"stream", "tags"} => stream = FirstStream /\ expected = FirstLength
StreamInit == IF part = "tags" THEN Tags!Init ELSE Stream!Init
ArrayWaits == part # "array" => arrayLimit = One(ArrayLimits)
IOVecWaits == part # "iovec" => len = One(IOVecBuffers) /\ iovLimit = One(IOVecLimits)
BlocksWait == part # "blocks" => blocksLimit = One(BlocksLimits)

AnyInit == /\ part \in {"call", "copy", "stream", "tags", "array", "iovec", "blocks"}
           /\ CallWaits /\ Init
           /\ CopyWaits /\ CopyInit
           /\ StreamWaits /\ StreamInit
           /\ ArrayWaits /\ Array!Init
           /\ IOVecWaits /\ IOVec!Init
           /\ BlocksWait /\ Blocks!Init

CallRuns == part = "call" /\ Next /\ UNCHANGED <<part, copyVars, streamVars, arrayVars,
                                                 iovVars, blocksVars>>
CopyRuns == part = "copy" /\ CopyNext /\ UNCHANGED <<part, vars, streamVars, arrayVars,
                                                     iovVars, blocksVars>>
OnlyStream == UNCHANGED <<part, vars, copyVars, arrayVars, iovVars, blocksVars>>
StreamRuns == OnlyStream /\ \/ part = "stream" /\ Stream!Next
                            \/ part = "tags" /\ Tags!Next
ArrayRuns == part = "array" /\ Array!Next /\ UNCHANGED <<part, vars, copyVars, streamVars,
                                                         iovVars, blocksVars>>
IOVecRuns == part = "iovec" /\ IOVec!Next /\ UNCHANGED <<part, vars, copyVars, streamVars,
                                                         arrayVars, blocksVars>>
BlocksRun == part = "blocks" /\ Blocks!Next /\ UNCHANGED <<part, vars, copyVars, streamVars,
                                                           arrayVars, iovVars>>

AnyNext == CallRuns \/ CopyRuns \/ StreamRuns \/ ArrayRuns \/ IOVecRuns \/ BlocksRun

AnySpec == /\ AnyInit /\ [][AnyNext]_allVars
           /\ WF_allVars(CopyRuns) /\ WF_allVars(StreamRuns) /\ WF_allVars(IOVecRuns)

(***************************************************************************)
(* Properties, beside LengthsAgree, NeverOverrun, CallsAreExact,           *)
(* InsideBuffer and ResultIsPattern                                        *)
(***************************************************************************)
\* The types; every buffer of a writer keeps its size: no fast append and no copy
\* stores anything behind its end.
TypesAndSizesOK ==
  /\ TypeOK /\ CopyTypeOK /\ Stream!TypeOK
  /\ Array!TypeOK /\ IOVec!TypeOK /\ Blocks!TypeOK
  /\ Array!InsideArray /\ IOVec!InsideBuffers /\ Blocks!InsideBlocks

\* However the source cuts the stream into fragments: what is buffered is what
\* comes next, a tag is read when it is whole, and the result is the reference's.
StreamIsDecoded == Stream!BufferIsNext /\ Stream!TagReadable /\ Stream!ResultIsReference

\* What the iovec writer counts is what its buffers hold; the length check finds
\* bytes that went nowhere; the validator says what the array writer would; the
\* scattered writer's blocks hold what was written, and the sink gets it.  (After a
\* refusal the scattered writer counts its last block twice: the sink gets no more
\* for that, and the number that its caller is told is left out.)
WritersAgree == /\ Array!SameVerdict
                /\ IOVec!TotalIsWritten /\ IOVec!SpoiledIsIncomplete
                /\ Blocks!BlocksAreWhole /\ Blocks!SinkGetsContent

\* Each writer is a DecompressionWriter.
WritersImplement == Array!Implements /\ IOVec!Implements /\ Blocks!Implements

\* IncrementalCopy, the decompressor and the calls of the iovec writer return.
PartsEnd == /\ part = "copy" => CopyReturns
            /\ part \in {"stream", "tags"} => Stream!Terminates
            /\ IOVec!CallsReturn
==============================================================================
