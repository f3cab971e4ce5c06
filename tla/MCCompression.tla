---------------------------- MODULE MCCompression ----------------------------
(* The parts of the compressor, one of which runs: FindMatchLength in either  *)
(* version, CompressFragment on one block, and Compress, which cuts its input *)
(* into blocks.                                                               *)
EXTENDS FindMatchLength, Sequences

CONSTANTS Inputs, Hash(_, _), MinTable, MaxTable,   \* of Compressor
          Sizes, Peeks, Beyond, Outputs, BlockSize, Uint32s  \* of BlockCompressor

VARIABLES part,
          input, table, ip, nextIp, nextHash, skip, candidate, nextEmit, offset, left,
          lessThan12, op, out, reach, readEnd, fragmentPc,
          size, pos, n, peeked, pending, scratch, bytesRead, block, outSize, header,
          sink, written, blocksPc

(***************************************************************************)
(* Blocks of input for Compressor: no 4 bytes twice, short and long        *)
(* periods, and periods that are broken in one place or that begin late.   *)
(***************************************************************************)
\* Distinct bytes: nothing matches.
Distinct(len) == [i \in 1 .. len |-> i]

\* Period k, with byte "at" changed.
Periodic(len, k, at) == [i \in 1 .. len |-> IF i = at THEN 99 ELSE i % k]

\* "lead" distinct bytes, then a match of "len" bytes from "back" bytes behind,
\* then "tail" new bytes.
Late(lead, back, len, tail) ==
  [i \in 1 .. lead + len + tail |->
     IF i <= lead THEN i
     ELSE IF i <= lead + len THEN lead - back + 1 + ((i - lead - 1) % back)
     ELSE 250 - i]

\* Long blocks without a match but for "len" bytes at position "to" that are
\* also at position "from": both are positions the scan looks up, which takes
\* longer and longer steps and needs a long tail to get there.
Far(from, to, len, tail) ==
  [i \in 1 .. to + len + tail |->
     IF i - 1 \in from .. from + len - 1 THEN 251 + (i - 1 - from)
     ELSE IF i - 1 \in to .. to + len - 1 THEN 251 + (i - 1 - to)
     ELSE IF i % 2 = 0 THEN (i \div 2) % 250 ELSE i \div 500]

AllBlocks ==
  {Distinct(len) : len \in {0, 1, 14, 15, 16, 60, 61, 90, 200}}
    \cup {Periodic(len, k, at) : len \in {15, 19, 22, 34}, k \in {1, 2, 3, 5}, at \in 0 .. 34}
    \cup {Late(lead, back, len, tail) : lead \in {5, 20, 40, 70}, back \in {1, 4, 5},
                                        len \in {4, 7, 8, 11, 12, 13, 64, 65, 67, 68, 69, 70,
                                                 128, 132},
                                        tail \in {0, 3, 15, 20}}
    \cup {Far(63, 2110, 4, 90), Far(63, 2110, 5, 90), Far(340, 2388, 5, 90)}

\* The same as sequences, which TLC compares faster.
MCInputs == {SubSeq(s, 1, Len(s)) : s \in AllBlocks}

\* Words are spread over the table unevenly, so that there are collisions; one
\* bucket is for the words of Far.
MCHash(word, buckets) ==
  IF word[1] = 251 THEN buckets - 1
  ELSE (word[1] + 3 * word[2] + word[3] * word[4]) % (buckets - 1)

Fragment == INSTANCE Compressor WITH pc <- fragmentPc
Blocks == INSTANCE BlockCompressor WITH pc <- blocksPc

ASSUME InputsAssumption ==
  \A s \in Inputs : s \in Seq(Fragment!Byte) /\ Len(s) <= Fragment!kBlockSize
ASSUME HashAssumption ==
  \A s \in Inputs : \A p \in 0 .. Len(s) - 4 :
     LET buckets == Fragment!TableSize(Len(s))
     IN  Hash(Fragment!Load32(s, p), buckets) \in 0 .. buckets - 1
ASSUME TableAssumption == MinTable \in Nat \ {0} /\ MaxTable \in Nat \ {0}
ASSUME SourceAssumption == /\ Sizes \subseteq Nat /\ Beyond \in Nat
                           /\ Peeks \subseteq Nat \ {0} /\ Peeks # {}
ASSUME OutputsAssumption == Outputs \subseteq Nat \ {0} /\ BlockSize \in Nat \ {0}
ASSUME HeaderAssumption == Uint32s \in Nat \ {0}

fragmentVars == <<input, table, ip, nextIp, nextHash, skip, candidate, nextEmit, offset,
                  left, lessThan12, op, out, reach, readEnd, fragmentPc>>
blocksVars == <<size, pos, n, peeked, pending, scratch, bytesRead, block, outSize, header,
                sink, written, blocksPc>>
allVars == <<part, vars, fragmentVars, blocksVars>>

One(S) == CHOOSE x \in S : TRUE
MatchWaits == length = One(Lengths) /\ Init
FragmentWaits == input = One(Inputs) /\ Fragment!Init
BlocksWait == size = One(Sizes) /\ Blocks!Init

AnyInit == \/ part \in {"words", "halves"} /\ Init /\ FragmentWaits /\ BlocksWait
           \/ part = "fragment" /\ MatchWaits /\ Fragment!Init /\ BlocksWait
           \/ part = "blocks" /\ MatchWaits /\ FragmentWaits /\ Blocks!Init

OnlyMatch == UNCHANGED <<part, fragmentVars, blocksVars>>
OnlyBlocks == part = "blocks" /\ UNCHANGED <<part, vars, fragmentVars>>

WordsRun == part = "words" /\ OnlyMatch /\ Next
HalvesRun == part = "halves" /\ OnlyMatch /\ Next32
FragmentRuns == part = "fragment" /\ UNCHANGED <<part, vars, blocksVars>> /\ Fragment!Next
BlocksRun == OnlyBlocks /\ Blocks!Next

AnyNext == WordsRun \/ HalvesRun \/ FragmentRuns \/ BlocksRun

AnySpec == AnyInit /\ [][AnyNext]_allVars /\ WF_allVars(BlocksRun)

(***************************************************************************)
(* Properties, beside LongestMatch                                         *)
(***************************************************************************)
\* The types, and the assertions of CompressFragment.
Assertions == TypeOK /\ Fragment!TypeOK /\ Blocks!TypeOK /\ Fragment!Assertions

\* What CompressFragment has written decodes to what it has taken of its input.
RoundTrip == Fragment!RoundTrip

\* The fast paths of CompressFragment stay in the input and in the output buffer,
\* and the buffers that Compress allocates once suffice for every block.
InsideBuffers == Fragment!InsideBuffers /\ Blocks!BuffersSuffice

\* Compress takes from its source what it has available and no more, makes its
\* blocks of just that, and returns how much it has appended to the sink.
BlocksAreInput == Blocks!ConsumedExactly /\ Blocks!BlocksAreInput /\ Blocks!WrittenIsAppended

\* Compress returns.
Terminates == part = "blocks" => Blocks!Terminates
==============================================================================
