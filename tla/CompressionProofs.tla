-------------------------- MODULE CompressionProofs --------------------------
(* FindMatchLength keeps its contract, Compress hands just its input over in   *)
(* blocks, and CompressFragment stays inside its buffers and writes what       *)
(* decodes to its input, whatever the input, the source, the hash function and *)
(* the sizes of words, tables and blocks.                                      *)
EXTENDS MCCompression, TLAPS

\* The lemmas about the format, and the one about least elements.
Format == INSTANCE SnappyFormatProofs

-----------------------------------------------------------------------------
(* FindMatchLength *)

(***************************************************************************)
(* The inductive invariants: everything before "matched" is equal, and the *)
(* byte loop starts, in one version, with a whole word behind it or less   *)
(* than a word to go and, in the other, with a half word that differs or   *)
(* less than one.                                                          *)
(***************************************************************************)
Prefix == \A i \in 0 .. matched - 1 : same[i]
MatchInv == TypeOK /\ Prefix /\ LongestMatch

WordsInv == /\ pc = "first" => matched = 0
            /\ pc = "words" => matched >= Word \/ ~WordLeft(Word)
HalvesInv == pc = "words" => ~(WordLeft(Half) /\ WordsEqual(Half))

LEMMA MatchNumbers ==
  ASSUME TypeOK
  PROVE  /\ length \in Nat /\ matched \in Nat /\ matched <= length
         /\ Word \in Nat /\ Word >= 1 /\ Half \in Nat /\ Half >= 1
BY WordAssumption, LengthsAssumption DEF TypeOK

\* A word that does not agree has a first byte that differs, and the CHOOSE
\* of FirstDifferent finds it.
LEMMA FirstDifferentExists ==
  ASSUME TypeOK, Prefix, NEW w \in {Word, Half}, WordLeft(w), ~WordsEqual(w)
  PROVE  /\ FirstDifferent(w) \in matched .. matched + w - 1
         /\ ~same[FirstDifferent(w)]
         /\ \A j \in 0 .. FirstDifferent(w) - 1 : same[j]
<1> DEFINE B == {i \in matched .. matched + w - 1 : ~same[i]}
           P(i) == ~same[i] /\ \A j \in matched .. i - 1 : same[j]
<1>1. length \in Nat /\ matched \in Nat /\ w \in Nat /\ matched + w <= length
  BY MatchNumbers DEF WordLeft
<1>2. B \in SUBSET Nat /\ B # {}
  BY <1>1 DEF WordsEqual
<1>3. PICK x \in B : \A y \in B : x <= y
  BY <1>2, Format!LeastOfNat
<1>4. x \in matched .. matched + w - 1 /\ P(x)
  BY <1>1, <1>3 DEF TypeOK
<1>5. /\ FirstDifferent(w) \in matched .. matched + w - 1
      /\ P(FirstDifferent(w))
  BY <1>4 DEF FirstDifferent
<1>6. ASSUME NEW j \in 0 .. FirstDifferent(w) - 1 PROVE same[j]
  <2> DEFINE d == FirstDifferent(w)
  <2>1. d \in Int /\ matched <= d /\ j \in 0 .. d - 1
    BY <1>1, <1>5
  <2>2. P(d)
    BY <1>5
  <2> HIDE DEF d
  <2>3. j \in 0 .. matched - 1 \/ j \in matched .. d - 1
    BY <1>1, <2>1
  <2>4. QED
    BY <2>2, <2>3 DEF Prefix
<1>7. QED
  BY <1>5, <1>6

\* A word, or a byte, that agrees is passed.
LEMMA PassKeeps ==
  ASSUME MatchInv, NEW k \in Nat, NEW next \in {"first", "words", "bytes"}, Advance(k, next),
         matched + k <= length, \A i \in matched .. matched + k - 1 : same[i]
  PROVE  MatchInv' /\ matched' = matched + k /\ pc' = next /\ UNCHANGED <<length, same>>
<1>1. length \in Nat /\ matched \in Nat /\ TypeOK /\ Prefix
  BY MatchNumbers DEF MatchInv
<1>2. TypeOK'
  BY <1>1 DEF Advance, TypeOK
<1>3. Prefix'
  BY <1>1 DEF Advance, Prefix
<1> QED
  BY <1>2, <1>3 DEF MatchInv, Advance, LongestMatch

\* A return with the longest match and the right flag.
LEMMA ReturnKeeps ==
  ASSUME MatchInv, NEW k \in 0 .. length, NEW isShort \in BOOLEAN, Return(k, isShort),
         \A i \in 0 .. k - 1 : same[i], k < length => ~same[k], isShort <=> k < Word
  PROVE  MatchInv' /\ pc' = "done"
<1>1. TypeOK'
  BY DEF MatchInv, Return, TypeOK
<1> QED
  BY <1>1 DEF MatchInv, Return, Prefix, LongestMatch

LEMMA ByteStep ==
  ASSUME MatchInv, NextByte
  PROVE  MatchInv' /\ pc' \in {"bytes", "done"}
<1>1. /\ length \in Nat /\ matched \in Nat /\ matched <= length /\ Word \in Nat /\ TypeOK /\ Prefix
  BY MatchNumbers DEF MatchInv
<1>2. CASE matched < length /\ same[matched] /\ Advance(1, "bytes")
  <2>1. \A i \in matched .. matched + 1 - 1 : same[i]
    BY <1>1, <1>2
  <2> QED
    BY <1>1, <1>2, <2>1, PassKeeps
<1>3. ASSUME matched < length => ~same[matched], Return(matched, matched < Word)
      PROVE  MatchInv' /\ pc' = "done"
  <2>1. matched \in 0 .. length /\ (matched < Word) \in BOOLEAN /\ \A i \in 0 .. matched - 1 : same[i]
    BY <1>1 DEF Prefix
  <2> QED
    BY <1>3, <2>1, ReturnKeeps
<1> QED
  BY <1>1, <1>2, <1>3 DEF NextByte

LEMMA MatchStutters ==
  ASSUME MatchInv, UNCHANGED vars
  PROVE  MatchInv' /\ (WordsInv => WordsInv') /\ (HalvesInv => HalvesInv')
BY DEF vars, MatchInv, TypeOK, Prefix, LongestMatch, WordsInv, HalvesInv, WordLeft, WordsEqual

LEMMA WordsNext == MatchInv /\ WordsInv /\ [Next]_vars => (MatchInv /\ WordsInv)'
<1> SUFFICES ASSUME MatchInv, WordsInv, [Next]_vars PROVE (MatchInv /\ WordsInv)'
  OBVIOUS
<1>1. /\ length \in Nat /\ matched \in Nat /\ matched <= length
      /\ Word \in Nat /\ Word >= 1 /\ TypeOK /\ Prefix
  BY MatchNumbers DEF MatchInv
\* What the two loops over words have in common.
<1>2. ASSUME pc \in {"first", "words"}, NEW next \in {"words", "bytes"},
             pc = "first" => next = "words",
             \/ ~WordLeft(Word) /\ Advance(0, next)
             \/ WordLeft(Word) /\ WordsEqual(Word) /\ Advance(Word, "words")
             \/ WordLeft(Word) /\ ~WordsEqual(Word) /\ Return(FirstDifferent(Word), pc = "first")
      PROVE  (MatchInv /\ WordsInv)'
  <2>1. CASE ~WordLeft(Word) /\ Advance(0, next)
    <3>1. MatchInv' /\ matched' = matched /\ pc' = next /\ length' = length
      BY <1>1, <2>1, PassKeeps
    <3> QED
      BY <1>2, <2>1, <3>1 DEF WordsInv, WordLeft
  <2>2. CASE WordLeft(Word) /\ WordsEqual(Word) /\ Advance(Word, "words")
    <3>1. MatchInv' /\ matched' = matched + Word /\ pc' = "words"
      BY <1>1, <2>2, PassKeeps DEF WordLeft, WordsEqual
    <3> QED
      BY <1>1, <3>1 DEF WordsInv
  <2>3. CASE WordLeft(Word) /\ ~WordsEqual(Word) /\ Return(FirstDifferent(Word), pc = "first")
    <3>1. /\ FirstDifferent(Word) \in matched .. matched + Word - 1
          /\ ~same[FirstDifferent(Word)]
          /\ \A j \in 0 .. FirstDifferent(Word) - 1 : same[j]
      BY <1>1, <2>3, FirstDifferentExists
    <3>2. FirstDifferent(Word) \in 0 .. length /\ (pc = "first" <=> FirstDifferent(Word) < Word)
      BY <1>1, <1>2, <2>3, <3>1 DEF WordLeft, WordsInv
    <3>3. MatchInv' /\ pc' = "done"
      BY <2>3, <3>1, <3>2, ReturnKeeps
    <3> QED
      BY <3>3 DEF WordsInv
  <2> QED
    BY <1>2, <2>1, <2>2, <2>3
<1>3. CASE FirstWord
  <2>1. (pc = "first") = TRUE
    BY <1>3 DEF FirstWord
  <2> QED
    BY <1>2, <1>3, <2>1 DEF FirstWord
<1>4. CASE NextWord
  <2>1. (pc = "first") = FALSE
    BY <1>4 DEF NextWord
  <2> QED
    BY <1>2, <1>4, <2>1 DEF NextWord
<1>5. CASE NextByte
  BY <1>5, ByteStep DEF WordsInv
<1>6. CASE Returned \/ UNCHANGED vars
  BY <1>6, MatchStutters DEF Returned
<1> QED
  BY <1>3, <1>4, <1>5, <1>6 DEF Next

LEMMA HalvesNext == MatchInv /\ HalvesInv /\ [Next32]_vars => (MatchInv /\ HalvesInv)'
<1> SUFFICES ASSUME MatchInv, HalvesInv, [Next32]_vars PROVE (MatchInv /\ HalvesInv)'
  OBVIOUS
<1>1. /\ length \in Nat /\ matched \in Nat /\ matched <= length
      /\ Word \in Nat /\ Half \in Nat /\ Half >= 1 /\ TypeOK /\ Prefix
  BY MatchNumbers DEF MatchInv
<1>2. CASE NextHalf
  <2>1. CASE WordLeft(Half) /\ WordsEqual(Half)
    <3>1. Advance(Half, "first")
      BY <1>2, <2>1 DEF NextHalf
    <3>2. MatchInv' /\ pc' = "first"
      BY <1>1, <2>1, <3>1, PassKeeps DEF WordLeft, WordsEqual
    <3> QED
      BY <3>2 DEF HalvesInv
  <2>2. CASE ~(WordLeft(Half) /\ WordsEqual(Half))
    <3>1. Advance(0, "words")
      BY <1>2, <2>2 DEF NextHalf
    <3>2. MatchInv' /\ matched' = matched + 0 /\ UNCHANGED <<length, same>>
      BY <1>1, <3>1, PassKeeps
    <3>3. matched' = matched
      BY <1>1, <3>2
    <3> QED
      BY <2>2, <3>2, <3>3 DEF HalvesInv, WordLeft, WordsEqual
  <2> QED
    BY <2>1, <2>2
<1>3. CASE LastHalf
  <2>1. pc = "words" /\ ~(WordLeft(Half) /\ WordsEqual(Half))
    BY <1>3 DEF LastHalf, HalvesInv
  <2>2. PICK little \in LittleEndian :
          \/ little /\ WordLeft(Half) /\ Return(FirstDifferent(Half), FirstDifferent(Half) < Word)
          \/ ~(little /\ WordLeft(Half)) /\ Advance(0, "bytes")
    BY <1>3 DEF LastHalf
  <2>3. CASE WordLeft(Half) /\ Return(FirstDifferent(Half), FirstDifferent(Half) < Word)
    <3>1. /\ FirstDifferent(Half) \in matched .. matched + Half - 1
          /\ ~same[FirstDifferent(Half)]
          /\ \A j \in 0 .. FirstDifferent(Half) - 1 : same[j]
      BY <1>1, <2>1, <2>3, FirstDifferentExists
    <3>2. FirstDifferent(Half) \in 0 .. length /\ (FirstDifferent(Half) < Word) \in BOOLEAN
      BY <1>1, <2>3, <3>1 DEF WordLeft
    <3>3. MatchInv' /\ pc' = "done"
      BY <2>3, <3>1, <3>2, ReturnKeeps
    <3> QED
      BY <3>3 DEF HalvesInv
  <2>4. CASE Advance(0, "bytes")
    <3>1. MatchInv' /\ pc' = "bytes"
      BY <1>1, <2>4, PassKeeps
    <3> QED
      BY <3>1 DEF HalvesInv
  <2> QED
    BY <2>2, <2>3, <2>4
<1>4. CASE NextByte
  BY <1>4, ByteStep DEF HalvesInv
<1>5. CASE Returned \/ UNCHANGED vars
  BY <1>5, MatchStutters DEF Returned
<1> QED
  BY <1>2, <1>3, <1>4, <1>5 DEF Next32

LEMMA MatchInit == Init => MatchInv /\ WordsInv /\ HalvesInv
<1> SUFFICES ASSUME Init PROVE MatchInv /\ WordsInv /\ HalvesInv
  OBVIOUS
<1>1. /\ length \in Lengths /\ length \in Nat /\ matched = 0 /\ short = FALSE
      /\ pc = "first" /\ same \in [0 .. length - 1 -> BOOLEAN]
  BY LengthsAssumption DEF Init
<1>2. TypeOK
  <2>1. matched \in 0 .. length
    BY <1>1
  <2>2. short \in BOOLEAN /\ pc \in {"first", "words", "bytes", "done"}
    BY <1>1
  <2> QED
    BY <1>1, <2>1, <2>2 DEF TypeOK
<1>3. Prefix
  BY <1>1 DEF Prefix
<1> QED
  BY <1>1, <1>2, <1>3 DEF MatchInv, WordsInv, HalvesInv, LongestMatch

\* Every variable of FindMatchLength keeps its type.
THEOREM TypeCorrect == Spec => []TypeOK
<1>1. MatchInv => TypeOK
  BY DEF MatchInv
<1> QED
  BY <1>1, MatchInit, WordsNext, PTL DEF Spec

\* The contract of FindMatchLength, in both versions: the longest match, and a flag
\* that is true exactly when it is shorter than a word.
THEOREM ContractHolds == (Spec => []LongestMatch) /\ (Spec32 => []LongestMatch)
<1>1. MatchInv => LongestMatch
  BY DEF MatchInv
<1>2. Spec => []LongestMatch
  BY <1>1, MatchInit, WordsNext, PTL DEF Spec
<1>3. Spec32 => []LongestMatch
  BY <1>1, MatchInit, HalvesNext, PTL DEF Spec32
<1> QED
  BY <1>2, <1>3

\* ... and wherever the parts run beside each other.
AnyMatchInv == MatchInv /\ (part = "words" => WordsInv) /\ (part = "halves" => HalvesInv)

LEMMA AnyMatchInit == AnyInit => AnyMatchInv
BY MatchInit DEF AnyInit, MatchWaits, AnyMatchInv

LEMMA AnyMatchNext == AnyMatchInv /\ [AnyNext]_allVars => AnyMatchInv'
<1> SUFFICES ASSUME AnyMatchInv, [AnyNext]_allVars PROVE AnyMatchInv'
  OBVIOUS
<1>1. CASE WordsRun
  BY <1>1, WordsNext DEF WordsRun, OnlyMatch, AnyMatchInv
<1>2. CASE HalvesRun
  BY <1>2, HalvesNext DEF HalvesRun, OnlyMatch, AnyMatchInv
<1>3. CASE UNCHANGED <<part, vars>>
  BY <1>3, MatchStutters DEF AnyMatchInv
<1> QED
  BY <1>1, <1>2, <1>3 DEF AnyNext, FragmentRuns, BlocksRun, OnlyBlocks, allVars

\* The contract again, of the specification that the model checker runs.
THEOREM AnyLongestMatch == AnySpec => []LongestMatch
<1>1. AnyMatchInv => LongestMatch
  BY DEF AnyMatchInv, MatchInv
<1> QED
  BY <1>1, AnyMatchInit, AnyMatchNext, PTL DEF AnySpec

-----------------------------------------------------------------------------
(* Compress *)

(***************************************************************************)
(* The inductive invariant.  BlocksCut says how far the sink is: as long   *)
(* as bytes remain, it has whole blocks only, and the one that was just    *)
(* appended is still counted in n.  SourceAt says how far the source is,   *)
(* and BlockAt what the fragment or the scratch buffer holds of the block. *)
(***************************************************************************)
Bite == Blocks!NumToRead
Before == size - n

BlocksCut == /\ blocksPc = "header" => sink = <<>> /\ header = Blocks!None
             /\ blocksPc # "header" => header = size % Uint32s
             /\ blocksPc \in {"collect", "compress", "advance"} => n > 0
             /\ blocksPc = "advance" => Len(sink) >= 1 /\ Before = (Len(sink) - 1) * BlockSize
             /\ n > 0 /\ blocksPc # "advance" => Before = Len(sink) * BlockSize
             /\ n = 0 => Len(sink) * BlockSize >= size
             /\ blocksPc = "done" => n = 0

SourceAt == /\ blocksPc \in {"header", "block", "done"} => pos = Before
            /\ blocksPc = "collect" => pos = Before + bytesRead /\ bytesRead <= Bite /\ pending = 0
            /\ blocksPc \in {"compress", "advance"} =>
                 \/ block = "peeked" /\ pos = Before /\ pending = Bite
                 \/ block = "scratch" /\ pos = Before + Bite /\ pending = 0

BlockAt == /\ scratch # <<>> => Len(scratch) <= BlockSize /\ Len(scratch) >= Bite
           /\ blocksPc = "collect" =>
                /\ Len(scratch) >= Bite
                /\ \A i \in 1 .. bytesRead : scratch[i] = Before + i
           /\ blocksPc = "compress" =>
                IF block = "peeked"
                THEN Len(peeked) >= Bite /\ \A i \in 1 .. Bite : peeked[i] = Before + i
                ELSE Len(scratch) >= Bite /\ \A i \in 1 .. Bite : scratch[i] = Before + i

OutputFits == /\ outSize # Blocks!None => outSize >= Blocks!MaxCompressedLength(Bite)
              /\ blocksPc = "advance" => outSize # Blocks!None

BlocksInv == Blocks!TypeOK /\ BlocksCut /\ SourceAt /\ BlockAt /\ OutputFits /\ Blocks!BlocksAreInput

\* The sum of the first k lengths in the sink, for every k.
Sums(f) == /\ f \in [0 .. Len(sink) -> Nat] /\ f[0] = 0
           /\ \A k \in 1 .. Len(sink) : f[k] = f[k - 1] + sink[k].len
CountInv == IF blocksPc = "header" THEN written = 0 ELSE \E f : Sums(f) /\ written - f[Len(sink)] \in 1 .. 5

LEMMA BlockNumbers ==
  ASSUME BlocksInv
  PROVE  /\ size \in Nat /\ n \in Nat /\ n <= size /\ pos \in Nat /\ bytesRead \in Nat
         /\ BlockSize \in Nat /\ BlockSize >= 1 /\ Beyond \in Nat
         /\ Bite \in Nat /\ Bite <= n /\ Bite <= BlockSize /\ (n > 0 => Bite >= 1)
         /\ Bite = (IF n <= BlockSize THEN n ELSE BlockSize)
         /\ Before \in Nat /\ Before = size - n
         /\ Len(sink) \in Nat
<1>1. size \in Nat /\ n \in 0 .. size /\ pos \in 0 .. size + Beyond /\ Beyond \in Nat
  BY SourceAssumption DEF BlocksInv, Blocks!TypeOK
<1>2. BlockSize \in Nat /\ BlockSize >= 1
  BY OutputsAssumption
<1>3. Bite = (IF n <= BlockSize THEN n ELSE BlockSize)
  BY DEF Bite, Blocks!NumToRead, Blocks!Least
<1> QED
  BY <1>1, <1>2, <1>3 DEF Before, BlocksInv, Blocks!TypeOK

LEMMA ConcatIs ==
  ASSUME NEW s1 \in Seq(Nat), NEW s2 \in Seq(Nat)
  PROVE  /\ s1 \o s2 \in Seq(Nat) /\ Len(s1 \o s2) = Len(s1) + Len(s2)
         /\ \A i \in 1 .. Len(s1) : (s1 \o s2)[i] = s1[i]
         /\ \A i \in 1 .. Len(s2) : (s1 \o s2)[Len(s1) + i] = s2[i]
<1>1. s1 \o s2 \in Seq(Nat) /\ Len(s1 \o s2) = Len(s1) + Len(s2)
  OBVIOUS
<1>2. \A i \in 1 .. Len(s1) : (s1 \o s2)[i] = s1[i]
  OBVIOUS
<1>3. \A i \in 1 .. Len(s2) : (s1 \o s2)[Len(s1) + i] = s2[i]
  OBVIOUS
<1> QED
  BY <1>1, <1>2, <1>3

LEMMA AppendIs ==
  ASSUME NEW S, NEW s1 \in Seq(S), NEW e \in S
  PROVE  /\ Append(s1, e) \in Seq(S) /\ Len(Append(s1, e)) = Len(s1) + 1
         /\ \A i \in 1 .. Len(s1) : Append(s1, e)[i] = s1[i]
         /\ Append(s1, e)[Len(s1) + 1] = e
OBVIOUS

\* A store inside a buffer keeps its length and the bytes beside it.
LEMMA OverwriteIs ==
  ASSUME NEW b \in Seq(Nat), NEW c \in Seq(Nat), NEW from \in Nat, from + Len(c) <= Len(b)
  PROVE  LET after == Blocks!Overwrite(b, from, c)
         IN  /\ after \in Seq(Nat) /\ Len(after) = Len(b)
             /\ \A i \in 1 .. from : after[i] = b[i]
             /\ \A i \in 1 .. Len(c) : after[from + i] = c[i]
<1> DEFINE left3 == SubSeq(b, 1, from)
           right3 == SubSeq(b, from + Len(c) + 1, Len(b))
<1>1. left3 \in Seq(Nat) /\ Len(left3) = from /\ \A i \in 1 .. from : left3[i] = b[i]
  OBVIOUS
<1>2. right3 \in Seq(Nat) /\ Len(right3) = Len(b) - from - Len(c)
  OBVIOUS
<1>3. Blocks!Overwrite(b, from, c) = left3 \o c \o right3
  BY DEF Blocks!Overwrite
<1> HIDE DEF left3, right3
<1>4. /\ left3 \o c \in Seq(Nat) /\ Len(left3 \o c) = from + Len(c)
      /\ \A i \in 1 .. from : (left3 \o c)[i] = b[i]
      /\ \A i \in 1 .. Len(c) : (left3 \o c)[from + i] = c[i]
  <2>1. /\ left3 \o c \in Seq(Nat) /\ Len(left3 \o c) = Len(left3) + Len(c)
        /\ \A i \in 1 .. Len(left3) : (left3 \o c)[i] = left3[i]
        /\ \A i \in 1 .. Len(c) : (left3 \o c)[Len(left3) + i] = c[i]
    BY <1>1, ConcatIs
  <2> QED
    BY <1>1, <2>1
<1> DEFINE both == left3 \o c
<1> HIDE DEF both
<1>5. /\ both \o right3 \in Seq(Nat) /\ Len(both \o right3) = Len(b)
      /\ \A i \in 1 .. from + Len(c) : (both \o right3)[i] = both[i]
  <2>1. both \in Seq(Nat) /\ Len(both) = from + Len(c)
    BY <1>4 DEF both
  <2>2. /\ both \o right3 \in Seq(Nat) /\ Len(both \o right3) = Len(both) + Len(right3)
        /\ \A i \in 1 .. Len(both) : (both \o right3)[i] = both[i]
    BY <1>2, <2>1, ConcatIs
  <2> QED
    BY <1>2, <2>1, <2>2
<1>6. Blocks!Overwrite(b, from, c) = both \o right3
  BY <1>3 DEF both
<1>7. \A i \in 1 .. from : both[i] = b[i]
  BY <1>4 DEF both
<1>8. \A i \in 1 .. Len(c) : both[from + i] = c[i] /\ from + i \in 1 .. from + Len(c)
  BY <1>4, SMTT(30) DEF both
<1> DEFINE after == Blocks!Overwrite(b, from, c)
<1> SUFFICES /\ after \in Seq(Nat) /\ Len(after) = Len(b)
             /\ \A i \in 1 .. from : after[i] = b[i]
             /\ \A i \in 1 .. Len(c) : after[from + i] = c[i]
  OBVIOUS
<1>9. after = both \o right3
  BY <1>6
<1> HIDE DEF after
<1>10. /\ after \in Seq(Nat) /\ Len(after) = Len(b)
       /\ \A i \in 1 .. from + Len(c) : after[i] = both[i]
  BY <1>5, <1>9
<1>11. \A i \in 1 .. from : i \in 1 .. from + Len(c)
  OBVIOUS
<1> QED
  BY <1>7, <1>8, <1>10, <1>11

\* What Peek returns: at least a byte as long as bytes are available, and those that follow.
LEMMA PeekIs ==
  ASSUME NEW p \in Nat, size \in Nat, p < size, NEW fragment \in Blocks!Fragments(p)
  PROVE  /\ fragment \in Seq(Nat) /\ Len(fragment) \in Nat /\ Len(fragment) >= 1
         /\ \A i \in 1 .. Len(fragment) : fragment[i] = p + i
<1>1. PICK k \in Peeks : fragment = Blocks!Bytes(p, Blocks!Least(p + k, size + Beyond))
  BY DEF Blocks!Fragments
<1> DEFINE m == Blocks!Least(p + k, size + Beyond) - p
<1>2. m \in Nat /\ m >= 1
  BY SourceAssumption DEF Blocks!Least
<1>3. fragment = [i \in 1 .. m |-> p + i]
  BY <1>1 DEF Blocks!Bytes
<1> HIDE DEF m
<1> QED
  BY <1>2, <1>3

\* What CompressBlock and Advance do to the cuts.
LEMMA NextCut ==
  ASSUME NEW k \in Nat, NEW b \in Nat
  PROVE  /\ (k + 1) * b = k * b + b /\ k * b \in Nat
         /\ k >= 1 => k * b = (k - 1) * b + b
OBVIOUS

LEMMA BlocksInit == Blocks!Init => BlocksInv
<1> SUFFICES ASSUME Blocks!Init PROVE BlocksInv
  OBVIOUS
<1>1. size \in Sizes /\ size \in Nat /\ n = size /\ pos = 0 /\ sink = <<>> /\ pending = 0
  BY SourceAssumption DEF Blocks!Init
<1>2. Blocks!TypeOK
  BY <1>1, SourceAssumption, OutputsAssumption DEF Blocks!Init, Blocks!TypeOK, Blocks!None
<1>3. BlocksCut /\ SourceAt
  BY <1>1, OutputsAssumption DEF Blocks!Init, BlocksCut, Before, SourceAt
<1>4. BlockAt /\ OutputFits /\ Blocks!BlocksAreInput
  BY <1>1 DEF Blocks!Init, BlockAt, OutputFits, Blocks!BlocksAreInput
<1> QED
  BY <1>2, <1>3, <1>4 DEF BlocksInv

LEMMA SameBlock ==
  ASSUME UNCHANGED <<size, n>>
  PROVE  Bite' = Bite /\ Before' = Before
BY DEF Bite, Before, Blocks!NumToRead, Blocks!Least

\* Steps that leave the sink alone and do not return.
LEMMA SameSink ==
  ASSUME BlocksInv, UNCHANGED <<size, sink>>, blocksPc' # "done"
  PROVE  Blocks!BlocksAreInput'
<1>1. Blocks!BlocksAreInput
  BY DEF BlocksInv
<1> QED
  BY <1>1 DEF Blocks!BlocksAreInput, Blocks!Bytes, Blocks!Least

LEMMA HeaderStep ==
  ASSUME BlocksInv, Blocks!AppendHeader
  PROVE  BlocksInv'
<1>1. Bite' = Bite /\ Before' = Before
  BY SameBlock DEF Blocks!AppendHeader
<1>2. Blocks!BlocksAreInput'
  BY SameSink DEF Blocks!AppendHeader
<1>3. Blocks!TypeOK'
  <2>1. written' \in Nat
    BY DEF BlocksInv, Blocks!TypeOK, Blocks!AppendHeader
  <2>2. size % Uint32s \in 0 .. Uint32s - 1
    BY BlockNumbers, HeaderAssumption
  <2>3. header' \in {Blocks!None} \cup 0 .. Uint32s - 1
    BY <2>2 DEF Blocks!AppendHeader
  <2> QED
    BY <2>1, <2>3 DEF BlocksInv, Blocks!TypeOK, Blocks!AppendHeader
<1> QED
  BY <1>1, <1>2, <1>3 DEF Blocks!AppendHeader, BlocksInv, BlocksCut, SourceAt, BlockAt, OutputFits,
     Blocks!MaxCompressedLength

LEMMA InPlaceStep ==
  ASSUME BlocksInv, Blocks!UseInPlace
  PROVE  BlocksInv'
<1>1. Bite' = Bite /\ Before' = Before
  BY SameBlock DEF Blocks!UseInPlace
<1>2. Blocks!BlocksAreInput'
  BY SameSink DEF Blocks!UseInPlace, Blocks!outputVars
<1>3. /\ blocksPc = "block" /\ n > 0 /\ pos = Before /\ pos < size
      /\ Len(peeked') >= Bite /\ pending' = Bite
  BY BlockNumbers DEF Blocks!UseInPlace, BlocksInv, SourceAt, Bite
<1>4. peeked' \in Seq(Nat) /\ \A i \in 1 .. Len(peeked') : peeked'[i] = Before + i
  BY <1>3, PeekIs, BlockNumbers DEF Blocks!UseInPlace
<1>5. Blocks!TypeOK'
  <2>1. pending' \in 0 .. BlockSize
    BY <1>3, BlockNumbers
  <2> QED
    BY <1>4, <2>1 DEF BlocksInv, Blocks!TypeOK, Blocks!UseInPlace, Blocks!outputVars
<1>6. BlockAt'
  BY <1>1, <1>3, <1>4, BlockNumbers DEF Blocks!UseInPlace, BlocksInv, BlockAt
<1>7. BlocksCut' /\ SourceAt' /\ OutputFits'
  BY <1>1, <1>3 DEF Blocks!UseInPlace, Blocks!outputVars, BlocksInv, BlocksCut, SourceAt, OutputFits,
                    Blocks!MaxCompressedLength
<1> QED
  BY <1>2, <1>5, <1>6, <1>7 DEF BlocksInv

LEMMA CollectStep ==
  ASSUME BlocksInv, Blocks!StartCollecting
  PROVE  BlocksInv'
<1> USE DEF Blocks!StartCollecting, Blocks!Collect
<1>1. Bite' = Bite /\ Before' = Before
  BY SameBlock
<1>2. Blocks!BlocksAreInput'
  BY SameSink DEF Blocks!outputVars
<1>3. blocksPc = "block" /\ n > 0 /\ pos = Before /\ pos < size /\ pos \in Nat
  BY BlockNumbers DEF BlocksInv, SourceAt
<1> DEFINE buffer == IF scratch = <<>> THEN Blocks!Blank(Bite) ELSE scratch
<1>4. PICK fragment \in Blocks!Fragments(pos) :
        /\ Len(fragment) < Bite
        /\ scratch' = Blocks!Overwrite(buffer, 0, fragment)
        /\ bytesRead' = Len(fragment)
        /\ Blocks!Skip(Len(fragment))
  BY DEF Bite
<1>5. /\ fragment \in Seq(Nat) /\ Len(fragment) \in Nat /\ Len(fragment) >= 1
      /\ \A i \in 1 .. Len(fragment) : fragment[i] = Before + i
  BY <1>3, <1>4, PeekIs, BlockNumbers
<1>6. buffer \in Seq(Nat) /\ Len(buffer) >= Bite /\ Len(buffer) <= BlockSize
  <2>1. CASE scratch = <<>>
    <3>1. Blocks!Blank(Bite) \in Seq(Nat) /\ Len(Blocks!Blank(Bite)) = Bite
      BY BlockNumbers DEF Blocks!Blank
    <3> QED
      BY <2>1, <3>1, BlockNumbers
  <2>2. CASE scratch # <<>>
    BY <2>2 DEF BlocksInv, BlockAt, Blocks!TypeOK
  <2> QED
    BY <2>1, <2>2
<1> HIDE DEF buffer
<1>7. /\ scratch' \in Seq(Nat) /\ Len(scratch') = Len(buffer)
      /\ \A i \in 1 .. Len(fragment) : scratch'[i] = Before + i
  <2>1. /\ scratch' \in Seq(Nat) /\ Len(scratch') = Len(buffer)
        /\ \A i \in 1 .. Len(fragment) : scratch'[0 + i] = fragment[i]
    <3>1. 0 + Len(fragment) <= Len(buffer)
      BY <1>4, <1>5, <1>6, BlockNumbers
    <3> QED
      BY <1>4, <1>5, <1>6, <3>1, OverwriteIs
  <2> QED
    BY <1>5, <2>1
<1>8. /\ pos' = Before + Len(fragment) /\ peeked' = <<>> /\ pending' = 0
      /\ blocksPc' = "collect" /\ bytesRead' = Len(fragment)
  BY <1>3, <1>4, <1>5 DEF Blocks!Skip
<1>9. Blocks!TypeOK'
  <2>1. pos' \in 0 .. size + Beyond /\ pending' \in 0 .. BlockSize
    BY <1>4, <1>5, <1>8, BlockNumbers, SMTT(30)
  <2> QED
    BY <1>5, <1>7, <1>8, <2>1 DEF BlocksInv, Blocks!TypeOK, Blocks!outputVars
<1>10. BlockAt'
  BY <1>1, <1>6, <1>7, <1>8, BlockNumbers DEF BlockAt
<1>11. BlocksCut' /\ SourceAt' /\ OutputFits'
  BY <1>1, <1>3, <1>4, <1>5, <1>8, BlockNumbers
     DEF Blocks!outputVars, BlocksInv, BlocksCut, SourceAt, OutputFits, Blocks!MaxCompressedLength
<1> QED
  BY <1>2, <1>9, <1>10, <1>11 DEF BlocksInv

LEMMA CollectMoreStep ==
  ASSUME BlocksInv, Blocks!CollectMore
  PROVE  BlocksInv'
<1> USE DEF Blocks!CollectMore
<1>1. Bite' = Bite /\ Before' = Before
  BY SameBlock
<1>2. Blocks!BlocksAreInput'
  BY SameSink DEF Blocks!outputVars, BlocksInv
<1>3. /\ blocksPc = "collect" /\ n > 0 /\ bytesRead < Bite /\ pos = Before + bytesRead /\ pos < size
      /\ Len(scratch) >= Bite /\ Len(scratch) <= BlockSize /\ scratch \in Seq(Nat)
      /\ \A i \in 1 .. bytesRead : scratch[i] = Before + i
  <2>1. /\ blocksPc = "collect" /\ n > 0 /\ bytesRead < Bite /\ pos = Before + bytesRead
        /\ Len(scratch) >= Bite /\ scratch \in Seq(Nat)
        /\ \A i \in 1 .. bytesRead : scratch[i] = Before + i
    BY DEF BlocksInv, BlocksCut, SourceAt, BlockAt, Bite, Blocks!TypeOK
  <2>2. scratch # <<>>
    BY <2>1, BlockNumbers
  <2> QED
    BY <2>1, <2>2, BlockNumbers, SMTT(30) DEF BlocksInv, BlockAt
<1>4. PICK fragment \in Blocks!Fragments(pos) :
        LET k == Blocks!Least(Len(fragment), Bite - bytesRead)
        IN  /\ scratch' = Blocks!Overwrite(scratch, bytesRead, SubSeq(fragment, 1, k))
            /\ bytesRead' = bytesRead + k
            /\ Blocks!Skip(k)
  BY DEF Bite
<1>0. /\ bytesRead \in Nat /\ Bite \in Nat /\ Bite <= n /\ n <= size /\ size \in Nat /\ Before \in Nat
      /\ Before = size - n /\ n \in Nat /\ Beyond \in Nat /\ Len(scratch) \in Nat
  BY <1>3, BlockNumbers
<1> DEFINE k == Blocks!Least(Len(fragment), Bite - bytesRead)
           part3 == SubSeq(fragment, 1, k)
<1>5. /\ fragment \in Seq(Nat) /\ Len(fragment) \in Nat /\ Len(fragment) >= 1
      /\ \A i \in 1 .. Len(fragment) : fragment[i] = pos + i
  BY <1>3, <1>4, PeekIs, BlockNumbers
<1>6. k \in Nat /\ k >= 1 /\ k <= Len(fragment) /\ bytesRead + k <= Bite
  BY <1>3, <1>5, <1>0 DEF Blocks!Least
<1>7. /\ scratch' = Blocks!Overwrite(scratch, bytesRead, part3)
      /\ bytesRead' = bytesRead + k /\ pos' = pos + k /\ peeked' = <<>>
  BY <1>4, <1>6 DEF Blocks!Skip
<1> HIDE DEF k
<1>8. part3 \in Seq(Nat) /\ Len(part3) = k /\ \A i \in 1 .. k : part3[i] = pos + i
  BY <1>5, <1>6
<1> HIDE DEF part3
<1>9. /\ scratch' \in Seq(Nat) /\ Len(scratch') = Len(scratch)
      /\ \A i \in 1 .. bytesRead + k : scratch'[i] = Before + i
  <2>1. bytesRead \in Nat /\ bytesRead + Len(part3) <= Len(scratch) /\ Len(scratch) \in Nat /\ Before \in Nat
    BY <1>3, <1>6, <1>8, <1>0
  <2>2. /\ scratch' \in Seq(Nat) /\ Len(scratch') = Len(scratch)
        /\ \A i \in 1 .. bytesRead : scratch'[i] = scratch[i]
        /\ \A i \in 1 .. Len(part3) : scratch'[bytesRead + i] = part3[i]
    BY <1>3, <1>7, <1>8, <2>1, OverwriteIs
  <2>3. ASSUME NEW i \in 1 .. bytesRead + k PROVE scratch'[i] = Before + i
    <3>1. CASE i <= bytesRead
      BY <1>3, <1>6, <2>1, <2>2, <3>1
    <3>2. CASE i > bytesRead
      <4>1. i - bytesRead \in 1 .. k /\ bytesRead + (i - bytesRead) = i
        BY <1>6, <2>1, <3>2
      <4>2. scratch'[bytesRead + (i - bytesRead)] = part3[i - bytesRead]
        BY <1>8, <2>2, <4>1
      <4>3. part3[i - bytesRead] = pos + (i - bytesRead)
        BY <1>8, <4>1
      <4> QED
        BY <1>3, <2>1, <4>1, <4>2, <4>3
    <3> QED
      BY <1>6, <2>1, <3>1, <3>2
  <2> QED
    BY <2>2, <2>3
<1>10. Blocks!TypeOK'
  <2>1. pos' \in 0 .. size + Beyond /\ bytesRead' \in Nat
    BY <1>3, <1>6, <1>7, <1>0
  <2> QED
    BY <1>7, <1>9, <2>1 DEF BlocksInv, Blocks!TypeOK, Blocks!outputVars
<1>11. BlockAt'
  BY <1>1, <1>3, <1>7, <1>9 DEF BlockAt
<1>12. BlocksCut' /\ OutputFits'
  BY <1>1, <1>3 DEF Blocks!outputVars, BlocksInv, BlocksCut, OutputFits, Blocks!MaxCompressedLength
<1>13. SourceAt'
  <2>1. pos' = Before + bytesRead' /\ bytesRead' <= Bite /\ pending = 0
    <3>1. pending = 0
      BY <1>3 DEF BlocksInv, SourceAt
    <3> QED
      <4>1. /\ Before \in Nat /\ bytesRead \in Nat /\ k \in Nat /\ pos = Before + bytesRead
            /\ pos' = pos + k /\ bytesRead' = bytesRead + k /\ bytesRead + k <= Bite
        BY <1>3, <1>6, <1>7, <1>0
      <4> QED
        BY <3>1, <4>1
  <2> QED
    BY <1>1, <1>3, <2>1 DEF SourceAt
<1> QED
  BY <1>2, <1>10, <1>11, <1>12, <1>13 DEF BlocksInv

LEMMA CollectedStep ==
  ASSUME BlocksInv, Blocks!Collected
  PROVE  BlocksInv'
<1> USE DEF Blocks!Collected
<1>1. Bite' = Bite /\ Before' = Before
  BY SameBlock
<1>2. Blocks!BlocksAreInput'
  BY SameSink DEF Blocks!outputVars
<1>3. /\ n > 0 /\ bytesRead = Bite /\ pos = Before + Bite /\ pending = 0 /\ Len(scratch) >= Bite
      /\ \A i \in 1 .. Bite : scratch[i] = Before + i
  BY BlockNumbers, SMTT(30) DEF BlocksInv, BlocksCut, SourceAt, BlockAt, Bite
<1>4. Blocks!TypeOK'
  BY DEF BlocksInv, Blocks!TypeOK, Blocks!outputVars
<1>5. BlockAt'
  BY <1>1, <1>3 DEF BlocksInv, BlockAt
<1>6. BlocksCut' /\ SourceAt' /\ OutputFits'
  BY <1>1, <1>3 DEF Blocks!outputVars, BlocksInv, BlocksCut, SourceAt, OutputFits,
                    Blocks!MaxCompressedLength
<1> QED
  BY <1>2, <1>4, <1>5, <1>6 DEF BlocksInv

LEMMA CompressStep ==
  ASSUME BlocksInv, Blocks!CompressBlock
  PROVE  BlocksInv'
<1> USE DEF Blocks!CompressBlock
<1>1. Bite' = Bite /\ Before' = Before
  BY SameBlock
<1>0. /\ Bite \in Nat /\ Bite >= 1 /\ Bite <= n /\ n <= size /\ size \in Nat /\ Before \in Nat
      /\ Before = size - n /\ n \in Nat /\ n > 0 /\ Len(sink) \in Nat /\ BlockSize \in Nat
      /\ BlockSize >= 1 /\ Bite = (IF n <= BlockSize THEN n ELSE BlockSize)
  BY BlockNumbers DEF BlocksInv, BlocksCut
<1> DEFINE bytes == SubSeq(IF block = "peeked" THEN peeked ELSE scratch, 1, Bite)
           from == Len(sink) * BlockSize
<1>2. /\ from = Before /\ from \in Nat /\ (Len(sink) + 1) * BlockSize = from + BlockSize
  BY <1>0, NextCut DEF BlocksInv, BlocksCut
<1> HIDE DEF from
<1>3. PICK k \in Outputs :
        /\ sink' = Append(sink, [bytes |-> bytes, len |-> k]) /\ written' = written + k
  BY DEF Bite
<1>4. bytes \in Seq(Nat) /\ bytes = [i \in 1 .. Bite |-> from + i]
  <2>1. ASSUME NEW whole \in Seq(Nat), Len(whole) >= Bite, \A i \in 1 .. Bite : whole[i] = Before + i
        PROVE  SubSeq(whole, 1, Bite) \in Seq(Nat) /\ SubSeq(whole, 1, Bite) = [i \in 1 .. Bite |-> from + i]
    <3>1. SubSeq(whole, 1, Bite) \in Seq(Nat) /\ Len(SubSeq(whole, 1, Bite)) = Bite
      BY <1>0, <2>1, SMTT(30)
    <3>2. \A i \in 1 .. Bite : SubSeq(whole, 1, Bite)[i] = from + i
      BY <1>0, <1>2, <2>1
    <3> QED
      BY <1>0, <3>1, <3>2
  <2>2. CASE block = "peeked"
    BY <2>1, <2>2 DEF BlocksInv, Blocks!TypeOK, BlockAt
  <2>3. CASE block # "peeked"
    BY <2>1, <2>3 DEF BlocksInv, Blocks!TypeOK, BlockAt
  <2> QED
    BY <2>2, <2>3
<1> HIDE DEF bytes
<1>5. k \in Nat /\ k >= 1 /\ written' \in Nat
  BY <1>3, OutputsAssumption DEF BlocksInv, Blocks!TypeOK
<1>6. sink \in Seq([bytes : Seq(Nat), len : Nat])
  BY DEF BlocksInv, Blocks!TypeOK
<1>7. /\ sink' \in Seq([bytes : Seq(Nat), len : Nat]) /\ Len(sink') = Len(sink) + 1
      /\ \A i \in 1 .. Len(sink) : sink'[i] = sink[i]
      /\ sink'[Len(sink) + 1].bytes = bytes
  <2>1. [bytes |-> bytes, len |-> k] \in [bytes : Seq(Nat), len : Nat]
    BY <1>4, <1>5
  <2> DEFINE piece == [bytes |-> bytes, len |-> k]
  <2>2. piece.bytes = bytes
    OBVIOUS
  <2> HIDE DEF piece
  <2>3. sink' = Append(sink, piece)
    BY <1>3 DEF piece
  <2>4. piece \in [bytes : Seq(Nat), len : Nat]
    BY <2>1 DEF piece
  <2> QED
    <3> DEFINE S == [bytes : Seq(Nat), len : Nat]
    <3>1. sink \in Seq(S) /\ piece \in S
      BY <1>6, <2>4
    <3> HIDE DEF S
    <3>2. /\ sink' \in Seq(S) /\ Len(sink') = Len(sink) + 1
          /\ \A i \in 1 .. Len(sink) : sink'[i] = sink[i]
          /\ sink'[Len(sink) + 1] = piece
      BY <2>3, <3>1, AppendIs
    <3> QED
      BY <2>2, <3>2 DEF S
<1>8. Blocks!BlocksAreInput'
  <2>1. ASSUME NEW i \in 1 .. Len(sink')
        PROVE  /\ (i - 1) * BlockSize < size
               /\ sink'[i].bytes = Blocks!Bytes((i - 1) * BlockSize, Blocks!Least(i * BlockSize, size))
    <3>1. CASE i \in 1 .. Len(sink)
      BY <1>7, <3>1 DEF BlocksInv, Blocks!BlocksAreInput
    <3>2. CASE i = Len(sink) + 1
      <4>1. i - 1 = Len(sink)
        BY <1>0, <3>2
      <4>2. (i - 1) * BlockSize = from /\ i * BlockSize = from + BlockSize
        BY <1>2, <3>2, <4>1 DEF from
      <4>3. from < size /\ Blocks!Least(from + BlockSize, size) - from = Bite
        BY <1>0, <1>2 DEF Blocks!Least
      <4>4. sink'[i].bytes = Blocks!Bytes(from, Blocks!Least(from + BlockSize, size))
        BY <1>4, <1>7, <3>2, <4>3 DEF Blocks!Bytes
      <4> QED
        BY <4>2, <4>3, <4>4
    <3> QED
      BY <1>0, <1>7, <3>1, <3>2
  <2>2. UNCHANGED size /\ blocksPc' # "done"
    OBVIOUS
  <2> QED
    BY <2>1, <2>2 DEF Blocks!BlocksAreInput, Blocks!Bytes, Blocks!Least
<1>9. OutputFits'
  <2>1. outSize' >= Blocks!MaxCompressedLength(Bite) /\ outSize' \in Nat
    BY <1>0 DEF Bite, BlocksInv, Blocks!TypeOK, OutputFits, Blocks!MaxCompressedLength
  <2> QED
    BY <1>1, <2>1 DEF OutputFits, Blocks!MaxCompressedLength, Blocks!None
<1>10. Blocks!TypeOK'
  <2>1. outSize' \in Nat
    BY <1>0 DEF Bite, BlocksInv, Blocks!TypeOK, Blocks!MaxCompressedLength
  <2>2. /\ UNCHANGED <<size, pos, n, peeked, pending, scratch, bytesRead, block, header>>
        /\ blocksPc' = "advance"
    OBVIOUS
  <2> QED
    BY <1>5, <1>7, <2>1, <2>2 DEF BlocksInv, Blocks!TypeOK
<1>11. BlocksCut'
  BY <1>0, <1>1, <1>2, <1>7 DEF BlocksInv, BlocksCut, from
<1>12. SourceAt' /\ BlockAt'
  BY <1>1 DEF BlocksInv, SourceAt, BlockAt
<1> QED
  BY <1>8, <1>9, <1>10, <1>11, <1>12 DEF BlocksInv

\* A shorter block needs no larger buffer.
LEMMA ShorterNeedsLess ==
  ASSUME NEW a \in Nat, NEW b \in Nat, b <= a
  PROVE  /\ Blocks!MaxCompressedLength(b) <= Blocks!MaxCompressedLength(a)
         /\ Blocks!MaxCompressedLength(b) \in Nat /\ Blocks!MaxCompressedLength(a) \in Nat
<1>1. b \div 6 <= a \div 6 /\ b \div 6 \in Nat /\ a \div 6 \in Nat
  OBVIOUS
<1> QED
  BY <1>1 DEF Blocks!MaxCompressedLength

LEMMA AdvanceStep ==
  ASSUME BlocksInv, Blocks!Advance
  PROVE  BlocksInv'
<1> USE DEF Blocks!Advance
<1>1. /\ Bite \in Nat /\ Bite >= 1 /\ Bite <= n /\ n <= size /\ size \in Nat /\ Before \in Nat
      /\ Before = size - n /\ n \in Nat /\ n > 0 /\ Len(sink) \in Nat /\ BlockSize \in Nat
      /\ BlockSize >= 1 /\ Bite = (IF n <= BlockSize THEN n ELSE BlockSize)
  BY BlockNumbers DEF BlocksInv, BlocksCut
<1>2. n' = n - Bite /\ n' \in Nat /\ n' <= size /\ size' = size
  BY <1>1 DEF Bite
<1>3. Bite' = (IF n' <= BlockSize THEN n' ELSE BlockSize) /\ Before' = size - n' /\ Bite' <= Bite
  BY <1>1, <1>2 DEF Bite, Blocks!NumToRead, Blocks!Least, Before
<1>4. Blocks!BlocksAreInput'
  BY SameSink DEF Blocks!outputVars
<1>5. pos' = Before' /\ blocksPc' = "block" /\ block' = "none" /\ peeked' \in Seq(Nat)
  <2>1. pos' = Before + Bite
    BY <1>1 DEF BlocksInv, SourceAt, Blocks!Skip
  <2>2. Before' = Before + Bite
    BY <1>1, <1>2, <1>3
  <2>3. peeked' \in Seq(Nat)
    <3>1. peeked' = <<>> \/ peeked' = peeked
      BY DEF Blocks!Skip
    <3>2. peeked \in Seq(Nat) /\ <<>> \in Seq(Nat)
      BY DEF BlocksInv, Blocks!TypeOK
    <3> QED
      BY <3>1, <3>2
  <2> QED
    BY <2>1, <2>2, <2>3
<1>6. Blocks!TypeOK'
  <2>1. pos' \in 0 .. size + Beyond /\ n' \in 0 .. size
    BY <1>1, <1>2, <1>3, <1>5, SourceAssumption
  <2> QED
    BY <1>2, <1>5, <2>1 DEF BlocksInv, Blocks!TypeOK, Blocks!outputVars
<1>7. BlocksCut'
  <2> DEFINE before == (Len(sink) - 1) * BlockSize
  <2>1. Before = before /\ before \in Nat /\ Len(sink) * BlockSize = before + BlockSize
    BY <1>1, NextCut DEF BlocksInv, BlocksCut
  <2> HIDE DEF before
  <2>2. n' > 0 => Before' = Len(sink) * BlockSize
    BY <1>1, <1>2, <1>3, <2>1, SMTT(30)
  <2>3. n' = 0 => Len(sink) * BlockSize >= size
    BY <1>1, <1>2, <2>1
  <2>4. UNCHANGED <<size, sink, header>> /\ header = size % Uint32s
    BY DEF Blocks!outputVars, BlocksInv, BlocksCut
  <2> QED
    BY <1>5, <2>2, <2>3, <2>4 DEF BlocksCut
<1>8. BlockAt'
  <2>1. scratch \in Seq(Nat) /\ (scratch # <<>> => Len(scratch) <= BlockSize /\ Len(scratch) >= Bite)
    BY DEF BlocksInv, Blocks!TypeOK, BlockAt
  <2>2. Len(scratch) \in Nat /\ Bite' \in Nat /\ scratch' = scratch
    BY <1>1, <1>2, <1>3, <2>1
  <2> QED
    BY <1>1, <1>3, <1>5, <2>1, <2>2 DEF BlockAt
<1>9. SourceAt'
  BY <1>5 DEF SourceAt
<1>10. OutputFits'
  <2>1. outSize' = outSize /\ outSize \in Nat /\ outSize >= Blocks!MaxCompressedLength(Bite)
    BY DEF Blocks!outputVars, BlocksInv, OutputFits, Blocks!TypeOK
  <2>2. Bite' \in Nat /\ Bite \in Nat /\ Bite' <= Bite
    BY <1>1, <1>2, <1>3
  <2>3. /\ Blocks!MaxCompressedLength(Bite') <= Blocks!MaxCompressedLength(Bite)
        /\ Blocks!MaxCompressedLength(Bite') \in Nat /\ Blocks!MaxCompressedLength(Bite) \in Nat
    <3> DEFINE b == Bite'
    <3> HIDE DEF b
    <3>1. b \in Nat /\ b <= Bite
      BY <2>2 DEF b
    <3> QED
      BY <2>2, <3>1, ShorterNeedsLess DEF b
  <2>4. outSize' >= Blocks!MaxCompressedLength(Bite')
    BY <2>1, <2>3
  <2> QED
    BY <1>5, <2>4 DEF OutputFits
<1> QED
  BY <1>4, <1>6, <1>7, <1>8, <1>9, <1>10 DEF BlocksInv

LEMMA FinishStep ==
  ASSUME BlocksInv, Blocks!Finish
  PROVE  BlocksInv'
<1> USE DEF Blocks!Finish
<1>1. Bite' = Bite /\ Before' = Before
  BY SameBlock
<1>2. /\ Len(sink) * BlockSize >= size /\ n = 0
      /\ header = size <=> size < Uint32s
  <2>1. Len(sink) * BlockSize >= size /\ header = size % Uint32s /\ n = 0
    BY DEF BlocksInv, BlocksCut
  <2>2. size \in Nat /\ Uint32s \in Nat \ {0}
    BY BlockNumbers, HeaderAssumption
  <2>3. size % Uint32s < Uint32s /\ (size < Uint32s => size % Uint32s = size)
    BY <2>2
  <2> QED
    BY <2>1, <2>3
<1>3. Blocks!BlocksAreInput'
  <2>1. Blocks!BlocksAreInput
    BY DEF BlocksInv
  <2> QED
    BY <1>2, <2>1 DEF Blocks!BlocksAreInput, Blocks!Bytes, Blocks!Least, Blocks!outputVars
<1>4. Blocks!TypeOK'
  BY DEF BlocksInv, Blocks!TypeOK, Blocks!outputVars
<1>5. BlocksCut' /\ SourceAt' /\ BlockAt'
  BY <1>1, <1>2 DEF BlocksInv, BlocksCut, SourceAt, BlockAt, Blocks!outputVars
<1>6. OutputFits'
  BY <1>1 DEF BlocksInv, OutputFits, Blocks!outputVars, Blocks!MaxCompressedLength
<1> QED
  BY <1>3, <1>4, <1>5, <1>6 DEF BlocksInv

LEMMA BlocksStutter ==
  ASSUME BlocksInv, UNCHANGED Blocks!vars
  PROVE  BlocksInv'
<1> USE DEF Blocks!vars
<1>1. Bite' = Bite /\ Before' = Before
  BY SameBlock
<1>2. Blocks!BlocksAreInput' /\ Blocks!TypeOK'
  BY DEF BlocksInv, Blocks!BlocksAreInput, Blocks!Bytes, Blocks!Least, Blocks!TypeOK
<1>3. BlocksCut' /\ SourceAt' /\ BlockAt' /\ OutputFits'
  BY <1>1 DEF BlocksInv, BlocksCut, SourceAt, BlockAt, OutputFits, Blocks!MaxCompressedLength
<1> QED
  BY <1>2, <1>3 DEF BlocksInv

LEMMA BlocksNext == BlocksInv /\ [Blocks!Next]_Blocks!vars => BlocksInv'
BY HeaderStep, InPlaceStep, CollectStep, CollectMoreStep, CollectedStep, CompressStep, AdvanceStep,
   FinishStep, BlocksStutter DEF Blocks!Next, Blocks!Returned

\* There is one such sum, and it is what Total picks.
LEMMA TheSumIs ==
  ASSUME NEW f, Sums(f), Len(sink) \in Nat
  PROVE  Blocks!Total = f[Len(sink)]
<1> DEFINE Body(g, k) == IF k = 0 THEN 0 ELSE g[k - 1] + sink[k].len
           sum == CHOOSE g : g = [k \in 0 .. Len(sink) |-> Body(g, k)]
<1>1. f = [k \in 0 .. Len(sink) |-> Body(f, k)]
  <2>1. ASSUME NEW k \in 0 .. Len(sink) PROVE f[k] = Body(f, k)
    BY DEF Sums
  <2> QED
    BY <2>1 DEF Sums
<1>2. sum = [k \in 0 .. Len(sink) |-> Body(sum, k)]
  <2> HIDE DEF Body
  <2> QED
    BY <1>1
<1>3. Blocks!Total = sum[Len(sink)]
  BY DEF Blocks!Total
<1> HIDE DEF sum
<1> DEFINE Differ == {k \in 0 .. Len(sink) : sum[k] # f[k]}
<1>4. Differ = {}
  <2> SUFFICES ASSUME Differ # {} PROVE FALSE
    OBVIOUS
  <2>1. PICK k \in Differ : \A j \in Differ : k <= j
    <3>1. Differ \in SUBSET Nat
      OBVIOUS
    <3> HIDE DEF Differ
    <3> QED
      BY <3>1, Format!LeastOfNat
  <2>2. k \in 0 .. Len(sink) /\ sum[k] = Body(sum, k) /\ f[k] = Body(f, k)
    BY <1>1, <1>2
  <2>3. k # 0 => k - 1 \in 0 .. Len(sink) /\ sum[k - 1] = f[k - 1]
    BY <2>1, <2>2
  <2> QED
    BY <2>1, <2>2, <2>3
<1> QED
  BY <1>3, <1>4

LEMMA CountInit == Blocks!Init => CountInv
BY DEF Blocks!Init, CountInv

\* Steps that leave the sink alone, but for the first.
LEMMA SameCount ==
  ASSUME CountInv, UNCHANGED <<sink, written>>,
         (blocksPc = "header") <=> (blocksPc' = "header")
  PROVE  CountInv'
BY DEF CountInv, Sums

LEMMA CountNext == BlocksInv /\ CountInv /\ [Blocks!Next]_Blocks!vars => CountInv'
<1> SUFFICES ASSUME BlocksInv, CountInv, [Blocks!Next]_Blocks!vars PROVE CountInv'
  OBVIOUS
<1>1. CASE Blocks!AppendHeader
  <2>1. sink' = <<>> /\ written' \in 1 .. 5 /\ blocksPc' # "header"
    BY <1>1 DEF Blocks!AppendHeader, BlocksInv, BlocksCut, CountInv
  <2> DEFINE f == [k \in 0 .. 0 |-> 0]
  <2>2. Sums(f)' /\ (written - f[Len(sink)])' \in 1 .. 5
    BY <2>1 DEF Sums
  <2> QED
    BY <2>1, <2>2 DEF CountInv
<1>2. CASE Blocks!CompressBlock
  <2>1. PICK f : Sums(f) /\ written - f[Len(sink)] \in 1 .. 5
    BY <1>2 DEF CountInv, Blocks!CompressBlock
  <2>2. PICK k \in Outputs : \E bytes :
          /\ sink' = Append(sink, [bytes |-> bytes, len |-> k]) /\ written' = written + k
    BY <1>2 DEF Blocks!CompressBlock
  <2>3. PICK e : sink' = Append(sink, e) /\ e.len = k /\ k \in Nat
    <3>1. PICK bytes : sink' = Append(sink, [bytes |-> bytes, len |-> k])
      BY <2>2
    <3>2. [bytes |-> bytes, len |-> k].len = k
      OBVIOUS
    <3> QED
      BY <3>1, <3>2, OutputsAssumption
  <2>4. Len(sink) \in Nat /\ written \in Nat
    BY DEF BlocksInv, Blocks!TypeOK
  <2>5. /\ Len(sink') = Len(sink) + 1 /\ sink'[Len(sink) + 1] = e
        /\ \A i \in 1 .. Len(sink) : sink'[i] = sink[i]
    BY <2>3 DEF BlocksInv, Blocks!TypeOK
  <2>6. PICK g : g = [j \in 0 .. Len(sink) + 1 |->
                        IF j = Len(sink) + 1 THEN f[Len(sink)] + k ELSE f[j]]
    OBVIOUS
  <2>7. f \in [0 .. Len(sink) -> Nat] /\ f[0] = 0 /\ f[Len(sink)] \in Nat
    BY <2>1, <2>4 DEF Sums
  <2>8. g \in [0 .. Len(sink) + 1 -> Nat] /\ g[0] = 0 /\ g[Len(sink) + 1] = f[Len(sink)] + k
    BY <2>3, <2>4, <2>6, <2>7
  <2>9. ASSUME NEW j \in 1 .. Len(sink) + 1 PROVE g[j] = g[j - 1] + sink'[j].len
    <3>1. CASE j = Len(sink) + 1
      BY <2>3, <2>4, <2>5, <2>6, <3>1
    <3>2. CASE j \in 1 .. Len(sink)
      <4>1. f[j] = f[j - 1] + sink[j].len /\ sink'[j] = sink[j]
        BY <2>1, <2>5, <3>2 DEF Sums
      <4> QED
        BY <2>4, <2>6, <3>2, <4>1
    <3> QED
      BY <2>4, <3>1, <3>2
  <2>10. Sums(g)'
    BY <2>5, <2>8, <2>9 DEF Sums
  <2>11. (written - g[Len(sink)])' \in 1 .. 5
    BY <2>1, <2>2, <2>3, <2>4, <2>5, <2>7, <2>8
  <2>12. blocksPc' # "header"
    BY <1>2 DEF Blocks!CompressBlock
  <2> QED
    BY <2>10, <2>11, <2>12 DEF CountInv
<1>3. CASE \/ Blocks!UseInPlace \/ Blocks!StartCollecting \/ Blocks!CollectMore \/ Blocks!Collected
           \/ Blocks!Advance \/ Blocks!Finish \/ UNCHANGED Blocks!vars
  BY <1>3, SameCount
     DEF Blocks!UseInPlace, Blocks!StartCollecting, Blocks!Collect, Blocks!CollectMore,
         Blocks!Collected, Blocks!Advance, Blocks!Finish, Blocks!vars, Blocks!outputVars
<1> QED
  BY <1>1, <1>2, <1>3 DEF Blocks!Next, Blocks!Returned

LEMMA BlocksImply ==
  BlocksInv /\ CountInv => Blocks!TypeOK /\ Blocks!BuffersSuffice /\ BlocksAreInput
<1> SUFFICES ASSUME BlocksInv, CountInv PROVE Blocks!TypeOK /\ Blocks!BuffersSuffice /\ BlocksAreInput
  OBVIOUS
<1>1. Blocks!TypeOK /\ Blocks!BlocksAreInput
  BY DEF BlocksInv
<1>2. Blocks!ConsumedExactly
  BY BlockNumbers, SMTT(30) DEF BlocksInv, SourceAt, Blocks!ConsumedExactly, Blocks!TypeOK
<1>3. Blocks!BuffersSuffice
  BY BlockNumbers DEF BlocksInv, BlockAt, OutputFits, Blocks!BuffersSuffice, Bite
<1>4. Blocks!WrittenIsAppended
  BY TheSumIs, BlockNumbers DEF CountInv, Blocks!WrittenIsAppended
<1> QED
  BY <1>1, <1>2, <1>3, <1>4 DEF BlocksAreInput

AnyBlocksInv == BlocksInv /\ CountInv

LEMMA AnyBlocksInit == AnyInit => AnyBlocksInv
BY BlocksInit, CountInit DEF AnyInit, BlocksWait, AnyBlocksInv

LEMMA AnyBlocksNext == AnyBlocksInv /\ [AnyNext]_allVars => AnyBlocksInv'
BY BlocksNext, CountNext
   DEF AnyBlocksInv, AnyNext, WordsRun, HalvesRun, OnlyMatch, FragmentRuns, BlocksRun, allVars,
       blocksVars, Blocks!vars

\* Compress takes just its input from the source and hands it over in blocks, in
\* order, and returns how many bytes the sink has got.
THEOREM InputIsCutIntoBlocks == AnySpec => []BlocksAreInput
<1>1. AnyBlocksInv => BlocksAreInput
  BY BlocksImply DEF AnyBlocksInv
<1> QED
  BY <1>1, AnyBlocksInit, AnyBlocksNext, PTL DEF AnySpec

-----------------------------------------------------------------------------
(* CompressFragment *)

(***************************************************************************)
(* The inductive invariant.  PlacesAreRight says how the scan stands to    *)
(* the bytes that are not emitted, to the end of the block and to the      *)
(* match; TableIsBehind that every position in the table is behind the one *)
(* it may be compared with; and OutputIsShort how long the output is: a    *)
(* literal costs at most 5/6 byte more than 7/6 of its length, and the     *)
(* match that follows saves as much.                                       *)
(***************************************************************************)
PlacesAreRight ==
  /\ fragmentPc = "start" => nextEmit = 0
  /\ fragmentPc = "outer" => /\ nextEmit < ip /\ ip + 14 <= Fragment!n
                             /\ nextHash = Fragment!HashAt(ip)
  /\ fragmentPc = "scan" => /\ nextEmit < nextIp /\ nextIp + 14 <= Fragment!n /\ skip >= 32
                            /\ nextHash = Fragment!HashAt(nextIp)
  /\ fragmentPc = "literal" => nextEmit < ip
  /\ fragmentPc \in {"literal", "match"} =>
       /\ candidate < ip /\ ip + 15 < Fragment!n
       /\ Fragment!Load32(input, ip) = Fragment!Load32(input, candidate)
  /\ fragmentPc \in {"copy", "copied"} =>
       /\ Fragment!n >= 15 /\ offset \in 1 .. Fragment!Uint16s - 1 /\ offset + 4 <= ip
       /\ \A i \in ip - 3 .. ip : input[i] = input[i - offset]
  /\ fragmentPc = "copy" => left >= 4 /\ left <= ip /\ (lessThan12 => left < 12)

Behind(bound) == \A h \in 0 .. Fragment!TableSize(Fragment!n) - 1 : table[h] < bound

TableIsBehind == /\ fragmentPc = "start" => Behind(1)
                 /\ fragmentPc \in {"outer", "copy", "copied"} => Behind(ip)
                 /\ fragmentPc = "scan" => Behind(nextIp)
                 /\ fragmentPc \in {"literal", "match"} => Behind(ip + 1)

OutputIsShort ==
  /\ 6 * op <= 7 * Fragment!Emitted + (IF fragmentPc \in {"match", "copy", "done"} THEN 5 ELSE 0)
  /\ 6 * reach <= 7 * Fragment!n + 187
  /\ readEnd <= Fragment!n

FragmentInv == input \in Inputs /\ Fragment!TypeOK /\ PlacesAreRight /\ TableIsBehind /\ OutputIsShort

LEMMA FragmentNumbers ==
  ASSUME input \in Inputs, Fragment!TypeOK
  PROVE  /\ Fragment!n \in Nat /\ Fragment!n <= Fragment!Uint16s /\ Len(input) = Fragment!n
         /\ Fragment!ipLimit = Fragment!n - 15
         /\ ip \in Nat /\ ip <= Fragment!n /\ nextIp \in Nat /\ skip \in Nat
         /\ candidate \in Nat /\ candidate <= Fragment!n /\ nextEmit \in Nat /\ nextEmit <= Fragment!n
         /\ offset \in Nat /\ left \in Nat /\ op \in Nat /\ reach \in Nat /\ readEnd \in Nat
<1>1. Fragment!n \in Nat /\ Fragment!n <= Fragment!Uint16s /\ Len(input) = Fragment!n
  BY InputsAssumption DEF Fragment!n, Fragment!kBlockSize, Fragment!Uint16s
<1>2. /\ ip \in 0 .. Fragment!n /\ candidate \in 0 .. Fragment!n /\ nextEmit \in 0 .. Fragment!n
      /\ offset \in 0 .. Fragment!n /\ left \in 0 .. Fragment!n
      /\ nextIp \in Nat /\ skip \in Nat /\ op \in Nat /\ reach \in Nat /\ readEnd \in Nat
  BY DEF Fragment!TypeOK
<1> QED
  BY <1>1, <1>2 DEF Fragment!ipLimit, Fragment!kInputMarginBytes

\* Four bytes at every position that is hashed.
LEMMA HashIn ==
  ASSUME input \in Inputs, NEW p \in Nat, p + 4 <= Fragment!n
  PROVE  Fragment!HashAt(p) \in 0 .. Fragment!TableSize(Fragment!n) - 1
<1>1. Len(input) \in Nat /\ p \in 0 .. Len(input) - 4
  BY InputsAssumption DEF Fragment!n
<1> QED
  BY <1>1, HashAssumption, Zenon DEF Fragment!HashAt, Fragment!n

\* The smallest table that suffices has a bucket.
LEMMA TableSizeIs ==
  ASSUME input \in Inputs
  PROVE  Fragment!TableSize(Fragment!n) \in Nat /\ Fragment!TableSize(Fragment!n) >= 1
<1> DEFINE sizes == {MinTable * 2 ^ i : i \in 0 .. 14} \cap 1 .. MaxTable
           enough == {t \in sizes : t >= Fragment!n} \cup {MaxTable}
<1>1. sizes \subseteq 1 .. MaxTable
  OBVIOUS
<1>2. Fragment!TableSize(Fragment!n) = CHOOSE t \in enough : \A u \in enough : t <= u
  BY DEF Fragment!TableSize
<1> HIDE DEF sizes
<1>3. enough \in SUBSET Nat /\ enough # {} /\ \A t \in enough : t >= 1
  <2>1. MaxTable \in Nat /\ MaxTable >= 1
    BY TableAssumption
  <2>2. \A t \in enough : t \in 1 .. MaxTable
    BY <1>1, <2>1
  <2>3. MaxTable \in enough
    OBVIOUS
  <2> HIDE DEF enough
  <2> QED
    BY <2>1, <2>2, <2>3
<1> HIDE DEF enough
<1>4. \E t \in enough : \A u \in enough : t <= u
  BY <1>3, Format!LeastOfNat
<1> QED
  BY <1>2, <1>3, <1>4

\* Four bytes that are loaded as equal are equal.
LEMMA LoadsAgree ==
  ASSUME input \in Seq(Fragment!Byte), NEW p \in Nat, NEW q \in Nat,
         p + 4 <= Fragment!n, q + 4 <= Fragment!n,
         Fragment!Load32(input, p) = Fragment!Load32(input, q)
  PROVE  \A j \in 1 .. 4 : input[p + j] = input[q + j]
<1>1. ASSUME NEW r \in Nat, r + 4 <= Len(input)
      PROVE  \A j \in 1 .. 4 : SubSeq(input, r + 1, r + 4)[j] = input[r + j]
  <2>1. \A j \in 1 .. 4 : SubSeq(input, r + 1, r + 4)[j] = input[r + 1 + j - 1]
    BY <1>1
  <2> QED
    BY <2>1
<1>2. \A j \in 1 .. 4 : SubSeq(input, p + 1, p + 4)[j] = input[p + j]
  BY <1>1 DEF Fragment!n
<1>3. \A j \in 1 .. 4 : SubSeq(input, q + 1, q + 4)[j] = input[q + j]
  BY <1>1 DEF Fragment!n
<1> QED
  BY <1>2, <1>3 DEF Fragment!Load32

\* The match that FindMatchLength returns.
LEMMA MatchLengthIs ==
  ASSUME input \in Seq(Fragment!Byte), ip \in Nat, candidate \in Nat, ip + 4 <= Fragment!n
  PROVE  LET m == Fragment!MatchLength
         IN  /\ m \in Nat /\ ip + 4 + m <= Fragment!n
             /\ \A i \in 1 .. m : input[candidate + 4 + i] = input[ip + 4 + i]
<1> DEFINE most == Fragment!n - (ip + 4)
           P(k) == /\ \A i \in 1 .. k : input[candidate + 4 + i] = input[ip + 4 + i]
                   /\ k < most => input[candidate + 5 + k] # input[ip + 5 + k]
           Ends == {k \in 0 .. most : k = most \/ input[candidate + 5 + k] # input[ip + 5 + k]}
<1>1. most \in Nat
  BY DEF Fragment!n
<1>2. Ends \in SUBSET Nat /\ Ends # {}
  BY <1>1
<1>3. PICK x \in Ends : \A y \in Ends : x <= y
  <2> HIDE DEF Ends
  <2> QED
    BY <1>2, Format!LeastOfNat
<1>4. x \in 0 .. most /\ P(x)
  <2>1. x \in 0 .. most /\ (x < most => input[candidate + 5 + x] # input[ip + 5 + x])
    BY <1>1, <1>3
  <2>2. ASSUME NEW i \in 1 .. x PROVE input[candidate + 4 + i] = input[ip + 4 + i]
    <3>1. i - 1 \in 0 .. most /\ i - 1 # most /\ ~(x <= i - 1)
      BY <1>1, <2>1
    <3>2. i - 1 \notin Ends
      BY <1>3, <3>1
    <3>3. input[candidate + 5 + (i - 1)] = input[ip + 5 + (i - 1)]
      BY <3>1, <3>2
    <3>4. candidate + 5 + (i - 1) = candidate + 4 + i /\ ip + 5 + (i - 1) = ip + 4 + i
      BY <2>1
    <3> QED
      BY <3>3, <3>4
  <2> QED
    BY <2>1, <2>2
<1>5. Fragment!MatchLength = CHOOSE k \in 0 .. most : P(k)
  BY DEF Fragment!MatchLength
<1> HIDE DEF P, most
<1>6. Fragment!MatchLength \in 0 .. most /\ P(Fragment!MatchLength)
  BY <1>4, <1>5
<1> QED
  BY <1>6 DEF P, most, Fragment!n

LEMMA FragmentInit == Fragment!Init => FragmentInv
<1> SUFFICES ASSUME Fragment!Init PROVE FragmentInv
  OBVIOUS
<1> USE DEF Fragment!Init
<1>1. input \in Inputs /\ input \in Seq(Fragment!Byte) /\ Fragment!n \in Nat
  BY InputsAssumption DEF Fragment!n
<1> DEFINE buckets == Fragment!TableSize(Fragment!n)
<1>2. buckets \in Nat /\ buckets >= 1
  BY <1>1, TableSizeIs
<1>3. table = [h \in 0 .. buckets - 1 |-> 0] /\ nextHash = 0
  OBVIOUS
<1> HIDE DEF buckets
<1>4. table \in [0 .. buckets - 1 -> 0 .. Fragment!Uint16s - 1] /\ nextHash \in 0 .. buckets - 1
  BY <1>2, <1>3 DEF Fragment!Uint16s
<1>5. Fragment!TypeOK
  <2>1. /\ table \in [0 .. Fragment!TableSize(Fragment!n) - 1 -> 0 .. Fragment!Uint16s - 1]
        /\ nextHash \in 0 .. Fragment!TableSize(Fragment!n) - 1
    BY <1>4 DEF buckets
  <2>2. 0 \in 0 .. Fragment!n
    BY <1>1
  <2> QED
    BY <1>1, <2>1, <2>2 DEF Fragment!TypeOK
<1>6. PlacesAreRight
  BY DEF PlacesAreRight
<1>7. TableIsBehind
  BY <1>3 DEF TableIsBehind, Behind, buckets
<1>8. OutputIsShort
  BY <1>1 DEF OutputIsShort, Fragment!Emitted
<1> QED
  BY <1>1, <1>5, <1>6, <1>7, <1>8 DEF FragmentInv

LEMMA SameInput ==
  ASSUME input' = input
  PROVE  /\ Fragment!n' = Fragment!n
         /\ Fragment!TableSize(Fragment!n)' = Fragment!TableSize(Fragment!n)
BY DEF Fragment!n, Fragment!TableSize

LEMMA StartStep ==
  ASSUME FragmentInv, Fragment!Start
  PROVE  FragmentInv'
<1> USE DEF Fragment!Start
<1>1. input' = input /\ input \in Inputs /\ Fragment!TypeOK /\ Fragment!n' = Fragment!n
  BY SameInput DEF FragmentInv
<1>2. /\ fragmentPc = "start" /\ Fragment!n \in Nat /\ readEnd \in Nat /\ readEnd <= Fragment!n
      /\ nextEmit = 0 /\ Behind(1) /\ op \in Nat
      /\ 6 * op <= 7 * nextEmit /\ 6 * reach <= 7 * Fragment!n + 187
  BY <1>1, FragmentNumbers DEF FragmentInv, PlacesAreRight, TableIsBehind, OutputIsShort, Fragment!Emitted
<1>3. UNCHANGED <<table, nextIp, skip, candidate, nextEmit, offset, left, lessThan12, op, out, reach>>
  BY DEF Fragment!matchVars, Fragment!outputVars
<1>4. CASE Fragment!n >= Fragment!kInputMarginBytes
  <2>1. /\ Fragment!n >= 15 /\ ip' = 1 /\ nextHash' = Fragment!HashAt(1) /\ fragmentPc' = "outer"
        /\ readEnd' \in Nat /\ readEnd' <= Fragment!n
    BY <1>2, <1>4 DEF Fragment!kInputMarginBytes, Fragment!Max2
  <2>2. Fragment!HashAt(1) \in 0 .. Fragment!TableSize(Fragment!n) - 1
    BY <1>1, <1>2, <2>1, HashIn
  <2>3. Fragment!TypeOK'
    BY <1>1, <1>2, <1>3, <2>1, <2>2, SameInput DEF Fragment!TypeOK
  <2>4. PlacesAreRight'
    BY <1>1, <1>2, <1>3, <2>1 DEF PlacesAreRight, Fragment!HashAt, Fragment!n
  <2>5. TableIsBehind'
    BY <1>1, <1>2, <1>3, <2>1, SameInput DEF TableIsBehind, Behind
  <2>6. OutputIsShort'
    BY <1>1, <1>2, <1>3, <2>1 DEF OutputIsShort, Fragment!Emitted
  <2> QED
    BY <1>1, <2>3, <2>4, <2>5, <2>6 DEF FragmentInv
<1>5. CASE Fragment!n < Fragment!kInputMarginBytes
  <2>1. fragmentPc' = "remainder" /\ UNCHANGED <<ip, nextHash, readEnd>>
    BY <1>2, <1>5 DEF Fragment!kInputMarginBytes
  <2>2. Fragment!TypeOK'
    BY <1>1, <1>3, <2>1, SameInput DEF Fragment!TypeOK
  <2>3. OutputIsShort'
    BY <1>1, <1>2, <1>3, <2>1 DEF OutputIsShort, Fragment!Emitted
  <2> QED
    BY <1>1, <2>1, <2>2, <2>3 DEF FragmentInv, PlacesAreRight, TableIsBehind
<1> QED
  BY <1>2, <1>4, <1>5 DEF Fragment!kInputMarginBytes

LEMMA Uint16sIs == Fragment!Uint16s \in Nat /\ Fragment!Uint16s >= 1
BY DEF Fragment!Uint16s

\* The table keeps the low 16 bits of a position, which are the position.
LEMMA TableLearns ==
  ASSUME NEW t, NEW buckets \in Nat, t \in [0 .. buckets - 1 -> 0 .. Fragment!Uint16s - 1],
         NEW h \in 0 .. buckets - 1, NEW p \in Nat, p < Fragment!Uint16s,
         NEW bound \in Nat, \A g \in 0 .. buckets - 1 : t[g] < bound, bound <= p + 1
  PROVE  LET t2 == [t EXCEPT ![h] = p % Fragment!Uint16s]
         IN  /\ t2 \in [0 .. buckets - 1 -> 0 .. Fragment!Uint16s - 1]
             /\ \A g \in 0 .. buckets - 1 : t2[g] < p + 1
<1>1. p % Fragment!Uint16s = p /\ p \in 0 .. Fragment!Uint16s - 1
  BY Uint16sIs
<1> DEFINE t2 == [t EXCEPT ![h] = p]
<1>2. t2 \in [0 .. buckets - 1 -> 0 .. Fragment!Uint16s - 1]
  BY <1>1
<1>3. ASSUME NEW g \in 0 .. buckets - 1 PROVE t2[g] < p + 1
  <2>1. t2[g] = p \/ t2[g] = t[g]
    OBVIOUS
  <2>2. t[g] < bound /\ t[g] \in Int
    BY Uint16sIs
  <2> HIDE DEF t2
  <2> QED
    BY <2>1, <2>2
<1> QED
  BY <1>1, <1>2, <1>3

LEMMA BeginScanStep ==
  ASSUME FragmentInv, Fragment!BeginScan
  PROVE  FragmentInv'
<1> USE DEF Fragment!BeginScan
<1>1. input' = input /\ input \in Inputs /\ Fragment!TypeOK /\ Fragment!n' = Fragment!n
  BY SameInput DEF FragmentInv
<1>2. UNCHANGED <<table, ip, nextHash, candidate, nextEmit, offset, left, lessThan12, op, out, reach, readEnd>>
  BY DEF Fragment!matchVars, Fragment!outputVars
<1>3. /\ fragmentPc = "outer" /\ fragmentPc' = "scan" /\ skip' = 32 /\ nextIp' = ip
      /\ nextEmit < ip /\ ip + 14 <= Fragment!n /\ nextHash = Fragment!HashAt(ip) /\ Behind(ip)
      /\ ip \in Nat
  BY <1>1, FragmentNumbers DEF FragmentInv, PlacesAreRight, TableIsBehind
<1>4. Fragment!TypeOK'
  BY <1>1, <1>2, <1>3, SameInput DEF Fragment!TypeOK
<1>5. PlacesAreRight'
  BY <1>1, <1>2, <1>3 DEF PlacesAreRight, Fragment!HashAt, Fragment!n
<1>6. TableIsBehind'
  BY <1>1, <1>2, <1>3, SameInput DEF TableIsBehind, Behind
<1>7. OutputIsShort'
  BY <1>1, <1>2, <1>3 DEF FragmentInv, OutputIsShort, Fragment!Emitted
<1> QED
  BY <1>1, <1>4, <1>5, <1>6, <1>7 DEF FragmentInv

LEMMA ScanStep ==
  ASSUME FragmentInv, Fragment!Scan
  PROVE  FragmentInv'
<1> DEFINE between == skip \div 32
           next == nextIp + between
<1>0. /\ fragmentPc = "scan" /\ input' = input
      /\ ip' = nextIp /\ skip' = skip + between /\ nextIp' = next
      /\ IF next > Fragment!ipLimit
         THEN fragmentPc' = "remainder" /\ UNCHANGED <<nextHash, candidate, table, readEnd>>
         ELSE /\ nextHash' = Fragment!HashAt(next)
              /\ candidate' = table[nextHash]
              /\ table' = [table EXCEPT ![nextHash] = nextIp % Fragment!Uint16s]
              /\ readEnd' = Fragment!Max2(readEnd, next + 4)
              /\ fragmentPc' = IF Fragment!Load32(input, nextIp) = Fragment!Load32(input, table[nextHash])
                               THEN "literal" ELSE "scan"
  BY DEF Fragment!Scan
<1>1. input' = input /\ input \in Inputs /\ Fragment!TypeOK /\ Fragment!n' = Fragment!n
  BY <1>0, SameInput DEF FragmentInv
<1>2. UNCHANGED <<nextEmit, offset, left, lessThan12, op, out, reach>>
  BY DEF Fragment!Scan, Fragment!matchVars, Fragment!outputVars
<1>3. /\ fragmentPc = "scan" /\ nextEmit < nextIp /\ nextIp + 14 <= Fragment!n /\ skip >= 32
      /\ nextHash = Fragment!HashAt(nextIp) /\ Behind(nextIp)
      /\ 6 * op <= 7 * nextEmit /\ 6 * reach <= 7 * Fragment!n + 187 /\ readEnd <= Fragment!n
  <2>1. /\ nextEmit < nextIp /\ nextIp + 14 <= Fragment!n /\ skip >= 32
        /\ nextHash = Fragment!HashAt(nextIp) /\ Behind(nextIp)
    BY <1>0 DEF FragmentInv, PlacesAreRight, TableIsBehind
  <2>2. 6 * op <= 7 * nextEmit /\ 6 * reach <= 7 * Fragment!n + 187 /\ readEnd <= Fragment!n
    BY <1>0, <1>1, FragmentNumbers DEF FragmentInv, OutputIsShort, Fragment!Emitted
  <2> QED
    BY <1>0, <2>1, <2>2
<1>4. /\ Fragment!n \in Nat /\ Fragment!n <= Fragment!Uint16s /\ nextIp \in Nat /\ skip \in Nat
      /\ nextEmit \in Nat /\ readEnd \in Nat /\ op \in Nat /\ reach \in Nat
      /\ Fragment!ipLimit = Fragment!n - 15
  BY <1>1, FragmentNumbers
<1>5. between \in Nat /\ between >= 1
  BY <1>3, <1>4
<1> HIDE DEF between
<1>6. ip' = nextIp /\ skip' = skip + between /\ nextIp' = next /\ next \in Nat /\ next > nextIp
  BY <1>0, <1>4, <1>5
<1>7. CASE next > Fragment!ipLimit
  <2>1. fragmentPc' = "remainder" /\ UNCHANGED <<nextHash, candidate, table, readEnd>>
    BY <1>0, <1>7
  <2>2. ip' \in 0 .. Fragment!n /\ skip' \in Nat /\ nextIp' \in Nat
    BY <1>3, <1>4, <1>5, <1>6
  <2>3. Fragment!TypeOK'
    BY <1>1, <1>2, <2>1, <2>2, SameInput DEF Fragment!TypeOK
  <2>4. OutputIsShort'
    BY <1>1, <1>2, <1>3, <1>4, <2>1 DEF OutputIsShort, Fragment!Emitted
  <2> QED
    BY <1>1, <2>1, <2>3, <2>4 DEF FragmentInv, PlacesAreRight, TableIsBehind
<1>8. CASE next <= Fragment!ipLimit
  <2>1. /\ nextHash' = Fragment!HashAt(next)
        /\ candidate' = table[nextHash]
        /\ table' = [table EXCEPT ![nextHash] = nextIp % Fragment!Uint16s]
        /\ readEnd' = Fragment!Max2(readEnd, next + 4)
        /\ fragmentPc' = IF Fragment!Load32(input, nextIp) = Fragment!Load32(input, table[nextHash])
                         THEN "literal" ELSE "scan"
    BY <1>0, <1>4, <1>6, <1>8
  <2>2. next + 15 <= Fragment!n /\ next + 4 <= Fragment!n /\ nextIp + 15 < Fragment!n
    BY <1>4, <1>6, <1>8
  <2>3. nextHash' \in 0 .. Fragment!TableSize(Fragment!n) - 1
    BY <1>1, <1>6, <2>1, <2>2, HashIn
  <2> DEFINE buckets == Fragment!TableSize(Fragment!n)
  <2>4. /\ buckets \in Nat /\ table \in [0 .. buckets - 1 -> 0 .. Fragment!Uint16s - 1]
        /\ nextHash \in 0 .. buckets - 1 /\ \A h \in 0 .. buckets - 1 : table[h] < nextIp
    BY <1>1, <1>3, TableSizeIs DEF Fragment!TypeOK, Behind
  <2>5. candidate' \in Nat /\ candidate' < nextIp
    <3> HIDE DEF buckets
    <3> QED
      BY <2>1, <2>4, Uint16sIs
  <2>6. /\ table' \in [0 .. buckets - 1 -> 0 .. Fragment!Uint16s - 1]
        /\ \A h \in 0 .. buckets - 1 : table'[h] < nextIp + 1
    <3> HIDE DEF buckets
    <3>1. nextIp < Fragment!Uint16s /\ nextIp <= nextIp + 1
      BY <1>4, <2>2, Uint16sIs
    <3> QED
      BY <1>4, <2>1, <2>4, <3>1, TableLearns
  <2>7. \A h \in 0 .. buckets - 1 : table'[h] < next
    <3> HIDE DEF buckets
    <3>1. ASSUME NEW h \in 0 .. buckets - 1 PROVE table'[h] < next
      <4>1. table'[h] < nextIp + 1 /\ table'[h] \in Int
        BY <2>6, Uint16sIs
      <4> QED
        BY <1>4, <1>6, <4>1
    <3> QED
      BY <3>1
  <2>8. readEnd' \in Nat /\ readEnd' <= Fragment!n
    BY <1>3, <1>4, <1>6, <2>1, <2>2 DEF Fragment!Max2
  <2>9. /\ ip' \in 0 .. Fragment!n /\ candidate' \in 0 .. Fragment!n
        /\ skip' \in Nat /\ nextIp' \in Nat /\ skip' >= 32
    BY <1>3, <1>4, <1>5, <1>6, <2>2, <2>5
  <2>10. fragmentPc' = "literal" \/ fragmentPc' = "scan"
    BY <2>1
  <2>11. Fragment!TypeOK'
    BY <1>1, <1>2, <2>3, <2>6, <2>8, <2>9, <2>10, SameInput DEF Fragment!TypeOK
  <2>12. PlacesAreRight'
    <3>1. CASE fragmentPc' = "literal"
      <4>1. Fragment!Load32(input, nextIp) = Fragment!Load32(input, table[nextHash])
        BY <2>1, <3>1
      <4>2. Fragment!Load32(input, ip)' = Fragment!Load32(input, candidate)'
        BY <1>1, <1>6, <2>1, <4>1 DEF Fragment!Load32
      <4> QED
        BY <1>1, <1>2, <1>3, <1>6, <2>2, <2>5, <3>1, <4>2 DEF PlacesAreRight
    <3>2. CASE fragmentPc' = "scan"
      <4>1. nextHash' = Fragment!HashAt(nextIp)'
        BY <1>1, <1>6, <2>1 DEF Fragment!HashAt, Fragment!n
      <4>2. (nextEmit < nextIp)' /\ (nextIp + 14 <= Fragment!n)'
        BY <1>1, <1>2, <1>3, <1>4, <1>6, <2>2
      <4> QED
        BY <2>9, <3>2, <4>1, <4>2 DEF PlacesAreRight
    <3> QED
      BY <2>10, <3>1, <3>2
  <2>13. TableIsBehind'
    BY <1>1, <1>6, <2>6, <2>7, <2>10, SameInput DEF TableIsBehind, Behind
  <2>14. OutputIsShort'
    BY <1>1, <1>2, <1>3, <1>4, <2>8, <2>10 DEF OutputIsShort, Fragment!Emitted
  <2> QED
    BY <1>1, <2>11, <2>12, <2>13, <2>14 DEF FragmentInv
<1> QED
  BY <1>4, <1>6, <1>7, <1>8

\* A literal: the 16 bytes of the fast path are inside both buffers, and what it
\* costs beside its bytes is little.
LEMMA LiteralIsShort ==
  ASSUME input \in Inputs, Fragment!TypeOK, NEW to \in Nat, NEW fast \in BOOLEAN,
         Fragment!EmitLiteral(to, fast), nextEmit < to, to <= Fragment!n,
         fast => nextEmit + 16 <= Fragment!n,
         6 * op <= 7 * nextEmit, 6 * reach <= 7 * Fragment!n + 187, readEnd <= Fragment!n
  PROVE  /\ op' \in Nat /\ reach' \in Nat /\ readEnd' \in Nat
         /\ 6 * op' <= 7 * to + 5 /\ 6 * reach' <= 7 * Fragment!n + 187 /\ readEnd' <= Fragment!n
<1> DEFINE len == to - nextEmit
           extra == Fragment!LengthBytes(len)
           copied == IF fast /\ len <= 16 THEN 16 ELSE len
<1>1. /\ op' = op + 1 + extra + len
      /\ reach' = Fragment!Max2(reach, op + 1 + extra + copied)
      /\ readEnd' = Fragment!Max2(readEnd, nextEmit + copied)
  BY DEF Fragment!EmitLiteral
<1>2. Fragment!n \in Nat /\ nextEmit \in Nat /\ op \in Nat /\ reach \in Nat /\ readEnd \in Nat
  BY FragmentNumbers
<1>3. len \in Nat /\ len >= 1 /\ to = nextEmit + len
  BY <1>2
<1> HIDE DEF len
<1>4. extra \in Nat /\ 6 + 6 * extra <= len + 5 /\ (len <= 16 => extra = 0)
  BY <1>3 DEF Fragment!LengthBytes
<1> HIDE DEF extra
<1>5. copied \in Nat /\ copied >= len /\ nextEmit + copied <= Fragment!n
      /\ (copied = len \/ (copied = 16 /\ extra = 0))
  BY <1>2, <1>3, <1>4
<1> HIDE DEF copied
<1>6. op' \in Nat /\ 6 * op' <= 7 * to + 5
  BY <1>1, <1>2, <1>3, <1>4
<1>7. 6 * (op + 1 + extra + copied) <= 7 * Fragment!n + 187
  BY <1>2, <1>3, <1>4, <1>5
<1>8. reach' \in Nat /\ 6 * reach' <= 7 * Fragment!n + 187
  BY <1>1, <1>2, <1>4, <1>5, <1>7 DEF Fragment!Max2
<1>9. readEnd' \in Nat /\ readEnd' <= Fragment!n
  BY <1>1, <1>2, <1>5 DEF Fragment!Max2
<1> QED
  BY <1>6, <1>8, <1>9

LEMMA LiteralStep ==
  ASSUME FragmentInv, Fragment!EmitUnmatched
  PROVE  FragmentInv'
<1>1. /\ fragmentPc = "literal" /\ fragmentPc' = "match" /\ input' = input
      /\ Fragment!EmitLiteral(ip, TRUE)
      /\ UNCHANGED <<ip, nextEmit, offset, left, lessThan12, table, nextIp, nextHash, skip, candidate>>
  BY DEF Fragment!EmitUnmatched, Fragment!matchVars, Fragment!scanVars
<1>2. input \in Inputs /\ Fragment!TypeOK /\ Fragment!n' = Fragment!n
  BY <1>1, SameInput DEF FragmentInv
<1>3. /\ Fragment!n \in Nat /\ ip \in Nat /\ nextEmit \in Nat /\ op \in Nat
  BY <1>2, FragmentNumbers
<1>4. /\ nextEmit < ip /\ ip + 15 < Fragment!n /\ candidate < ip
      /\ Fragment!Load32(input, ip) = Fragment!Load32(input, candidate)
      /\ Behind(ip + 1)
  BY <1>1 DEF FragmentInv, PlacesAreRight, TableIsBehind
<1>5. 6 * op <= 7 * nextEmit /\ 6 * reach <= 7 * Fragment!n + 187 /\ readEnd <= Fragment!n
  BY <1>1, <1>3 DEF FragmentInv, OutputIsShort, Fragment!Emitted
<1>6. nextEmit + 16 <= Fragment!n /\ ip <= Fragment!n
  BY <1>3, <1>4
<1>7. /\ op' \in Nat /\ reach' \in Nat /\ readEnd' \in Nat
      /\ 6 * op' <= 7 * ip + 5 /\ 6 * reach' <= 7 * Fragment!n + 187 /\ readEnd' <= Fragment!n
  BY <1>1, <1>2, <1>3, <1>4, <1>5, <1>6, LiteralIsShort
<1>8. Fragment!TypeOK'
  BY <1>1, <1>2, <1>7, SameInput DEF Fragment!TypeOK
<1>9. PlacesAreRight'
  BY <1>1, <1>2, <1>4 DEF PlacesAreRight, Fragment!Load32
<1>10. TableIsBehind'
  BY <1>1, <1>2, <1>4, SameInput DEF TableIsBehind, Behind
<1>11. OutputIsShort'
  BY <1>1, <1>2, <1>7 DEF OutputIsShort, Fragment!Emitted
<1> QED
  BY <1>1, <1>2, <1>8, <1>9, <1>10, <1>11 DEF FragmentInv

LEMMA FindMatchStep ==
  ASSUME FragmentInv, Fragment!FindMatch
  PROVE  FragmentInv'
<1> DEFINE m == Fragment!MatchLength
<1>1. /\ fragmentPc = "match" /\ fragmentPc' = "copy" /\ input' = input
      /\ offset' = ip - candidate /\ left' = 4 + m /\ lessThan12' = (m < 8) /\ ip' = ip + 4 + m
      /\ UNCHANGED <<nextEmit, readEnd, table, nextIp, nextHash, skip, candidate, op, out, reach>>
  BY DEF Fragment!FindMatch, Fragment!outputVars, Fragment!scanVars
<1>2. input \in Inputs /\ Fragment!TypeOK /\ Fragment!n' = Fragment!n /\ input \in Seq(Fragment!Byte)
  BY <1>1, SameInput DEF FragmentInv, Fragment!TypeOK
<1>3. /\ Fragment!n \in Nat /\ ip \in Nat /\ candidate \in Nat /\ op \in Nat
      /\ Fragment!n <= Fragment!Uint16s /\ Fragment!Uint16s \in Nat
  BY <1>2, FragmentNumbers, Uint16sIs
<1>4. /\ ip + 15 < Fragment!n /\ candidate < ip /\ Behind(ip + 1)
      /\ Fragment!Load32(input, ip) = Fragment!Load32(input, candidate)
  BY <1>1 DEF FragmentInv, PlacesAreRight, TableIsBehind
<1>5. 6 * op <= 7 * ip + 5 /\ 6 * reach <= 7 * Fragment!n + 187 /\ readEnd <= Fragment!n
  BY <1>1, <1>3 DEF FragmentInv, OutputIsShort, Fragment!Emitted
<1>6. /\ m \in Nat /\ ip + 4 + m <= Fragment!n
      /\ \A i \in 1 .. m : input[candidate + 4 + i] = input[ip + 4 + i]
  <2>1. ip + 4 <= Fragment!n
    BY <1>3, <1>4
  <2> QED
    BY <1>2, <1>3, <2>1, MatchLengthIs
<1>7. \A j \in 1 .. 4 : input[ip + j] = input[candidate + j]
  <2>1. ip + 4 <= Fragment!n /\ candidate + 4 <= Fragment!n
    BY <1>3, <1>4
  <2> QED
    BY <1>2, <1>3, <1>4, <2>1, LoadsAgree
<1> HIDE DEF m
<1>8. /\ ip' \in Nat /\ ip' <= Fragment!n /\ offset' \in Nat /\ offset' >= 1 /\ offset' <= ip'
      /\ left' \in Nat /\ left' >= 4 /\ left' <= ip' /\ ip' - left' = ip /\ offset' + 4 <= ip'
      /\ offset' < Fragment!Uint16s
  BY <1>1, <1>3, <1>4, <1>6
<1>9. \A i \in ip' - 3 .. ip' : input[i] = input[i - offset']
  <2> SUFFICES ASSUME NEW i \in ip' - 3 .. ip' PROVE input[i] = input[i - offset']
    OBVIOUS
  <2> DEFINE j == i - ip
  <2>1. j \in Int /\ j >= 1 /\ j <= 4 + m /\ i = ip + j /\ i - offset' = candidate + j
    BY <1>1, <1>3, <1>6
  <2> HIDE DEF j
  <2>2. CASE j <= 4
    BY <1>7, <2>1, <2>2
  <2>3. CASE j > 4
    <3>1. j - 4 \in 1 .. m /\ candidate + 4 + (j - 4) = candidate + j /\ ip + 4 + (j - 4) = ip + j
      BY <1>3, <1>6, <2>1, <2>3
    <3>2. input[candidate + 4 + (j - 4)] = input[ip + 4 + (j - 4)]
      BY <1>6, <3>1
    <3> QED
      BY <2>1, <3>1, <3>2
  <2> QED
    BY <2>1, <2>2, <2>3
<1>10. Fragment!TypeOK'
  <2>1. ip' \in 0 .. Fragment!n /\ offset' \in 0 .. Fragment!n /\ left' \in 0 .. Fragment!n
    <3>1. /\ offset' \in Nat /\ left' \in Nat /\ ip' \in Nat /\ Fragment!n \in Nat
          /\ offset' <= ip' /\ left' <= ip' /\ ip' <= Fragment!n
      BY <1>3, <1>8
    <3> QED
      BY <3>1
  <2>2. lessThan12' \in BOOLEAN
    BY <1>1
  <2> QED
    BY <1>1, <1>2, <2>1, <2>2, SameInput DEF Fragment!TypeOK
<1>11. PlacesAreRight'
  <2>1. lessThan12' => left' < 12
    <3>1. CASE m < 8
      BY <1>1, <1>6, <3>1
    <3>2. CASE ~(m < 8)
      <4>1. lessThan12' = (m < 8)
        BY <1>1
      <4>2. ~lessThan12'
        BY <3>2, <4>1, Zenon
      <4> QED
        BY <4>2
    <3> QED
      BY <3>1, <3>2
  <2>2. offset' \in 1 .. Fragment!Uint16s - 1 /\ Fragment!n >= 15
    BY <1>3, <1>4, <1>8
  <2> QED
    BY <1>1, <1>2, <1>8, <1>9, <2>1, <2>2 DEF PlacesAreRight
<1>12. TableIsBehind'
  <2> DEFINE buckets == Fragment!TableSize(Fragment!n)
  <2>1. \A h \in 0 .. buckets - 1 : table[h] < ip + 1 /\ table[h] \in 0 .. Fragment!Uint16s - 1
    BY <1>2, <1>4 DEF Behind, Fragment!TypeOK
  <2> HIDE DEF buckets
  <2>2. \A h \in 0 .. buckets - 1 : table[h] < ip'
    BY <1>1, <1>3, <1>6, <2>1
  <2> QED
    BY <1>1, <2>2, SameInput DEF TableIsBehind, Behind, buckets
<1>13. OutputIsShort'
  BY <1>1, <1>2, <1>5, <1>8 DEF OutputIsShort, Fragment!Emitted
<1> QED
  BY <1>1, <1>2, <1>10, <1>11, <1>12, <1>13 DEF FragmentInv

LEMMA PieceIs ==
  ASSUME left \in Nat, left >= 4, lessThan12 \in BOOLEAN, lessThan12 => left < 12
  PROVE  /\ Fragment!Piece \in Nat /\ Fragment!Piece \in 4 .. 64 /\ Fragment!Piece <= left
         /\ left - Fragment!Piece = 0 \/ left - Fragment!Piece >= 4
         /\ Fragment!PieceLessThan12 <=> Fragment!Piece < 12
         /\ Fragment!PieceLessThan12 \in BOOLEAN
<1>1. /\ Fragment!Piece \in Nat /\ Fragment!Piece >= 4 /\ Fragment!Piece <= 64 /\ Fragment!Piece <= left
      /\ left - Fragment!Piece = 0 \/ left - Fragment!Piece >= 4
      /\ Fragment!Piece < 12 <=> left < 12
  BY DEF Fragment!Piece
<1>2. Fragment!PieceLessThan12 <=> left < 12
  BY DEF Fragment!PieceLessThan12
<1>3. Fragment!PieceLessThan12 \in BOOLEAN
  BY DEF Fragment!PieceLessThan12
<1> QED
  BY <1>1, <1>2, <1>3

LEMMA PieceStep ==
  ASSUME FragmentInv, Fragment!EmitPiece
  PROVE  FragmentInv'
<1> DEFINE piece == Fragment!Piece
           tag == Fragment!CopyTag(offset, piece, Fragment!PieceLessThan12)
<1>1. /\ fragmentPc = "copy" /\ input' = input
      /\ op' = op + Len(tag) /\ reach' = Fragment!Max2(reach, op + IF Len(tag) = 2 THEN 2 ELSE 4)
      /\ left' = left - piece /\ fragmentPc' = (IF left' = 0 THEN "copied" ELSE "copy")
      /\ UNCHANGED <<ip, nextEmit, offset, lessThan12, readEnd, table, nextIp, nextHash, skip, candidate>>
  BY DEF Fragment!EmitPiece, Fragment!scanVars
<1>2. Len(tag) \in {2, 3}
  BY DEF Fragment!CopyTag
<1> HIDE DEF tag
<1>3. input \in Inputs /\ Fragment!TypeOK /\ Fragment!n' = Fragment!n
  BY <1>1, SameInput DEF FragmentInv
<1>4. /\ Fragment!n \in Nat /\ ip \in Nat /\ left \in Nat /\ op \in Nat /\ reach \in Nat
      /\ ip <= Fragment!n /\ lessThan12 \in BOOLEAN
  BY <1>3, FragmentNumbers DEF Fragment!TypeOK
<1>5. /\ Fragment!n >= 15 /\ offset \in 1 .. Fragment!Uint16s - 1 /\ offset + 4 <= ip
      /\ \A i \in ip - 3 .. ip : input[i] = input[i - offset]
      /\ left >= 4 /\ left <= ip /\ (lessThan12 => left < 12) /\ Behind(ip)
  BY <1>1 DEF FragmentInv, PlacesAreRight, TableIsBehind
<1>6. 6 * op <= 7 * (ip - left) + 5 /\ 6 * reach <= 7 * Fragment!n + 187 /\ readEnd <= Fragment!n
  BY <1>1, <1>4 DEF FragmentInv, OutputIsShort, Fragment!Emitted
<1>7. piece \in Nat /\ piece >= 4 /\ piece <= left /\ (left - piece = 0 \/ left - piece >= 4)
  BY <1>4, <1>5, PieceIs
<1> HIDE DEF piece
<1>8. left' \in Nat /\ left' <= left /\ (left' = 0 \/ left' >= 4)
  BY <1>1, <1>4, <1>7
<1>9. op' \in Nat /\ reach' \in Nat /\ 6 * op' <= 7 * (ip - left') /\ 6 * op' <= 7 * (ip - left') + 5
      /\ 6 * reach' <= 7 * Fragment!n + 187
  <2>1. op' \in Nat /\ 6 * op' <= 7 * (ip - left') /\ 6 * op' <= 7 * (ip - left') + 5
    <3> DEFINE t == Len(tag)
    <3>0. op' = op + t /\ left' = left - piece
      BY <1>1
    <3>1. t \in Nat /\ t <= 3
      <4>1. t = 2 \/ t = 3
        BY <1>2
      <4> HIDE DEF t
      <4> QED
        BY <4>1
    <3> HIDE DEF t
    <3>2. 6 * (op + t) = 6 * op + 6 * t /\ 7 * (ip - (left - piece)) = 7 * (ip - left) + 7 * piece
      BY <1>4, <1>7, <3>1
    <3> QED
      BY <1>4, <1>6, <1>7, <3>0, <3>1, <3>2
  <2>2. 6 * (op + 4) <= 7 * Fragment!n + 187
    BY <1>4, <1>5, <1>6
  <2> QED
    BY <1>1, <1>4, <1>6, <2>1, <2>2 DEF Fragment!Max2
<1>10. Fragment!TypeOK'
  <2>1. left' \in 0 .. Fragment!n
    BY <1>4, <1>5, <1>8
  <2> QED
    BY <1>1, <1>3, <1>9, <2>1, SameInput DEF Fragment!TypeOK
<1>11. PlacesAreRight'
  <2>1. fragmentPc' = "copy" => left' >= 4
    BY <1>1, <1>8
  <2>2. left' <= ip /\ (lessThan12 => left' < 12) /\ fragmentPc' \in {"copy", "copied"}
    BY <1>1, <1>4, <1>5, <1>8
  <2> QED
    BY <1>1, <1>3, <1>5, <2>1, <2>2 DEF PlacesAreRight
<1>12. TableIsBehind'
  BY <1>1, <1>5, SameInput DEF TableIsBehind, Behind
<1>13. OutputIsShort'
  <2>1. CASE fragmentPc' = "copied"
    <3>1. left' = 0 /\ ip - left' = ip
      BY <1>1, <1>4, <2>1
    <3> QED
      BY <1>1, <1>3, <1>4, <1>6, <1>9, <2>1, <3>1 DEF OutputIsShort, Fragment!Emitted
  <2>2. CASE fragmentPc' = "copy"
    BY <1>1, <1>3, <1>6, <1>9, <2>2 DEF OutputIsShort, Fragment!Emitted
  <2> QED
    BY <1>1, <2>1, <2>2
<1> QED
  BY <1>1, <1>3, <1>10, <1>11, <1>12, <1>13 DEF FragmentInv

LEMMA AfterCopyStep ==
  ASSUME FragmentInv, Fragment!AfterCopy
  PROVE  FragmentInv'
<1> DEFINE prevHash == Fragment!HashAt(ip - 1)
           curHash == Fragment!HashAt(ip)
           table1 == [table EXCEPT ![prevHash] = (ip - 1) % Fragment!Uint16s]
           table2 == [table1 EXCEPT ![curHash] = ip % Fragment!Uint16s]
           known == table1[curHash]
           again == Fragment!Load32(input, ip) = Fragment!Load32(input, known)
<1>1. /\ fragmentPc = "copied" /\ input' = input /\ nextEmit' = ip
      /\ IF ip >= Fragment!ipLimit
         THEN fragmentPc' = "remainder" /\ UNCHANGED <<ip, table, candidate, nextHash, readEnd>>
         ELSE /\ table' = table2 /\ candidate' = known
              /\ readEnd' = Fragment!Max2(readEnd, ip + 7)
              /\ IF again
                 THEN fragmentPc' = "match" /\ UNCHANGED <<ip, nextHash>>
                 ELSE fragmentPc' = "outer" /\ ip' = ip + 1 /\ nextHash' = Fragment!HashAt(ip + 1)
      /\ UNCHANGED <<nextIp, skip, offset, left, lessThan12, op, out, reach>>
  BY DEF Fragment!AfterCopy, Fragment!AfterCopyReading, Fragment!matchVars, Fragment!outputVars
<1>2. input \in Inputs /\ Fragment!TypeOK /\ Fragment!n' = Fragment!n
  BY <1>1, SameInput DEF FragmentInv
<1>3. /\ Fragment!n \in Nat /\ ip \in Nat /\ op \in Nat /\ reach \in Nat /\ readEnd \in Nat
      /\ ip <= Fragment!n /\ Fragment!n <= Fragment!Uint16s /\ Fragment!Uint16s \in Nat
      /\ Fragment!ipLimit = Fragment!n - 15
  BY <1>2, FragmentNumbers, Uint16sIs
<1>4. offset >= 1 /\ offset \in Nat /\ offset + 4 <= ip /\ ip >= 5 /\ Behind(ip)
  <2>1. offset \in 1 .. Fragment!Uint16s - 1 /\ offset + 4 <= ip /\ Behind(ip)
    BY <1>1 DEF FragmentInv, PlacesAreRight, TableIsBehind
  <2> QED
    BY <1>3, <2>1
<1>5. 6 * op <= 7 * ip /\ 6 * reach <= 7 * Fragment!n + 187 /\ readEnd <= Fragment!n
  BY <1>1, <1>3 DEF FragmentInv, OutputIsShort, Fragment!Emitted
<1>6. CASE ip >= Fragment!ipLimit
  <2>1. fragmentPc' = "remainder" /\ UNCHANGED <<ip, table, candidate, nextHash, readEnd>>
    BY <1>1, <1>6
  <2>2. nextEmit' \in 0 .. Fragment!n
    BY <1>1, <1>3
  <2>3. Fragment!TypeOK'
    BY <1>1, <1>2, <2>1, <2>2, SameInput DEF Fragment!TypeOK
  <2>4. OutputIsShort'
    BY <1>1, <1>2, <1>3, <1>5, <2>1 DEF OutputIsShort, Fragment!Emitted
  <2> QED
    BY <1>1, <1>2, <2>1, <2>3, <2>4 DEF FragmentInv, PlacesAreRight, TableIsBehind
<1>7. CASE ip < Fragment!ipLimit
  <2> DEFINE buckets == Fragment!TableSize(Fragment!n)
  <2>1. ip + 15 < Fragment!n /\ ip - 1 \in Nat /\ ip - 1 + 4 <= Fragment!n /\ ip + 1 + 4 <= Fragment!n
    BY <1>3, <1>4, <1>7
  <2>2. /\ table' = table2 /\ candidate' = known
        /\ readEnd' = Fragment!Max2(readEnd, ip + 7)
        /\ IF again
           THEN fragmentPc' = "match" /\ UNCHANGED <<ip, nextHash>>
           ELSE fragmentPc' = "outer" /\ ip' = ip + 1 /\ nextHash' = Fragment!HashAt(ip + 1)
    BY <1>1, <1>3, <1>7
  <2>3. /\ prevHash \in 0 .. buckets - 1 /\ curHash \in 0 .. buckets - 1
        /\ Fragment!HashAt(ip + 1) \in 0 .. buckets - 1
    BY <1>2, <1>3, <2>1, HashIn
  <2>4. /\ buckets \in Nat /\ table \in [0 .. buckets - 1 -> 0 .. Fragment!Uint16s - 1]
        /\ \A h \in 0 .. buckets - 1 : table[h] < ip
    BY <1>2, <1>4, TableSizeIs DEF Fragment!TypeOK, Behind
  <2> HIDE DEF buckets, prevHash, curHash
  <2>5. /\ table1 \in [0 .. buckets - 1 -> 0 .. Fragment!Uint16s - 1]
        /\ \A h \in 0 .. buckets - 1 : table1[h] < ip - 1 + 1
    <3>1. ip - 1 < Fragment!Uint16s /\ ip <= ip - 1 + 1
      BY <1>3, <2>1
    <3> QED
      BY <1>3, <2>1, <2>3, <2>4, <3>1, TableLearns
  <2> HIDE DEF table1
  <2>6. \A h \in 0 .. buckets - 1 : table1[h] < ip
    BY <1>3, <2>5
  <2>7. /\ table2 \in [0 .. buckets - 1 -> 0 .. Fragment!Uint16s - 1]
        /\ \A h \in 0 .. buckets - 1 : table2[h] < ip + 1
    <3>1. ip < Fragment!Uint16s /\ ip <= ip + 1
      BY <1>3, <2>1
    <3> QED
      BY <1>3, <2>3, <2>4, <2>5, <2>6, <3>1, TableLearns
  <2> HIDE DEF table2
  <2>8. known \in Nat /\ known < ip
    BY <1>3, <2>3, <2>5, <2>6
  <2> HIDE DEF known
  <2>9. readEnd' \in Nat /\ readEnd' <= Fragment!n
    BY <1>3, <1>5, <2>1, <2>2 DEF Fragment!Max2
  <2>10. candidate' \in 0 .. Fragment!n /\ nextEmit' \in 0 .. Fragment!n
    BY <1>1, <1>3, <2>2, <2>8
  <2>11. CASE again
    <3>1. fragmentPc' = "match" /\ UNCHANGED <<ip, nextHash>>
      BY <2>2, <2>11
    <3>2. Fragment!TypeOK'
      BY <1>1, <1>2, <2>2, <2>7, <2>9, <2>10, <3>1, SameInput DEF Fragment!TypeOK, buckets
    <3>3. PlacesAreRight'
      BY <1>1, <1>2, <2>1, <2>2, <2>8, <2>11, <3>1 DEF PlacesAreRight, Fragment!Load32
    <3>4. TableIsBehind'
      BY <1>1, <2>2, <2>7, <3>1, SameInput DEF TableIsBehind, Behind, buckets
    <3>5. OutputIsShort'
      BY <1>1, <1>2, <1>3, <1>5, <2>9, <3>1 DEF OutputIsShort, Fragment!Emitted
    <3> QED
      BY <1>1, <1>2, <3>2, <3>3, <3>4, <3>5 DEF FragmentInv
  <2>12. CASE ~again
    <3>1. fragmentPc' = "outer" /\ ip' = ip + 1 /\ nextHash' = Fragment!HashAt(ip + 1)
      BY <2>2, <2>12
    <3>2. ip' \in 0 .. Fragment!n /\ (nextEmit < ip)' /\ (ip + 14 <= Fragment!n)'
      BY <1>1, <1>2, <1>3, <2>1, <3>1
    <3>3. Fragment!TypeOK'
      BY <1>1, <1>2, <2>2, <2>3, <2>7, <2>9, <2>10, <3>1, <3>2, SameInput DEF Fragment!TypeOK, buckets
    <3>4. PlacesAreRight'
      <4>1. nextHash' = Fragment!HashAt(ip)'
        BY <1>1, <3>1 DEF Fragment!HashAt, Fragment!n
      <4> QED
        BY <3>1, <3>2, <4>1 DEF PlacesAreRight
    <3>5. TableIsBehind'
      BY <1>1, <2>2, <2>7, <3>1, SameInput DEF TableIsBehind, Behind, buckets
    <3>6. OutputIsShort'
      BY <1>1, <1>2, <1>3, <1>5, <2>9, <3>1 DEF OutputIsShort, Fragment!Emitted
    <3> QED
      BY <1>1, <1>2, <3>3, <3>4, <3>5, <3>6 DEF FragmentInv
  <2> QED
    BY <2>11, <2>12
<1> QED
  BY <1>3, <1>6, <1>7

LEMMA RemainderStep ==
  ASSUME FragmentInv, Fragment!EmitRemainder
  PROVE  FragmentInv'
<1>1. /\ fragmentPc = "remainder" /\ fragmentPc' = "done" /\ input' = input
      /\ IF nextEmit < Fragment!n
         THEN Fragment!EmitLiteral(Fragment!n, FALSE)
         ELSE UNCHANGED <<op, out, reach, readEnd>>
      /\ UNCHANGED <<ip, nextEmit, offset, left, lessThan12, table, nextIp, nextHash, skip, candidate>>
  BY DEF Fragment!EmitRemainder, Fragment!matchVars, Fragment!scanVars, Fragment!outputVars
<1>2. input \in Inputs /\ Fragment!TypeOK /\ Fragment!n' = Fragment!n
  BY <1>1, SameInput DEF FragmentInv
<1>3. /\ Fragment!n \in Nat /\ nextEmit \in Nat /\ nextEmit <= Fragment!n /\ op \in Nat /\ reach \in Nat
      /\ readEnd \in Nat
  BY <1>2, FragmentNumbers
<1>4. 6 * op <= 7 * nextEmit /\ 6 * reach <= 7 * Fragment!n + 187 /\ readEnd <= Fragment!n
  BY <1>1, <1>3 DEF FragmentInv, OutputIsShort, Fragment!Emitted
<1>5. /\ op' \in Nat /\ reach' \in Nat /\ readEnd' \in Nat
      /\ 6 * op' <= 7 * Fragment!n + 5 /\ 6 * reach' <= 7 * Fragment!n + 187 /\ readEnd' <= Fragment!n
  <2>1. CASE nextEmit < Fragment!n
    <3>1. Fragment!EmitLiteral(Fragment!n, FALSE)
      BY <1>1, <2>1
    <3>2. Fragment!n <= Fragment!n /\ (FALSE => nextEmit + 16 <= Fragment!n) /\ FALSE \in BOOLEAN
      BY <1>3
    <3> QED
      BY <1>2, <1>3, <1>4, <2>1, <3>1, <3>2, LiteralIsShort
  <2>2. CASE ~(nextEmit < Fragment!n)
    <3>1. UNCHANGED <<op, reach, readEnd>>
      BY <1>1, <2>2
    <3>2. 6 * op <= 7 * Fragment!n + 5
      BY <1>3, <1>4
    <3> QED
      BY <1>3, <1>4, <3>1, <3>2
  <2> QED
    BY <2>1, <2>2
<1>6. Fragment!TypeOK'
  BY <1>1, <1>2, <1>5, SameInput DEF Fragment!TypeOK
<1>7. PlacesAreRight' /\ TableIsBehind'
  BY <1>1 DEF PlacesAreRight, TableIsBehind
<1>8. OutputIsShort'
  BY <1>1, <1>2, <1>5 DEF OutputIsShort, Fragment!Emitted
<1> QED
  BY <1>1, <1>2, <1>6, <1>7, <1>8 DEF FragmentInv

LEMMA FragmentStutter ==
  ASSUME FragmentInv, UNCHANGED Fragment!vars
  PROVE  FragmentInv'
<1>1. UNCHANGED <<input, table, ip, nextIp, nextHash, skip, candidate, nextEmit, offset, left,
                  lessThan12, op, reach, readEnd, fragmentPc>>
  BY DEF Fragment!vars
<1>2. Fragment!n' = Fragment!n
  BY <1>1, SameInput
<1>3. Fragment!TypeOK'
  BY <1>1, <1>2, SameInput DEF FragmentInv, Fragment!TypeOK
<1>4. PlacesAreRight'
  BY <1>1, <1>2 DEF FragmentInv, PlacesAreRight, Fragment!Load32, Fragment!HashAt, Fragment!n
<1>5. TableIsBehind'
  BY <1>1, SameInput DEF FragmentInv, TableIsBehind, Behind
<1>6. OutputIsShort'
  BY <1>1, <1>2 DEF FragmentInv, OutputIsShort, Fragment!Emitted
<1> QED
  BY <1>1, <1>3, <1>4, <1>5, <1>6 DEF FragmentInv

LEMMA FragmentNext == FragmentInv /\ [Fragment!Next]_Fragment!vars => FragmentInv'
BY StartStep, BeginScanStep, ScanStep, LiteralStep, FindMatchStep, PieceStep, AfterCopyStep,
   RemainderStep, FragmentStutter DEF Fragment!Next, Fragment!Returned

\* 6/7 of what is written is the bound, since a division by 6 loses at most 5/6.
LEMMA FragmentStaysInside == FragmentInv => Fragment!InsideBuffers
<1> SUFFICES ASSUME FragmentInv PROVE Fragment!InsideBuffers
  OBVIOUS
<1>1. /\ Fragment!n \in Nat /\ reach \in Nat /\ 6 * reach <= 7 * Fragment!n + 187 /\ readEnd <= Fragment!n
  BY FragmentNumbers DEF FragmentInv, OutputIsShort
<1>2. PICK q, r \in Nat : r <= 5 /\ Fragment!n = 6 * q + r /\ Fragment!n \div 6 = q
  <2>1. /\ Fragment!n \div 6 \in Nat /\ Fragment!n % 6 \in Nat /\ Fragment!n % 6 <= 5
        /\ Fragment!n = 6 * (Fragment!n \div 6) + (Fragment!n % 6)
    BY <1>1
  <2> QED
    BY <2>1
<1>3. reach <= 32 + Fragment!n + q
  BY <1>1, <1>2
<1> QED
  BY <1>1, <1>2, <1>3 DEF Fragment!InsideBuffers, Fragment!MaxCompressedLength

LEMMA AnyFragmentInit == AnyInit => FragmentInv
BY FragmentInit DEF AnyInit, FragmentWaits

LEMMA AnyFragmentNext == FragmentInv /\ [AnyNext]_allVars => FragmentInv'
BY FragmentNext
   DEF AnyNext, WordsRun, HalvesRun, OnlyMatch, FragmentRuns, BlocksRun, OnlyBlocks, allVars,
       fragmentVars, Fragment!vars

\* CompressFragment reads no byte behind its block and writes none behind the buffer
\* of MaxCompressedLength bytes, whatever it is given to compress and whatever the
\* hash function; and the buffers of Compress suffice for every block.
THEOREM BuffersAreNotOverrun == AnySpec => []InsideBuffers
<1>1. FragmentInv /\ AnyBlocksInv => InsideBuffers
  BY FragmentStaysInside, BlocksImply DEF InsideBuffers, AnyBlocksInv
<1> QED
  BY <1>1, AnyFragmentInit, AnyFragmentNext, AnyBlocksInit, AnyBlocksNext, PTL DEF AnySpec

-----------------------------------------------------------------------------
(* What CompressFragment writes *)

\* The module of the proofs about the format instantiates the format once more.
LEMMA SameFormat ==
  /\ Format!Byte = Fragment!Byte
  /\ \A s, limit : Format!Decode(s, limit) = Fragment!Decode(s, limit)
  /\ \A len : Format!LiteralTag(len) = Fragment!LiteralTag(len)
  /\ \A len : Format!LengthBytes(len) = Fragment!LengthBytes(len)
  /\ \A d, len, b : Format!CopyTag(d, len, b) = Fragment!CopyTag(d, len, b)
<1>1. Format!Byte = Fragment!Byte
  BY DEF Format!Byte, Fragment!Byte
<1>2. \A s, limit : Format!Decode(s, limit) = Fragment!Decode(s, limit)
  BY DEF Format!Decode, Format!DecodeFrom, Format!ElementEnd, Format!ElementBytes,
     Format!ElementIsLegal, Format!ElementBody, Format!TagExtra, Format!IsLiteral,
     Format!LITERAL, Format!COPY_1_BYTE_OFFSET, Format!COPY_2_BYTE_OFFSET,
     Format!ElementLength, Format!ElementOffset, Format!Load32Masked, Format!Repeated,
     Format!Huge, Format!Byte,
     Fragment!Decode, Fragment!DecodeFrom, Fragment!ElementEnd, Fragment!ElementBytes,
     Fragment!ElementIsLegal, Fragment!ElementBody, Fragment!TagExtra, Fragment!IsLiteral,
     Fragment!LITERAL, Fragment!COPY_1_BYTE_OFFSET, Fragment!COPY_2_BYTE_OFFSET,
     Fragment!ElementLength, Fragment!ElementOffset, Fragment!Load32Masked, Fragment!Repeated,
     Fragment!Huge, Fragment!Byte
<1>3. \A len : Format!LengthBytes(len) = Fragment!LengthBytes(len)
  BY DEF Format!LengthBytes, Fragment!LengthBytes
<1>4. \A len : Format!LiteralTag(len) = Fragment!LiteralTag(len)
  BY <1>3 DEF Format!LiteralTag, Fragment!LiteralTag, Format!LITERAL, Fragment!LITERAL
<1>5. \A d, len, b : Format!CopyTag(d, len, b) = Fragment!CopyTag(d, len, b)
  BY DEF Format!CopyTag, Fragment!CopyTag, Format!COPY_1_BYTE_OFFSET, Format!COPY_2_BYTE_OFFSET,
     Fragment!COPY_1_BYTE_OFFSET, Fragment!COPY_2_BYTE_OFFSET
<1> QED
  BY <1>1, <1>2, <1>3, <1>4, <1>5

(***************************************************************************)
(* The inductive invariant.  What is written is a stream that decodes to   *)
(* the part of the input it stands for.  While a match is emitted, all of  *)
(* the rest of it is equal to the bytes "offset" before, and these begin   *)
(* in the part of the input that the decoder has by then.                  *)
(***************************************************************************)
Echoes(s, k) == /\ s \in Seq(Fragment!Byte)
                /\ Fragment!Decode(s, Fragment!n).ok
                /\ Fragment!Decode(s, Fragment!n).out = SubSeq(input, 1, k)

MatchIsCopied ==
  fragmentPc = "copy" => offset + left <= ip /\ Format!Matches(input, ip - left, left, offset)

EchoInv == Echoes(out, Fragment!Emitted) /\ op = Len(out) /\ MatchIsCopied

LEMMA EchoIs == EchoInv => Fragment!RoundTrip
BY DEF EchoInv, Echoes, Fragment!RoundTrip

LEMMA EchoInit == Fragment!Init => EchoInv
<1> SUFFICES ASSUME Fragment!Init PROVE EchoInv
  OBVIOUS
<1>1. /\ out = <<>> /\ op = 0 /\ fragmentPc = "start" /\ nextEmit = 0 /\ input \in Seq(Fragment!Byte)
  BY InputsAssumption DEF Fragment!Init
<1>2. Fragment!Emitted = 0 /\ Fragment!n \in Nat
  BY <1>1 DEF Fragment!Emitted, Fragment!n
<1>3. Format!Decode(<<>>, Fragment!n) = [out |-> <<>>, ok |-> TRUE]
  BY <1>2, Format!NothingDecodes
<1>4. Fragment!Decode(<<>>, Fragment!n) = [out |-> <<>>, ok |-> TRUE]
  BY <1>3, SameFormat, Zenon
<1>5. SubSeq(input, 1, 0) = <<>> /\ <<>> \in Seq(Fragment!Byte)
  BY <1>1
<1>6. Echoes(<<>>, 0)
  <2>1. Fragment!Decode(<<>>, Fragment!n).ok /\ Fragment!Decode(<<>>, Fragment!n).out = <<>>
    BY <1>4
  <2> QED
    BY <1>5, <2>1, Zenon DEF Echoes
<1> QED
  BY <1>1, <1>2, <1>6 DEF EchoInv, MatchIsCopied

\* The steps that write nothing.
LEMMA EchoStays ==
  ASSUME EchoInv, UNCHANGED <<input, op, out>>, Fragment!Emitted' = Fragment!Emitted, MatchIsCopied'
  PROVE  EchoInv'
<1>1. Fragment!n' = Fragment!n
  BY SameInput
<1>2. Echoes(out, Fragment!Emitted) /\ op = Len(out)
  BY DEF EchoInv
<1>3. Echoes(out, Fragment!Emitted)'
  BY <1>1, <1>2 DEF Echoes
<1> QED
  BY <1>2, <1>3 DEF EchoInv

\* EmitLiteral writes what stands for the bytes from nextEmit on.
LEMMA LiteralGoesOn ==
  ASSUME input \in Inputs, Fragment!TypeOK, op = Len(out), Echoes(out, nextEmit),
         NEW to \in Nat, NEW fast \in BOOLEAN,
         Fragment!EmitLiteral(to, fast), nextEmit < to, to <= Fragment!n
  PROVE  Echoes(out', to) /\ op' = Len(out')
<1> DEFINE len == to - nextEmit
           next == out \o Fragment!LiteralTag(len) \o SubSeq(input, nextEmit + 1, to)
<1>1. out' = next /\ op' = op + 1 + Fragment!LengthBytes(len) + len
  BY DEF Fragment!EmitLiteral
<1>2. /\ nextEmit \in Nat /\ Fragment!n \in Nat /\ Fragment!n = Len(input)
      /\ Fragment!n <= Fragment!Uint16s /\ input \in Seq(Fragment!Byte) /\ op \in Nat
  BY FragmentNumbers, InputsAssumption
<1>3. len \in Nat \ {0} /\ len <= Fragment!Uint16s
  BY <1>2 DEF Fragment!Uint16s
<1>4. Format!LengthBytes(len) # 3
  <2> HIDE DEF len
  <2>1. len <= 65536
    BY <1>3 DEF Fragment!Uint16s
  <2> QED
    BY <1>3, <2>1, Format!LengthBytesIs
<1>5. LET t == out \o Format!LiteralTag(len) \o SubSeq(input, nextEmit + 1, to)
      IN  /\ t \in Seq(Format!Byte) /\ Len(t) = Len(out) + 1 + Format!LengthBytes(len) + len
          /\ Format!Decode(t, Len(input)).ok
          /\ Format!Decode(t, Len(input)).out = SubSeq(input, 1, to)
  <2>1. /\ out \in Seq(Format!Byte) /\ input \in Seq(Format!Byte)
        /\ Format!Decode(out, Len(input)).ok
        /\ Format!Decode(out, Len(input)).out = SubSeq(input, 1, nextEmit)
    BY <1>2, SameFormat, Zenon DEF Echoes
  <2>2. nextEmit \in Nat /\ to <= Len(input)
    BY <1>2
  <2> QED
    BY <1>4, <2>1, <2>2, Format!LiteralEchoes, Zenon
<1> HIDE DEF len
<1>6. /\ next \in Seq(Fragment!Byte) /\ Len(next) = Len(out) + 1 + Fragment!LengthBytes(len) + len
      /\ Fragment!Decode(next, Len(input)).ok
      /\ Fragment!Decode(next, Len(input)).out = SubSeq(input, 1, to)
  BY <1>5, SameFormat, Zenon
<1> HIDE DEF next
<1> QED
  BY <1>1, <1>2, <1>6, Zenon DEF Echoes

LEMMA LiteralEchoStep ==
  ASSUME FragmentInv, EchoInv, Fragment!EmitUnmatched
  PROVE  EchoInv'
<1>1. /\ fragmentPc = "literal" /\ fragmentPc' = "match" /\ input' = input
      /\ Fragment!EmitLiteral(ip, TRUE) /\ ip' = ip
  BY DEF Fragment!EmitUnmatched
<1>2. input \in Inputs /\ Fragment!TypeOK /\ Fragment!n' = Fragment!n /\ nextEmit < ip
  BY <1>1, SameInput DEF FragmentInv, PlacesAreRight
<1>3. ip \in Nat /\ ip <= Fragment!n
  BY <1>2, FragmentNumbers
<1>4. Echoes(out, nextEmit) /\ op = Len(out)
  BY <1>1 DEF EchoInv, Fragment!Emitted
<1>5. Echoes(out', ip) /\ op' = Len(out')
  BY <1>1, <1>2, <1>3, <1>4, LiteralGoesOn
<1>6. Fragment!Emitted' = ip
  BY <1>1 DEF Fragment!Emitted
<1>7. Echoes(out, Fragment!Emitted)'
  BY <1>1, <1>2, <1>5, <1>6 DEF Echoes
<1> QED
  BY <1>1, <1>5, <1>7 DEF EchoInv, MatchIsCopied

LEMMA RemainderEchoStep ==
  ASSUME FragmentInv, EchoInv, Fragment!EmitRemainder
  PROVE  EchoInv'
<1>1. /\ fragmentPc = "remainder" /\ fragmentPc' = "done" /\ input' = input
      /\ IF nextEmit < Fragment!n
         THEN Fragment!EmitLiteral(Fragment!n, FALSE)
         ELSE UNCHANGED <<op, out, reach, readEnd>>
  BY DEF Fragment!EmitRemainder, Fragment!outputVars
<1>2. input \in Inputs /\ Fragment!TypeOK /\ Fragment!n' = Fragment!n
  BY <1>1, SameInput DEF FragmentInv
<1>3. Fragment!n \in Nat /\ nextEmit \in Nat /\ nextEmit <= Fragment!n /\ Fragment!n <= Fragment!n
  BY <1>2, FragmentNumbers
<1>4. Echoes(out, nextEmit) /\ op = Len(out)
  BY <1>1 DEF EchoInv, Fragment!Emitted
<1>5. Echoes(out', Fragment!n) /\ op' = Len(out')
  <2>1. CASE nextEmit < Fragment!n
    <3>1. Fragment!EmitLiteral(Fragment!n, FALSE) /\ FALSE \in BOOLEAN
      BY <1>1, <2>1
    <3> QED
      BY <1>2, <1>3, <1>4, <2>1, <3>1, LiteralGoesOn
  <2>2. CASE ~(nextEmit < Fragment!n)
    <3>1. nextEmit = Fragment!n
      BY <1>3, <2>2
    <3>2. UNCHANGED <<op, out>>
      BY <1>1, <2>2
    <3> QED
      BY <1>4, <3>1, <3>2
  <2> QED
    BY <2>1, <2>2
<1>6. Fragment!Emitted' = Fragment!n
  BY <1>1, <1>2 DEF Fragment!Emitted
<1>7. Echoes(out, Fragment!Emitted)'
  BY <1>1, <1>2, <1>5, <1>6 DEF Echoes
<1> QED
  BY <1>1, <1>5, <1>7 DEF EchoInv, MatchIsCopied

LEMMA FindMatchEchoStep ==
  ASSUME FragmentInv, EchoInv, Fragment!FindMatch
  PROVE  EchoInv'
<1> DEFINE m == Fragment!MatchLength
<1>1. /\ fragmentPc = "match" /\ fragmentPc' = "copy" /\ input' = input
      /\ offset' = ip - candidate /\ left' = 4 + m /\ ip' = ip + 4 + m
      /\ UNCHANGED <<op, out>>
  BY DEF Fragment!FindMatch, Fragment!outputVars
<1>2. input \in Inputs /\ Fragment!TypeOK /\ input \in Seq(Fragment!Byte)
  BY <1>1 DEF FragmentInv, Fragment!TypeOK
<1>3. Fragment!n \in Nat /\ ip \in Nat /\ candidate \in Nat
  BY <1>2, FragmentNumbers
<1>4. /\ ip + 15 < Fragment!n /\ candidate < ip
      /\ Fragment!Load32(input, ip) = Fragment!Load32(input, candidate)
  BY <1>1 DEF FragmentInv, PlacesAreRight
<1>5. m \in Nat /\ \A i \in 1 .. m : input[candidate + 4 + i] = input[ip + 4 + i]
  <2>1. ip + 4 <= Fragment!n
    BY <1>3, <1>4
  <2> QED
    BY <1>2, <1>3, <2>1, MatchLengthIs
<1>6. \A j \in 1 .. 4 : input[ip + j] = input[candidate + j]
  <2>1. ip + 4 <= Fragment!n /\ candidate + 4 <= Fragment!n
    BY <1>3, <1>4
  <2> QED
    BY <1>2, <1>3, <1>4, <2>1, LoadsAgree
<1> HIDE DEF m
<1>7. ASSUME NEW i \in ip + 1 .. ip + (4 + m) PROVE input[i] = input[i - (ip - candidate)]
  <2> DEFINE j == i - ip
  <2>1. j \in Int /\ j >= 1 /\ j <= 4 + m /\ i = ip + j /\ i - (ip - candidate) = candidate + j
    BY <1>3, <1>5
  <2> HIDE DEF j
  <2>2. CASE j <= 4
    BY <1>6, <2>1, <2>2
  <2>3. CASE j > 4
    <3>1. j - 4 \in 1 .. m /\ candidate + 4 + (j - 4) = candidate + j /\ ip + 4 + (j - 4) = ip + j
      BY <1>3, <1>5, <2>1, <2>3
    <3>2. input[candidate + 4 + (j - 4)] = input[ip + 4 + (j - 4)]
      BY <1>5, <3>1
    <3> QED
      BY <2>1, <3>1, <3>2
  <2> QED
    BY <2>1, <2>2, <2>3
<1>8. ip' - left' = ip /\ offset' + left' <= ip'
  BY <1>1, <1>3, <1>4, <1>5
<1>9. MatchIsCopied'
  <2>1. Format!Matches(input', ip' - left', left', offset')
    BY <1>1, <1>7, <1>8 DEF Format!Matches
  <2> QED
    BY <1>8, <2>1 DEF MatchIsCopied, Format!Matches
<1>10. Fragment!Emitted' = Fragment!Emitted
  BY <1>1, <1>8 DEF Fragment!Emitted
<1> QED
  BY <1>1, <1>9, <1>10, EchoStays

LEMMA PieceEchoStep ==
  ASSUME FragmentInv, EchoInv, Fragment!EmitPiece
  PROVE  EchoInv'
<1> DEFINE piece == Fragment!Piece
           short12 == Fragment!PieceLessThan12
           tag == Fragment!CopyTag(offset, piece, short12)
           from == ip - left
<1>1. /\ fragmentPc = "copy" /\ input' = input /\ out' = out \o tag /\ op' = op + Len(tag)
      /\ left' = left - piece /\ fragmentPc' = (IF left' = 0 THEN "copied" ELSE "copy")
      /\ UNCHANGED <<ip, offset>>
  BY DEF Fragment!EmitPiece, Fragment!scanVars
<1>2. input \in Inputs /\ Fragment!TypeOK /\ Fragment!n' = Fragment!n /\ input \in Seq(Fragment!Byte)
  BY <1>1, SameInput DEF FragmentInv, Fragment!TypeOK
<1>3. /\ Fragment!n \in Nat /\ Fragment!n = Len(input) /\ ip \in Nat /\ left \in Nat /\ ip <= Fragment!n
      /\ offset \in Nat /\ lessThan12 \in BOOLEAN
  BY <1>2, FragmentNumbers, SMTT(30) DEF Fragment!TypeOK
<1>4. /\ offset >= 1 /\ offset \div 256 <= 255
      /\ left >= 4 /\ left <= ip /\ (lessThan12 => left < 12)
  <2>1. /\ offset \in 1 .. Fragment!Uint16s - 1
        /\ left >= 4 /\ left <= ip /\ (lessThan12 => left < 12)
    BY <1>1 DEF FragmentInv, PlacesAreRight
  <2>2. offset >= 1 /\ offset <= 65535
    BY <1>3, <2>1, SMTT(30) DEF Fragment!Uint16s
  <2>3. offset \div 256 <= 255
    BY <1>3, <2>2
  <2> QED
    BY <2>1, <2>2, <2>3
<1>5. /\ piece \in Nat /\ 4 <= piece /\ piece <= 64 /\ piece <= left
      /\ left - piece = 0 \/ left - piece >= 4
      /\ short12 \in BOOLEAN /\ (short12 => piece < 12)
  <2>1. /\ piece \in Nat /\ piece \in 4 .. 64 /\ piece <= left
        /\ left - piece = 0 \/ left - piece >= 4
        /\ short12 <=> piece < 12
        /\ short12 \in BOOLEAN
    BY <1>3, <1>4, PieceIs
  <2> HIDE DEF piece, short12
  <2> QED
    BY <2>1
<1>6. Echoes(out, from) /\ op = Len(out) /\ offset + left <= ip /\ Format!Matches(input, from, left, offset)
  BY <1>1 DEF EchoInv, MatchIsCopied, Fragment!Emitted
<1> HIDE DEF piece, short12
<1>7. /\ from \in Nat /\ offset <= from /\ from + piece <= Len(input)
      /\ ip - left' = from + piece /\ left' \in Nat
  BY <1>1, <1>3, <1>4, <1>5, <1>6
<1>8. \A i \in from + 1 .. from + left : input[i] = input[i - offset]
  BY <1>6 DEF Format!Matches
<1> HIDE DEF from
<1>9. Format!Matches(input, from, piece, offset)
  BY <1>3, <1>5, <1>7, <1>8 DEF Format!Matches
<1>10. LET t == out \o Format!CopyTag(offset, piece, short12)
       IN  /\ t \in Seq(Format!Byte)
           /\ Len(t) = Len(out) + Len(Format!CopyTag(offset, piece, short12))
           /\ Format!Decode(t, Len(input)).ok
           /\ Format!Decode(t, Len(input)).out = SubSeq(input, 1, from + piece)
  <2>1. /\ out \in Seq(Format!Byte) /\ input \in Seq(Format!Byte)
        /\ Format!Decode(out, Len(input)).ok
        /\ Format!Decode(out, Len(input)).out = SubSeq(input, 1, from)
    BY <1>2, <1>3, <1>6, SameFormat, Zenon DEF Echoes
  <2>2. /\ offset \in Nat /\ offset >= 1 /\ offset \div 256 <= 255 /\ offset <= from /\ from \in Nat
        /\ piece \in Nat /\ 4 <= piece /\ piece <= 64 /\ from + piece <= Len(input)
        /\ short12 \in BOOLEAN /\ (short12 => piece < 12)
        /\ Format!Matches(input, from, piece, offset)
    BY <1>3, <1>4, <1>5, <1>7, <1>9, Zenon
  <2> DEFINE t == out \o Format!CopyTag(offset, piece, short12)
  <2>3. t \in Seq(Format!Byte)
    BY <2>1, <2>2, Format!CopyEchoes
  <2>4. Len(t) = Len(out) + Len(Format!CopyTag(offset, piece, short12))
    BY <2>1, <2>2, Format!CopyEchoes
  <2>5. Format!Decode(t, Len(input)).ok
    BY <2>1, <2>2, Format!CopyEchoes
  <2>6. Format!Decode(t, Len(input)).out = SubSeq(input, 1, from + piece)
    BY <2>1, <2>2, Format!CopyEchoes
  <2> QED
    BY <2>3, <2>4, <2>5, <2>6, Zenon
<1>11. Echoes(out', from + piece) /\ op' = Len(out')
  BY <1>1, <1>3, <1>6, <1>10, SameFormat, Zenon DEF Echoes
<1>12. MatchIsCopied'
  <2>1. ASSUME NEW i \in ip - left' + 1 .. ip - left' + left' PROVE input[i] = input[i - offset]
    <3>1. i \in from + 1 .. from + left
      BY <1>1, <1>3, <1>5, <1>7, <2>1 DEF from
    <3> QED
      BY <1>8, <3>1
  <2>2. offset' + left' <= ip'
    BY <1>1, <1>3, <1>5, <1>6
  <2> QED
    BY <1>1, <2>1, <2>2 DEF MatchIsCopied, Format!Matches
<1>13. Fragment!Emitted' = from + piece
  <2>1. CASE fragmentPc' = "copied"
    <3>1. left' = 0 /\ Fragment!Emitted' = ip
      BY <1>1, <2>1 DEF Fragment!Emitted
    <3> QED
      BY <1>3, <1>7, <3>1
  <2>2. CASE fragmentPc' = "copy"
    <3>1. Fragment!Emitted' = ip - left'
      BY <1>1, <2>2 DEF Fragment!Emitted
    <3> QED
      BY <1>7, <3>1
  <2> QED
    BY <1>1, <2>1, <2>2
<1>14. Echoes(out, Fragment!Emitted)'
  BY <1>1, <1>2, <1>11, <1>13 DEF Echoes
<1> QED
  BY <1>11, <1>12, <1>14 DEF EchoInv

LEMMA AfterCopyEchoStep ==
  ASSUME FragmentInv, EchoInv, Fragment!AfterCopy
  PROVE  EchoInv'
<1>1. /\ fragmentPc = "copied" /\ nextEmit' = ip /\ UNCHANGED <<input, op, out>>
      /\ \/ fragmentPc' = "match" /\ ip' = ip
         \/ fragmentPc' \in {"remainder", "outer"}
  BY DEF Fragment!AfterCopy, Fragment!AfterCopyReading, Fragment!outputVars
<1>2. Fragment!Emitted' = Fragment!Emitted /\ MatchIsCopied'
  BY <1>1 DEF Fragment!Emitted, MatchIsCopied
<1> QED
  BY <1>1, <1>2, EchoStays

LEMMA ScanEchoSteps ==
  ASSUME EchoInv,
         Fragment!Start \/ Fragment!BeginScan \/ Fragment!Scan \/ UNCHANGED Fragment!vars
  PROVE  EchoInv'
<1>1. CASE Fragment!Start \/ Fragment!BeginScan \/ Fragment!Scan
  <2>1. /\ fragmentPc \in {"start", "outer", "scan"}
        /\ fragmentPc' \in {"outer", "scan", "literal", "remainder"}
        /\ UNCHANGED <<input, op, out, nextEmit>>
    BY <1>1 DEF Fragment!Start, Fragment!BeginScan, Fragment!Scan, Fragment!outputVars
  <2>2. Fragment!Emitted' = Fragment!Emitted /\ MatchIsCopied'
    BY <2>1 DEF Fragment!Emitted, MatchIsCopied
  <2> QED
    BY <2>1, <2>2, EchoStays
<1>2. CASE UNCHANGED Fragment!vars
  <2>1. UNCHANGED <<input, op, out, nextEmit, ip, left, offset, fragmentPc>>
    BY <1>2 DEF Fragment!vars
  <2>2. Fragment!Emitted' = Fragment!Emitted /\ MatchIsCopied'
    BY <2>1 DEF Fragment!Emitted, Fragment!n, EchoInv, MatchIsCopied, Format!Matches
  <2> QED
    BY <2>1, <2>2, EchoStays
<1> QED
  BY <1>1, <1>2

LEMMA EchoNext == FragmentInv /\ EchoInv /\ [Fragment!Next]_Fragment!vars => EchoInv'
BY LiteralEchoStep, RemainderEchoStep, FindMatchEchoStep, PieceEchoStep, AfterCopyEchoStep,
   ScanEchoSteps DEF Fragment!Next, Fragment!Returned

LEMMA AnyEchoInit == AnyInit => EchoInv
BY EchoInit DEF AnyInit, FragmentWaits

LEMMA AnyEchoNext == FragmentInv /\ EchoInv /\ [AnyNext]_allVars => EchoInv'
BY EchoNext
   DEF AnyNext, WordsRun, HalvesRun, OnlyMatch, FragmentRuns, BlocksRun, OnlyBlocks, allVars,
       fragmentVars, Fragment!vars

LEMMA FragmentAssertionsHold == FragmentInv /\ EchoInv => Fragment!Assertions
<1> SUFFICES ASSUME FragmentInv, EchoInv PROVE Fragment!Assertions
  OBVIOUS
<1>1. /\ Fragment!n \in Nat /\ ip \in Nat /\ nextEmit \in Nat /\ left \in Nat /\ lessThan12 \in BOOLEAN
  BY FragmentNumbers DEF FragmentInv, Fragment!TypeOK
<1>2. fragmentPc = "outer" => nextEmit < ip
  BY DEF FragmentInv, PlacesAreRight
<1>3. fragmentPc = "scan" => nextHash = Fragment!HashAt(nextIp) /\ table[nextHash] < nextIp
  BY DEF FragmentInv, PlacesAreRight, TableIsBehind, Behind, Fragment!TypeOK
<1>4. fragmentPc = "literal" => candidate < ip /\ nextEmit + 16 <= Fragment!n /\ ip - nextEmit > 0
  <2>1. fragmentPc = "literal" => candidate < ip /\ nextEmit < ip /\ ip + 15 < Fragment!n
    BY DEF FragmentInv, PlacesAreRight
  <2> QED
    BY <1>1, <2>1
<1>5. ASSUME fragmentPc = "copy"
      PROVE  /\ Fragment!Piece \in 4 .. 64 /\ offset \in 1 .. Fragment!Uint16s - 1
             /\ Fragment!PieceLessThan12 = (Fragment!Piece < 12)
  <2>1. left >= 4 /\ (lessThan12 => left < 12) /\ offset \in 1 .. Fragment!Uint16s - 1
    BY <1>5 DEF FragmentInv, PlacesAreRight
  <2>2. /\ Fragment!Piece \in 4 .. 64 /\ Fragment!PieceLessThan12 \in BOOLEAN
        /\ Fragment!PieceLessThan12 <=> Fragment!Piece < 12
    BY <1>1, <2>1, PieceIs
  <2> QED
    BY <2>1, <2>2
<1>6. ASSUME fragmentPc = "copy", NEW i \in ip - left + 1 .. ip
      PROVE  input[i] = input[i - offset]
  <2>1. Format!Matches(input, ip - left, left, offset)
    BY <1>6 DEF EchoInv, MatchIsCopied
  <2>2. i \in (ip - left) + 1 .. (ip - left) + left
    BY <1>1
  <2> QED
    BY <2>1, <2>2 DEF Format!Matches
<1> QED
  BY <1>2, <1>3, <1>4, <1>5, <1>6 DEF Fragment!Assertions

\* Every variable of the compressor keeps its type, and no assertion of CompressFragment,
\* EmitLiteral or EmitCopyAtMost64 fails.
THEOREM NoAssertionFails == AnySpec => []Assertions
<1>1. FragmentInv /\ EchoInv /\ AnyBlocksInv /\ AnyMatchInv => Assertions
  BY FragmentAssertionsHold, BlocksImply DEF Assertions, FragmentInv, AnyBlocksInv, AnyMatchInv, MatchInv
<1> QED
  BY <1>1, AnyFragmentInit, AnyFragmentNext, AnyEchoInit, AnyEchoNext, AnyBlocksInit, AnyBlocksNext,
     AnyMatchInit, AnyMatchNext, PTL DEF AnySpec

\* At every moment, what CompressFragment has written decodes to the part of the block
\* that it stands for, and in the end to the whole block, whatever the block, the size
\* of the table and the hash function: no collision, skipped position, piece of a long
\* match or stale entry of the table ever changes a byte.
THEOREM CompressedIsDecoded == AnySpec => []RoundTrip
<1>1. EchoInv => RoundTrip
  BY EchoIs DEF RoundTrip
<1> QED
  BY <1>1, AnyFragmentInit, AnyFragmentNext, AnyEchoInit, AnyEchoNext, PTL DEF AnySpec
-----------------------------------------------------------------------------
(* How much is left to do *)

(***************************************************************************)
(* FindMatchLength has the bytes to do that it has not compared;           *)
(* CompressFragment two steps for each byte behind its place in the block, *)
(* or the bytes that EmitCopy has still to emit of the match before it;    *)
(* and Compress four steps for each byte that no block holds yet.          *)
(***************************************************************************)
MatchToDo == CASE pc = "first" -> length - matched + 3
               [] pc = "words" -> length - matched + 2
               [] pc = "bytes" -> length - matched + 1
               [] OTHER -> 0

FragmentToDo ==
  CASE fragmentPc = "start" -> 2 * Fragment!n + 3
    [] fragmentPc = "outer" -> 2 * (Fragment!n - ip) + 4
    [] fragmentPc = "scan" -> 2 * (Fragment!n - nextIp) + 3
    [] fragmentPc = "literal" -> 2 * (Fragment!n - ip) + 2
    [] fragmentPc = "match" -> 2 * (Fragment!n - ip) + 1
    [] fragmentPc = "copy" -> 2 * (Fragment!n - ip) + left
    [] fragmentPc = "copied" -> 2 * (Fragment!n - ip) + 3
    [] fragmentPc = "remainder" -> 1
    [] OTHER -> 0

InputToDo ==
  CASE blocksPc = "header" -> 4 * n + 2
    [] blocksPc = "block" -> 4 * n + 1
    [] blocksPc = "collect" -> 4 * (n - bytesRead) + 4
    [] blocksPc = "compress" -> 4 * (n - Bite) + 3
    [] blocksPc = "advance" -> 4 * (n - Bite) + 2
    [] OTHER -> 0

LEMMA MatchToDoIs == MatchInv => MatchToDo \in Nat
<1> SUFFICES ASSUME MatchInv PROVE MatchToDo \in Nat
  OBVIOUS
<1>1. length \in Nat /\ matched \in Nat /\ matched <= length
  BY MatchNumbers DEF MatchInv
<1> QED
  BY <1>1 DEF MatchToDo

\* A step of either version that is not the stutter of a call that has returned.
LEMMA MatchLowers ==
  ASSUME MatchInv, Next \/ Next32, vars' # vars
  PROVE  MatchToDo' < MatchToDo
<1>1. /\ length \in Nat /\ matched \in Nat /\ matched <= length
      /\ Word \in Nat /\ Word >= 1 /\ Half \in Nat /\ Half >= 1
  BY MatchNumbers DEF MatchInv
\* What passes words or bytes, and goes on to the next loop or on with this one.
<1>2. ASSUME NEW k \in Nat, NEW next, Advance(k, next),
             \/ pc = "first" /\ next = "first" /\ k >= 1
             \/ pc = "first" /\ next = "words"
             \/ pc = "words" /\ next = "words" /\ k >= 1
             \/ pc = "words" /\ next = "bytes"
             \/ pc = "bytes" /\ next = "bytes" /\ k >= 1
      PROVE  MatchToDo' < MatchToDo
  <2>1. length' = length /\ matched' = matched + k /\ pc' = next
    BY <1>2 DEF Advance
  <2> QED
    BY <1>1, <1>2, <2>1 DEF MatchToDo
<1>3. ASSUME NEW k, NEW isShort, Return(k, isShort), pc \in {"first", "words", "bytes"}
      PROVE  MatchToDo' < MatchToDo
  <2>1. MatchToDo' = 0
    BY <1>3 DEF Return, MatchToDo
  <2>2. MatchToDo \in Nat /\ MatchToDo > 0
    BY <1>1, <1>3 DEF MatchToDo
  <2> QED
    BY <2>1, <2>2
<1>4. 0 \in Nat /\ 1 \in Nat /\ 1 >= 1
  OBVIOUS
<1>5. CASE FirstWord
  BY <1>1, <1>2, <1>3, <1>4, <1>5 DEF FirstWord
<1>6. CASE NextWord
  BY <1>1, <1>2, <1>3, <1>4, <1>6 DEF NextWord
<1>7. CASE NextByte
  BY <1>1, <1>2, <1>3, <1>4, <1>7 DEF NextByte
<1>8. CASE NextHalf
  BY <1>1, <1>2, <1>4, <1>8 DEF NextHalf
<1>9. CASE LastHalf
  BY <1>1, <1>2, <1>3, <1>4, <1>9 DEF LastHalf
<1> QED
  BY <1>5, <1>6, <1>7, <1>8, <1>9 DEF Next, Next32, Returned

LEMMA FragmentToDoIs == FragmentInv => FragmentToDo \in Nat
<1> SUFFICES ASSUME FragmentInv PROVE FragmentToDo \in Nat
  OBVIOUS
<1>1. /\ Fragment!n \in Nat /\ ip \in Nat /\ ip <= Fragment!n /\ nextIp \in Nat /\ left \in Nat
      /\ fragmentPc = "scan" => nextIp <= Fragment!n
  BY FragmentNumbers DEF FragmentInv, PlacesAreRight
<1> QED
  BY <1>1 DEF FragmentToDo

\* Every round of the scan passes at least a byte, and a match ends at least four bytes
\* further on, of which each of its pieces takes as many.
LEMMA FragmentLowers ==
  ASSUME FragmentInv, Fragment!Next, Fragment!vars' # Fragment!vars
  PROVE  FragmentToDo' < FragmentToDo
<1>1. /\ Fragment!n \in Nat /\ ip \in Nat /\ ip <= Fragment!n /\ nextIp \in Nat /\ left \in Nat
      /\ skip \in Nat /\ Fragment!ipLimit = Fragment!n - 15
  BY FragmentNumbers DEF FragmentInv
<1>2. CASE Fragment!Start
  <2>1. /\ fragmentPc = "start" /\ input' = input
        /\ \/ ip' = 1 /\ fragmentPc' = "outer"
           \/ fragmentPc' = "remainder"
    BY <1>2 DEF Fragment!Start
  <2> QED
    BY <1>1, <2>1, SameInput DEF FragmentToDo
<1>3. CASE Fragment!BeginScan
  <2>1. fragmentPc = "outer" /\ fragmentPc' = "scan" /\ nextIp' = ip /\ input' = input
    BY <1>3 DEF Fragment!BeginScan
  <2> QED
    BY <1>1, <2>1, SameInput DEF FragmentToDo
<1>4. CASE Fragment!Scan
  <2>1. /\ fragmentPc = "scan" /\ input' = input /\ ip' = nextIp /\ nextIp' = nextIp + skip \div 32
        /\ fragmentPc' \in {"remainder", "literal", "scan"}
    BY <1>4 DEF Fragment!Scan
  <2>2. skip >= 32 /\ nextIp + 14 <= Fragment!n
    BY <2>1 DEF FragmentInv, PlacesAreRight
  <2>3. skip \div 32 \in Nat /\ skip \div 32 >= 1
    BY <1>1, <2>2
  <2>4. nextIp' \in Nat /\ nextIp' >= nextIp + 1
    BY <1>1, <2>1, <2>3
  <2> QED
    BY <1>1, <2>1, <2>2, <2>4, SameInput DEF FragmentToDo
<1>5. CASE Fragment!EmitUnmatched
  <2>1. fragmentPc = "literal" /\ fragmentPc' = "match" /\ ip' = ip /\ input' = input
    BY <1>5 DEF Fragment!EmitUnmatched
  <2> QED
    BY <1>1, <2>1, SameInput DEF FragmentToDo
<1>6. CASE Fragment!FindMatch
  <2> DEFINE m == Fragment!MatchLength
  <2>1. /\ fragmentPc = "match" /\ fragmentPc' = "copy" /\ input' = input
        /\ left' = 4 + m /\ ip' = ip + 4 + m
    BY <1>6 DEF Fragment!FindMatch
  <2>2. m \in Nat
    <3>1. candidate \in Nat /\ candidate < ip /\ ip + 4 <= Fragment!n
      BY <1>1, <2>1, FragmentNumbers DEF FragmentInv, PlacesAreRight
    <3>2. input \in Seq(Fragment!Byte)
      BY DEF FragmentInv, Fragment!TypeOK
    <3> QED
      BY <1>1, <3>1, <3>2, MatchLengthIs
  <2> HIDE DEF m
  <2> QED
    BY <1>1, <2>1, <2>2, SameInput DEF FragmentToDo
<1>7. CASE Fragment!EmitPiece
  <2>1. /\ fragmentPc = "copy" /\ input' = input /\ ip' = ip /\ left' = left - Fragment!Piece
        /\ fragmentPc' = (IF left' = 0 THEN "copied" ELSE "copy")
    BY <1>7 DEF Fragment!EmitPiece
  <2>2. left >= 4 /\ lessThan12 \in BOOLEAN /\ (lessThan12 => left < 12)
    BY <2>1 DEF FragmentInv, PlacesAreRight, Fragment!TypeOK
  <2>3. Fragment!Piece \in Nat /\ Fragment!Piece \in 4 .. 64 /\ Fragment!Piece <= left
    BY <1>1, <2>2, PieceIs
  <2>4. left' \in Nat /\ left' < left
    BY <1>1, <2>1, <2>3
  <2> QED
    BY <1>1, <2>1, <2>2, <2>4, SameInput DEF FragmentToDo
<1>8. CASE Fragment!AfterCopy
  <2>1. /\ fragmentPc = "copied" /\ input' = input
        /\ \/ fragmentPc' = "remainder"
           \/ fragmentPc' = "match" /\ ip' = ip
           \/ fragmentPc' = "outer" /\ ip' = ip + 1
    BY <1>8 DEF Fragment!AfterCopy, Fragment!AfterCopyReading
  <2> QED
    BY <1>1, <2>1, SameInput DEF FragmentToDo
<1>9. CASE Fragment!EmitRemainder
  BY <1>9 DEF Fragment!EmitRemainder, FragmentToDo
<1> QED
  BY <1>2, <1>3, <1>4, <1>5, <1>6, <1>7, <1>8, <1>9 DEF Fragment!Next, Fragment!Returned

LEMMA InputToDoIs == BlocksInv => InputToDo \in Nat
<1> SUFFICES ASSUME BlocksInv PROVE InputToDo \in Nat
  OBVIOUS
<1>1. /\ n \in Nat /\ Bite \in Nat /\ Bite <= n /\ bytesRead \in Nat
      /\ blocksPc = "collect" => bytesRead <= n
  <2>1. blocksPc = "collect" => bytesRead <= Bite
    BY DEF BlocksInv, SourceAt
  <2> QED
    BY <2>1, BlockNumbers
<1> QED
  BY <1>1 DEF InputToDo

\* Compress gets at least a byte with every fragment of its source.
LEMMA InputLowers ==
  ASSUME BlocksInv, Blocks!Next, Blocks!vars' # Blocks!vars
  PROVE  InputToDo' < InputToDo
<1>1. /\ n \in Nat /\ Bite \in Nat /\ Bite <= n /\ (n > 0 => Bite >= 1) /\ bytesRead \in Nat
      /\ blocksPc \in {"collect", "compress", "advance"} => n > 0
      /\ blocksPc = "collect" => bytesRead <= Bite /\ pos = Before + bytesRead
      /\ blocksPc = "block" => pos = Before
  BY BlockNumbers DEF BlocksInv, BlocksCut, SourceAt
<1>2. CASE Blocks!AppendHeader
  BY <1>1, <1>2 DEF Blocks!AppendHeader, InputToDo
<1>3. CASE Blocks!UseInPlace
  <2>1. blocksPc = "block" /\ n > 0 /\ blocksPc' = "compress" /\ n' = n /\ Bite' = Bite
    BY <1>3, SameBlock DEF Blocks!UseInPlace
  <2> QED
    BY <1>1, <2>1 DEF InputToDo
<1>4. CASE Blocks!StartCollecting
  <2>1. blocksPc = "block" /\ n > 0 /\ blocksPc' = "collect" /\ n' = n
    BY <1>4 DEF Blocks!StartCollecting, Blocks!Collect
  <2>2. PICK fragment \in Blocks!Fragments(pos) : bytesRead' = Len(fragment)
    BY <1>4 DEF Blocks!StartCollecting, Blocks!Collect
  <2>3. Len(fragment) \in Nat /\ Len(fragment) >= 1
    <3>1. pos \in Nat /\ pos < size /\ size \in Nat
      BY <1>1, <2>1, BlockNumbers
    <3> QED
      BY <2>2, <3>1, PeekIs
  <2>4. bytesRead' \in Nat /\ bytesRead' >= 1
    BY <2>2, <2>3
  <2> QED
    BY <1>1, <2>1, <2>4 DEF InputToDo
<1>5. CASE Blocks!CollectMore
  <2>1. blocksPc = "collect" /\ bytesRead < Bite /\ blocksPc' = "collect" /\ n' = n
    BY <1>5 DEF Blocks!CollectMore, Bite
  <2>2. PICK fragment \in Blocks!Fragments(pos) :
          bytesRead' = bytesRead + Blocks!Least(Len(fragment), Bite - bytesRead)
    BY <1>5 DEF Blocks!CollectMore, Bite
  <2>3. Len(fragment) \in Nat /\ Len(fragment) >= 1
    <3>1. pos \in Nat /\ pos < size /\ size \in Nat
      BY <1>1, <2>1, BlockNumbers
    <3> QED
      BY <2>2, <3>1, PeekIs
  <2>4. bytesRead' \in Nat /\ bytesRead' > bytesRead
    BY <1>1, <2>1, <2>2, <2>3 DEF Blocks!Least
  <2> QED
    BY <1>1, <2>1, <2>4 DEF InputToDo
<1>6. CASE Blocks!Collected
  <2>1. /\ blocksPc = "collect" /\ bytesRead >= Bite /\ blocksPc' = "compress"
        /\ n' = n /\ Bite' = Bite
    BY <1>6, SameBlock DEF Blocks!Collected, Bite
  <2> QED
    BY <1>1, <2>1 DEF InputToDo
<1>7. CASE Blocks!CompressBlock
  <2>1. blocksPc = "compress" /\ blocksPc' = "advance" /\ n' = n /\ Bite' = Bite
    BY <1>7, SameBlock DEF Blocks!CompressBlock
  <2> QED
    BY <1>1, <2>1 DEF InputToDo
<1>8. CASE Blocks!Advance
  <2>1. blocksPc = "advance" /\ blocksPc' = "block" /\ n' = n - Bite
    BY <1>8 DEF Blocks!Advance, Bite
  <2> QED
    BY <1>1, <2>1 DEF InputToDo
<1>9. CASE Blocks!Finish
  BY <1>1, <1>9 DEF Blocks!Finish, InputToDo
<1> QED
  BY <1>2, <1>3, <1>4, <1>5, <1>6, <1>7, <1>8, <1>9 DEF Blocks!Next, Blocks!Returned

LEMMA ToDoStays ==
  /\ UNCHANGED fragmentVars => Fragment!vars' = Fragment!vars
  /\ UNCHANGED blocksVars => Blocks!vars' = Blocks!vars
  /\ Fragment!vars' = Fragment!vars => UNCHANGED fragmentVars
  /\ Blocks!vars' = Blocks!vars => UNCHANGED blocksVars
BY DEF fragmentVars, Fragment!vars, blocksVars, Blocks!vars

LEMMA PartLowers ==
  ASSUME AnyMatchInv, FragmentInv, AnyBlocksInv, [AnyNext]_allVars
  PROVE  /\ [MatchToDo' < MatchToDo]_vars
         /\ [FragmentToDo' < FragmentToDo]_fragmentVars
         /\ [InputToDo' < InputToDo]_blocksVars
<1>1. CASE WordsRun \/ HalvesRun
  BY <1>1, MatchLowers DEF WordsRun, HalvesRun, OnlyMatch, AnyMatchInv
<1>2. CASE FragmentRuns
  BY <1>2, FragmentLowers, ToDoStays DEF FragmentRuns
<1>3. CASE BlocksRun
  BY <1>3, InputLowers, ToDoStays DEF BlocksRun, OnlyBlocks, AnyBlocksInv
<1>4. CASE UNCHANGED allVars
  BY <1>4 DEF allVars
<1> QED
  BY <1>1, <1>2, <1>3, <1>4 DEF AnyNext

\* No part of the compressor goes on for ever, and CompressFragment takes at most
\* 2n + 3 steps for a block of n bytes and Compress 4n + 2 for its input: what each has
\* to do is never less than nothing, and every step of its own makes it less.  This
\* is the part of Terminates that is safety, and more: it holds of all parts.
THEOREM TheCompressorGetsOn ==
  AnySpec => /\ FragmentToDo = 2 * Len(input) + 3 /\ InputToDo = 4 * size + 2
             /\ [](MatchToDo \in Nat /\ FragmentToDo \in Nat /\ InputToDo \in Nat)
             /\ [][MatchToDo' < MatchToDo]_vars
             /\ [][FragmentToDo' < FragmentToDo]_fragmentVars
             /\ [][InputToDo' < InputToDo]_blocksVars
<1>1. AnyInit => FragmentToDo = 2 * Len(input) + 3 /\ InputToDo = 4 * size + 2
  <2> SUFFICES ASSUME AnyInit PROVE FragmentToDo = 2 * Len(input) + 3 /\ InputToDo = 4 * size + 2
    OBVIOUS
  <2>1. Fragment!Init /\ Blocks!Init
    BY DEF AnyInit, FragmentWaits, BlocksWait
  <2> QED
    BY <2>1 DEF Fragment!Init, Blocks!Init, FragmentToDo, InputToDo, Fragment!n
<1>2. AnyMatchInv /\ FragmentInv /\ AnyBlocksInv =>
        MatchToDo \in Nat /\ FragmentToDo \in Nat /\ InputToDo \in Nat
  BY MatchToDoIs, FragmentToDoIs, InputToDoIs DEF AnyMatchInv, AnyBlocksInv
<1>3. AnyMatchInv /\ FragmentInv /\ AnyBlocksInv /\ [AnyNext]_allVars =>
        /\ [MatchToDo' < MatchToDo]_vars
        /\ [FragmentToDo' < FragmentToDo]_fragmentVars
        /\ [InputToDo' < InputToDo]_blocksVars
  BY PartLowers
<1> QED
  BY <1>1, <1>2, <1>3, AnyMatchInit, AnyMatchNext, AnyFragmentInit, AnyFragmentNext, AnyBlocksInit,
     AnyBlocksNext, PTL DEF AnySpec
=============================================================================
