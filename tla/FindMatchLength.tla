--------------------------- MODULE FindMatchLength ---------------------------
(***************************************************************************)
(* FindMatchLength of snappy-internal.h: how many bytes at s1 and s2 are   *)
(* equal before s2_limit.  The version for 64-bit little-endian processors *)
(* (Spec) compares a word at a time, the first word apart from the others, *)
(* and ends with single bytes.  The other version (Spec32) compares half   *)
(* words and finds the first difference in the last one by itself or, on a *)
(* big-endian processor, byte by byte.                                     *)
(*                                                                         *)
(* Only the equality of the i-th bytes of the two regions is kept, in      *)
(* same[i]; positions count from the start of the regions.  s2 has always  *)
(* advanced by "matched", so that it is not a variable.                    *)
(***************************************************************************)
EXTENDS Integers

CONSTANTS Word,     \* bytes in a word: 8
          Half,     \* bytes in a word of the 32-bit version: 4
          LittleEndian,   \* what IsLittleEndian() may be (32-bit version)
          Lengths   \* the values of s2_limit - s2

ASSUME WordAssumption == Word \in Nat \ {0} /\ Half \in 1 .. Word
ASSUME EndianAssumption == LittleEndian \subseteq BOOLEAN
ASSUME LengthsAssumption == Lengths \subseteq Nat

VARIABLES length,   \* s2_limit - s2 at the call
          same,     \* same[i]: s1[i] = s2[i]
          matched,
          short,    \* the second member of the result: n < 8
          pc        \* "first", "words", "bytes" or "done"

vars == <<length, same, matched, short, pc>>

Init == /\ length \in Lengths
        /\ same \in [0 .. length - 1 -> BOOLEAN]
        /\ matched = 0
        /\ short = FALSE
        /\ pc = "first"

\* s2 <= s2_limit - w: a whole word of w bytes is left.
WordLeft(w) == matched + w <= length

\* The words of w bytes that are loaded from both sides are equal.
WordsEqual(w) == \A i \in matched .. matched + w - 1 : same[i]

\* FindLSBSetNonZero64 of the exclusive or, divided by 8: on a little-endian
\* processor the lowest byte that differs is the first.
FirstDifferent(w) == CHOOSE i \in matched .. matched + w - 1 :
                        /\ ~same[i]
                        /\ \A j \in matched .. i - 1 : same[j]

Return(n, isShort) == /\ matched' = n
                      /\ short' = isShort
                      /\ pc' = "done"
                      /\ UNCHANGED <<length, same>>

Advance(n, next) == /\ matched' = matched + n
                    /\ pc' = next
                    /\ UNCHANGED <<length, same, short>>

\* The block that is not necessary for correctness: the first word.
FirstWord == /\ pc = "first"
             /\ \/ ~WordLeft(Word) /\ Advance(0, "words")
                \/ WordLeft(Word) /\ WordsEqual(Word) /\ Advance(Word, "words")
                \/ WordLeft(Word) /\ ~WordsEqual(Word) /\ Return(FirstDifferent(Word), TRUE)

\* (with the return inside the loop reporting a short match)
NextWordShort == /\ pc = "words"
                 /\ \/ ~WordLeft(Word) /\ Advance(0, "bytes")
                    \/ WordLeft(Word) /\ WordsEqual(Word) /\ Advance(Word, "words")
                    \/ WordLeft(Word) /\ ~WordsEqual(Word) /\ Return(FirstDifferent(Word), TRUE)
\* (with the bytes before this word counted twice)
NextWordTwice == /\ pc = "words"
                 /\ \/ ~WordLeft(Word) /\ Advance(0, "bytes")
                    \/ WordLeft(Word) /\ WordsEqual(Word) /\ Advance(Word, "words")
                    \/ WordLeft(Word) /\ ~WordsEqual(Word)
                       /\ Return(matched + FirstDifferent(Word), FALSE)
NextWord == /\ pc = "words"
            /\ \/ ~WordLeft(Word) /\ Advance(0, "bytes")
               \/ WordLeft(Word) /\ WordsEqual(Word) /\ Advance(Word, "words")
               \/ WordLeft(Word) /\ ~WordsEqual(Word) /\ Return(FirstDifferent(Word), FALSE)

NextByte == /\ pc = "bytes"
            /\ \/ matched < length /\ same[matched] /\ Advance(1, "bytes")
               \/ matched < length /\ ~same[matched] /\ Return(matched, matched < Word)
               \/ matched >= length /\ Return(matched, matched < Word)

\* The call has returned.
Returned == pc = "done" /\ UNCHANGED vars

Next == FirstWord \/ NextWord \/ NextByte \/ Returned

Spec == Init /\ [][Next]_vars /\ WF_vars(Next)

(***************************************************************************)
(* The version for other processors.                                       *)
(***************************************************************************)
NextHalf == /\ pc = "first"
            /\ IF WordLeft(Half) /\ WordsEqual(Half)
               THEN Advance(Half, "first")
               ELSE Advance(0, "words")

LastHalf == /\ pc = "words"
            /\ \E little \in LittleEndian :
                 \/ little /\ WordLeft(Half)
                    /\ Return(FirstDifferent(Half), FirstDifferent(Half) < Word)
                 \/ ~(little /\ WordLeft(Half)) /\ Advance(0, "bytes")

Next32 == NextHalf \/ LastHalf \/ NextByte \/ Returned

Spec32 == Init /\ [][Next32]_vars /\ WF_vars(Next32)

TypeOK == /\ length \in Lengths
          /\ same \in [0 .. length - 1 -> BOOLEAN]
          /\ matched \in 0 .. length
          /\ short \in BOOLEAN
          /\ pc \in {"first", "words", "bytes", "done"}

(***************************************************************************)
(* The contract above FindMatchLength: the result is the largest n such    *)
(* that the first n bytes agree and n <= s2_limit - s2, and the flag that  *)
(* lets EmitCopy choose its short form is n < 8.  The three loops must     *)
(* agree on it although each returns for a reason of its own, and the flag *)
(* is a constant in two of the four returns.                               *)
(***************************************************************************)
LongestMatch == pc = "done" =>
                  /\ \A i \in 0 .. matched - 1 : same[i]
                  /\ matched < length => ~same[matched]
                  /\ short <=> matched < Word
==============================================================================
