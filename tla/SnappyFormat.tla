---------------------------- MODULE SnappyFormat ----------------------------
(***************************************************************************)
(* The bytes of a compressed stream: the tags the compressor writes, the   *)
(* lookup table the decompressor reads them with, and, as the reference    *)
(* for both, what a stream of elements means.  Sequences are of bytes, and *)
(* byte i of a C++ pointer is s[i + 1].                                    *)
(***************************************************************************)
EXTENDS Memory

Byte == 0 .. 255

\* The two low bits of a tag byte.
LITERAL == 0
COPY_1_BYTE_OFFSET == 1
COPY_2_BYTE_OFFSET == 2
COPY_4_BYTE_OFFSET == 3

kMaximumTagLength == 5

\* The lowest k bytes of the word loaded at byte p: Load32(p) & wordmask[k].
\* No length or offset here comes near 2^30, so that one number stands for all
\* words from there on.
Huge == 1073741824
Load32Masked(s, p, k) == LET at(i) == IF k > i THEN s[p + i + 1] ELSE 0
                         IN  IF k = 4 /\ s[p + 4] >= 64 THEN Huge
                             ELSE at(0) + 256 * (at(1) + 256 * (at(2) + 256 * at(3)))

(***************************************************************************)
(* The compressor's side: EmitLiteral and EmitCopyAtMost64.                *)
(***************************************************************************)

\* How many bytes the length of a literal takes after its tag: n = len - 1.
LengthBytes(len) == IF len - 1 < 60 THEN 0
                    ELSE IF len - 1 < 256 THEN 1
                    ELSE IF len - 1 < 65536 THEN 2 ELSE 3

LiteralTag(len) ==
  LET n == len - 1
  IN  CASE LengthBytes(len) = 0 -> <<LITERAL + n * 4>>
        [] LengthBytes(len) = 1 -> <<LITERAL + 60 * 4, n>>
        [] LengthBytes(len) = 2 -> <<LITERAL + 61 * 4, n % 256, n \div 256>>
        [] OTHER -> <<LITERAL + 62 * 4, n % 256, (n \div 256) % 256, n \div 65536>>

\* (offset >> 3) & 0xe0 keeps the three high bits of an 11-bit offset.
CopyTag(offset, len, lessThan12) ==
  IF lessThan12 /\ offset < 2048
  THEN <<COPY_1_BYTE_OFFSET + (len - 4) * 4 + (offset \div 256) * 32, offset % 256>>
  ELSE <<COPY_2_BYTE_OFFSET + (len - 1) * 4, offset % 256, offset \div 256>>

(***************************************************************************)
(* The reference: an element is a literal or a copy, and decoding applies  *)
(* the elements one after the other.                                       *)
(***************************************************************************)
IsLiteral(tag) == tag % 4 = LITERAL

\* The bytes of a tag after its first.
TagExtra(tag) == CASE tag % 4 = LITERAL -> IF tag \div 4 < 60 THEN 0 ELSE tag \div 4 - 59
                   [] tag % 4 = COPY_1_BYTE_OFFSET -> 1
                   [] tag % 4 = COPY_2_BYTE_OFFSET -> 2
                   [] OTHER -> 4

\* Length and offset of the element whose tag begins at byte p.
ElementLength(s, p) ==
  LET tag == s[p + 1]
  IN  CASE IsLiteral(tag) /\ tag \div 4 < 60 -> tag \div 4 + 1
        [] IsLiteral(tag) /\ tag \div 4 >= 60 -> Load32Masked(s, p + 1, TagExtra(tag)) + 1
        [] tag % 4 = COPY_1_BYTE_OFFSET -> ((tag \div 4) % 8) + 4
        [] OTHER -> tag \div 4 + 1

ElementOffset(s, p) ==
  LET tag == s[p + 1]
  IN  (IF tag % 4 = COPY_1_BYTE_OFFSET THEN (tag \div 32) * 256 ELSE 0)
        + Load32Masked(s, p + 1, TagExtra(tag))

\* Where the body of the element begins, and where the element ends.
ElementBody(s, p) == p + 1 + TagExtra(s[p + 1])
ElementEnd(s, p) ==
  ElementBody(s, p) + (IF IsLiteral(s[p + 1]) THEN ElementLength(s, p) ELSE 0)

\* The stream is not cut off before the end of the element, and after "out" there
\* is room for what it produces and, for a copy, something to copy.
ElementIsLegal(s, p, out, limit) ==
  /\ ElementBody(s, p) <= Len(s) /\ ElementEnd(s, p) <= Len(s)
  /\ Len(out) + ElementLength(s, p) <= limit
  /\ ~IsLiteral(s[p + 1]) => ElementOffset(s, p) \in 1 .. Len(out)

\* What a legal element adds to "out".
ElementBytes(s, p, out) ==
  IF IsLiteral(s[p + 1]) THEN SubSeq(s, ElementBody(s, p) + 1, ElementEnd(s, p))
  ELSE Repeated(out, ElementOffset(s, p), ElementLength(s, p))

\* The output of the elements of s from byte p0 on, after "out0": at most
\* "limit" bytes, and whether the stream was legal to its end.
DecodeFrom(s, p0, out0, limit) ==
  LET run[at \in Nat \X Seq(Byte)] ==
        LET p == at[1]
            out == at[2]
        IN  IF p >= Len(s) THEN [out |-> out, ok |-> TRUE]
            ELSE IF ~ElementIsLegal(s, p, out, limit) THEN [out |-> out, ok |-> FALSE]
            ELSE run[<<ElementEnd(s, p), out \o ElementBytes(s, p, out)>>]
  IN  run[<<p0, out0>>]

Decode(s, limit) == DecodeFrom(s, 0, <<>>, limit)
=============================================================================
