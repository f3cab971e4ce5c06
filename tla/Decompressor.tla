---------------------------- MODULE Decompressor ----------------------------
(***************************************************************************)
(* SnappyDecompressor of snappy.cc after the length header: tags are read  *)
(* from a Source that hands out its bytes in fragments of its choice, and  *)
(* each becomes a call of a writer.                                        *)
(*                                                                         *)
(* "buf" is [ip_, ip_limit_), the bytes that are buffered and not yet      *)
(* used.  They are in a fragment of the source, of which peeked_ bytes are *)
(* still to be skipped, or in the array scratch_.  The writer is what the  *)
(* comment on DecompressionWriter asks of one: it refuses what exceeds the *)
(* expected length or reaches before the start, and its TryFastAppend may  *)
(* decline, and may accept only what leaves five bytes in the buffer.      *)
(***************************************************************************)
EXTENDS SnappyFormat, CharTable

CONSTANTS Streams,    \* compressed streams, without their length header
          Expected(_),   \* uncompressed lengths the header of a stream may have
          Peeks       \* lengths of the fragments Peek may return

VARIABLES stream,     \* the bytes of the source
          expected,
          pos,        \* bytes of the source that were skipped
          peeked,     \* peeked_
          buf,
          slack,      \* bytes that can be read behind buf: the rest of scratch_
          needed,     \* RefillTag's "needed"
          litLeft,    \* literal_length: bytes of the literal still to append
          eof,        \* eof_
          out,        \* what the writer has written
          ok,         \* the result of InternalUncompressAllTags
          pc

vars == <<stream, expected, pos, peeked, buf, slack, needed, litLeft, eof, out, ok, pc>>
sourceVars == <<pos, peeked, buf, slack>>

Init == /\ stream \in Streams
        /\ expected \in Expected(stream)
        /\ pos = 0 /\ peeked = 0 /\ buf = <<>> /\ slack = 0
        /\ needed = 0 /\ litLeft = 0
        /\ eof = FALSE /\ out = <<>> /\ ok = FALSE
        /\ pc = "refill"

\* What Peek may return at position p: nothing iff nothing is available.
Fragments(p) ==
  IF p >= Len(stream) THEN {<<>>}
  ELSE {SubSeq(stream, p + 1, p + k) : k \in {m \in Peeks : p + m <= Len(stream)}}
         \cup {SubSeq(stream, p + 1, Len(stream))}

Least(a, b) == IF a <= b THEN a ELSE b

\* DecompressAllTags returns; the length is checked, and the destructor skips
\* what was peeked.
Return(skipped, atEof) == /\ ok' = (atEof /\ Len(out) = expected)
                          /\ pos' = pos + skipped
                          /\ eof' = atEof
                          /\ pc' = "done"

\* What RefillTag does with the bytes at ip: into scratch_ because the tag has
\* to be completed (fewer than "enough" bytes), or because fewer than five are
\* left.
UseTagOf(bytes, base, peekedNow, enough) ==
  /\ needed' = EntryExtra(bytes[1]) + 1
  /\ buf' = bytes
  /\ IF Len(bytes) >= kMaximumTagLength
     THEN pos' = base /\ peeked' = peekedNow /\ slack' = 0 /\ pc' = "tag"
     ELSE /\ pos' = base + peekedNow
          /\ peeked' = 0
          /\ slack' = kMaximumTagLength - Len(bytes)
          /\ pc' = IF Len(bytes) < enough THEN "stitch" ELSE "tag"

\* (with a byte too few taken for a whole tag)
UseTagShort(bytes, base, peekedNow) ==
  UseTagOf(bytes, base, peekedNow, EntryExtra(bytes[1]))
UseTag(bytes, base, peekedNow) ==
  UseTagOf(bytes, base, peekedNow, EntryExtra(bytes[1]) + 1)

\* MAYBE_REFILL with RefillTag up to its loop.
Refill ==
  /\ pc = "refill"
  /\ \/ /\ Len(buf) >= kMaximumTagLength
        /\ pc' = "tag"
        /\ UNCHANGED <<sourceVars, needed, eof, ok>>
     \/ /\ Len(buf) \in 1 .. kMaximumTagLength - 1
        /\ UseTag(buf, pos, peeked)
        /\ UNCHANGED <<eof, ok>>
     \/ /\ buf = <<>>
        /\ \E fragment \in Fragments(pos + peeked) :
             \/ /\ fragment # <<>>
                /\ UseTag(fragment, pos + peeked, Len(fragment))
                /\ UNCHANGED <<eof, ok>>
             \/ /\ fragment = <<>>
                /\ peeked' = 0
                /\ Return(peeked, TRUE)
                /\ UNCHANGED <<buf, slack, needed>>
  /\ UNCHANGED <<stream, expected, litLeft, out>>

\* RefillTag's loop: one fragment more of the tag.  What it gave is skipped.
StitchOf(skips) ==
  /\ pc = "stitch"
  /\ \E fragment \in Fragments(pos) :
       LET add == Least(needed - Len(buf), Len(fragment))
       IN  \/ /\ fragment = <<>>
              /\ Return(0, FALSE)
              /\ UNCHANGED <<buf, slack>>
           \/ /\ fragment # <<>>
              /\ buf' = buf \o SubSeq(fragment, 1, add)
              /\ pos' = pos + (IF skips THEN add ELSE 0)
              /\ IF Len(buf') = needed
                 THEN pc' = "tag" /\ slack' = kMaximumTagLength - needed
                 ELSE pc' = "stitch" /\ UNCHANGED slack
              /\ UNCHANGED <<eof, ok>>
  /\ UNCHANGED <<stream, expected, peeked, needed, litLeft, out>>

\* (with the bytes taken not skipped)
StitchUnskipped == StitchOf(FALSE)
Stitch == StitchOf(TRUE)

\* buf without its first k bytes: ip += k.
Drop(k) == SubSeq(buf, k + 1, Len(buf))

\* TryFastAppend accepts a short literal when five bytes stay buffered.
FastLiteral == LET len == (buf[1] \div 4) + 1
               IN  /\ pc = "tag" /\ IsLiteral(buf[1]) /\ len < 61
                   /\ len <= expected - Len(out)
                   /\ Len(buf) - 1 >= len + kMaximumTagLength
                   /\ out' = out \o SubSeq(buf, 2, len + 1)
                   /\ buf' = Drop(len + 1)
                   /\ UNCHANGED <<stream, expected, pos, peeked, slack, needed,
                                  litLeft, eof, ok, pc>>

\* The length of a long literal is in up to four bytes after the tag.  It is
\* computed in 32 bits: one more than 0xffffffff is 0.
LongLength(extra) == IF extra = 4 /\ \A i \in 2 .. 5 : buf[i] = 255
                     THEN 0 ELSE Load32Masked(buf, 1, extra) + 1

SlowLiteral == LET c == buf[1]
                   extra == (c \div 4) + 1 - 60
               IN  /\ pc = "tag" /\ IsLiteral(c)
                   /\ IF extra > 0
                      THEN /\ litLeft' = LongLength(extra)
                           /\ buf' = Drop(1 + extra)
                      ELSE /\ litLeft' = (c \div 4) + 1
                           /\ buf' = Drop(1)
                   /\ pc' = "literal"
                   /\ UNCHANGED <<stream, expected, pos, peeked, slack, needed,
                                  eof, out, ok>>

\* The part of the literal that is buffered, and the next fragment, at p.
LiteralFrom(p, atEnd) ==
  /\ pc = "literal" /\ Len(buf) < litLeft
  /\ Len(out) + Len(buf) <= expected
  /\ out' = out \o buf
  /\ litLeft' = litLeft - Len(buf)
  /\ slack' = 0
  /\ pos' = p
  /\ \E fragment \in Fragments(p) :
       /\ buf' = fragment
       /\ peeked' = Len(fragment)
       /\ pc' = IF fragment = <<>> THEN atEnd ELSE pc
  /\ UNCHANGED <<stream, expected, needed, eof, ok>>

\* (with the end of the input not noticed)
LiteralEndless == LiteralFrom(pos + peeked, "literal")
LiteralFragment == LiteralFrom(pos + peeked, "failed")

LiteralEnd == /\ pc = "literal" /\ Len(buf) >= litLeft
              /\ Len(out) + litLeft <= expected
              /\ out' = out \o SubSeq(buf, 1, litLeft)
              /\ buf' = Drop(litLeft)
              /\ litLeft' = 0
              /\ pc' = "refill"
              /\ UNCHANGED <<stream, expected, pos, peeked, slack, needed, eof, ok>>

\* Append refuses more than is expected.
LiteralRefused == /\ pc = "literal"
                  /\ Len(out) + Least(litLeft, Len(buf)) > expected
                  /\ pc' = "failed"
                  /\ UNCHANGED <<stream, expected, sourceVars, needed, litLeft, eof,
                                 out, ok>>

\* A copy: AppendFromSelf, or its refusal; "used" bytes belong to the tag.
CopyUsing(used) ==
  LET c == buf[1]
      offset == EntryOffset(c) + Load32Masked(buf, 1, EntryExtra(c))
      len == EntryLength(c)
  IN  /\ pc = "tag" /\ ~IsLiteral(c)
      /\ buf' = Drop(used)
      /\ IF offset \in 1 .. Len(out) /\ Len(out) + len <= expected
         THEN out' = out \o Repeated(out, offset, len) /\ pc' = "refill"
         ELSE pc' = "failed" /\ UNCHANGED out
      /\ UNCHANGED <<stream, expected, pos, peeked, slack, needed, litLeft, eof, ok>>

\* (with the bytes of the offset read as the next tag)
CopyKeepsOffset == CopyUsing(1)
Copy == CopyUsing(1 + EntryExtra(buf[1]))

\* A return of DecompressAllTags in the middle of an element.
Fail == /\ pc = "failed"
        /\ Return(peeked, FALSE)
        /\ UNCHANGED <<stream, expected, peeked, buf, slack, needed, litLeft, out>>

\* The call has returned.
Returned == pc = "done" /\ UNCHANGED vars

Next == \/ Refill \/ Stitch \/ FastLiteral \/ SlowLiteral \/ LiteralFragment
        \/ LiteralEnd \/ LiteralRefused \/ Copy \/ Fail \/ Returned

Spec == Init /\ [][Next]_vars /\ WF_vars(Next)

TypeOK == /\ stream \in Seq(Byte) /\ expected \in Nat
          /\ pos \in 0 .. Len(stream) /\ peeked \in 0 .. Len(stream)
          /\ buf \in Seq(Byte) /\ slack \in 0 .. kMaximumTagLength
          /\ needed \in 0 .. kMaximumTagLength /\ litLeft \in Nat
          /\ eof \in BOOLEAN /\ ok \in BOOLEAN
          /\ out \in Seq(Byte) /\ Len(out) <= expected
          /\ pc \in {"refill", "stitch", "tag", "literal", "failed", "done"}

\* Bytes of the stream that were used, before what is buffered.
Used == pos + peeked - Len(buf)

(***************************************************************************)
(* However the source cuts its bytes, and whether they are in a fragment   *)
(* or stitched together in scratch_, what is buffered is what comes next   *)
(* in the stream.                                                          *)
(***************************************************************************)
BufferIsNext == pc # "done" =>
                  /\ Used >= 0
                  /\ buf = SubSeq(stream, Used + 1, Used + Len(buf))

(***************************************************************************)
(* When a tag is read it is complete, and the four bytes that are loaded   *)
(* behind it are memory of the fragment or of scratch_: also after         *)
(* TryFastAppend, which skips the refill.                                  *)
(***************************************************************************)
TagReadable == pc = "tag" => /\ Len(buf) >= 1 + TagExtra(buf[1])
                             /\ Len(buf) + slack >= kMaximumTagLength

(***************************************************************************)
(* The result depends on the stream only, not on the fragments: it is what *)
(* the reference makes of the whole stream at once, and a stream is        *)
(* accepted when it is legal, ends after an element and has exactly the    *)
(* expected length.  An accepted stream has been skipped to its end.  All  *)
(* that is not for a literal of 2^32 bytes, which the code finds empty.    *)
(***************************************************************************)
LengthWraps == \E i \in 1 .. Len(stream) - 4 :
                 stream[i] = 252 /\ \A j \in i + 1 .. i + 4 : stream[j] = 255
ResultIsReference ==
  pc = "done" /\ ~LengthWraps => LET d == Decode(stream, expected)
                 IN  /\ ok <=> d.ok /\ Len(d.out) = expected
                     /\ ok => out = d.out /\ pos = Len(stream)

(* The decompressor never waits for bytes that do not come.                *)
Terminates == <>(pc = "done")
=============================================================================
