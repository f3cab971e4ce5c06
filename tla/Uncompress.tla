----------------------------- MODULE Uncompress -----------------------------
(***************************************************************************)
(* The calls that uncompress a whole buffer: snappy_uncompress and         *)
(* snappy_validate_compressed_buffer of snappy-c.cc, Uncompress to a       *)
(* string and Uncompress to a Sink of snappy.cc.  They read the length at  *)
(* the start of the stream, some of them twice and by different code: once *)
(* to look at the room there is, and once to tell the writer.              *)
(*                                                                         *)
(* A 32-bit length is the sequence of its five digits of 7 bits, lowest    *)
(* first, of which the last has 4 bits.  What follows the length is        *)
(* described by the bytes its elements produce, those of the last one, and *)
(* whether the stream ends after an element: one that exceeds the length   *)
(* is the last that is looked at.                                          *)
(***************************************************************************)
EXTENDS Integers, Sequences

CONSTANTS Headers,    \* bytes of the length, well-formed or not
          Bodies(_),  \* what may follow a header
          Numbers,    \* digits of 32-bit numbers that are encoded to headers
          Rooms,      \* sizes of the caller's buffer
          MaxString   \* string::max_size()

Byte == 0 .. 255

ASSUME HeadersAssumption == \A h \in Headers : h \in Seq(Byte)
ASSUME NumbersAssumption == \A d \in Numbers : d \in [1 .. 5 -> 0 .. 127] /\ d[5] < 16
ASSUME RoomsAssumption == Rooms \subseteq Nat
ASSUME MaxStringAssumption == MaxString \in Nat

None == <<>>
Calls == {"c", "validate", "string", "sink"}

VARIABLES api,        \* the function called
          sinkKind,   \* the sink's class: Sink's defaults or UncheckedByteArraySink
          header, body,
          room,       \* bytes that may be stored at the destination
          length,     \* what GetUncompressedLength found
          pos,        \* bytes of the header that were read
          result,     \* digits ReadUncompressedLength has put together
          writer,     \* "array", "scattered" or "validator"
          allocated,  \* allocated_size
          produced,   \* bytes the writer has taken
          sunk,       \* bytes the sink has got
          reported,   \* *uncompressed_length of snappy_uncompress
          status, pc

vars == <<api, sinkKind, header, body, room, length, pos, result, writer, allocated,
          produced, sunk, reported, status, pc>>
call == <<api, sinkKind, header, body>>

\* No length here comes near 2^30, so that one number stands for all from
\* there on.
Huge == 1073741824
Value(d) == IF d[5] >= 4 THEN Huge
            ELSE d[1] + 128 * d[2] + 16384 * d[3] + 2097152 * d[4] + 268435456 * d[5]

\* Varint::Encode32 of the number with the digits d.
\* (with the fifth byte forgotten)
EncodeFour(d) ==
  LET k == CHOOSE k \in 1 .. 4 : (k > 1 => d[k] > 0) /\ \A j \in k + 1 .. 4 : d[j] = 0
  IN  [i \in 1 .. k |-> IF i < k THEN d[i] + 128 ELSE d[i]]
Encode(d) ==
  LET k == CHOOSE k \in 1 .. 5 : (k > 1 => d[k] > 0) /\ \A j \in k + 1 .. 5 : d[j] = 0
  IN  [i \in 1 .. k |-> IF i < k THEN d[i] + 128 ELSE d[i]]

\* Varint::Parse32WithLimit: the bytes up to the first below 128, at most five
\* of them and the fifth below 16.
Ends(s) == {k \in 1 .. Len(s) : s[k] < 128 /\ \A j \in 1 .. k - 1 : s[j] >= 128}
Fits32(s) == \E k \in Ends(s) : k < 5 \/ (k = 5 /\ s[5] < 16)
\* (with no look at what the fifth byte has too much)
ParseLoose(s) == IF \E k \in Ends(s) : k <= 5
                 THEN LET k == CHOOSE k \in Ends(s) : TRUE
                      IN  [i \in 1 .. 5 |-> IF i > k THEN 0
                                            ELSE IF i = 5 THEN s[i] % 16 ELSE s[i] % 128]
                 ELSE None
Parse(s) == IF Fits32(s)
            THEN LET k == CHOOSE k \in Ends(s) : TRUE
                 IN  [i \in 1 .. 5 |-> IF i <= k THEN s[i] % 128 ELSE 0]
            ELSE None

\* If the elements produce more than the header says, the last of them is the
\* first that exceeds it.
ASSUME BodiesAssumption ==
  \A h \in Headers : \A b \in Bodies(h) :
    /\ b.clean \in BOOLEAN /\ b.yields \in Nat /\ b.last \in 0 .. b.yields
    /\ Fits32(h) /\ b.yields > Value(Parse(h)) => b.yields - b.last <= Value(Parse(h))

Init == /\ api \in Calls
        /\ sinkKind \in (IF api = "sink" THEN {"default", "unchecked"} ELSE {"none"})
        /\ header \in Headers /\ body \in Bodies(header)
        /\ room \in (IF api = "c" THEN Rooms ELSE {0})
        /\ length = None /\ pos = 0 /\ result = <<>>
        /\ writer = "none" /\ allocated = 0 /\ produced = 0 /\ sunk = 0
        /\ reported = room
        /\ status = "none"
        /\ pc = IF api \in {"c", "string"} THEN "length" ELSE "read"

Return(s) == status' = s /\ pc' = "done"

\* GetUncompressedLength of a flat buffer.
GetUncompressedLength ==
  /\ pc = "length"
  /\ length' = Parse(header)
  /\ IF length' = None THEN Return("invalid") ELSE pc' = "room" /\ UNCHANGED status
  /\ UNCHANGED <<call, room, pos, result, writer, allocated, produced, sunk, reported>>

\* The caller's buffer is compared with the length, the string resized to it.
CheckRoom ==
  /\ pc = "room"
  /\ \/ /\ api = "c" /\ room < Value(length)
        /\ Return("too_small")
        /\ UNCHANGED room
     \/ /\ api = "string" /\ Value(length) > MaxString
        /\ Return("invalid")
        /\ UNCHANGED room
     \/ /\ api = "c" => room >= Value(length)
        /\ api = "string" => Value(length) <= MaxString
        /\ room' = IF api = "string" THEN Value(length) ELSE room
        /\ pc' = "read"
        /\ UNCHANGED status
  /\ UNCHANGED <<call, length, pos, result, writer, allocated, produced, sunk, reported>>

\* A round of SnappyDecompressor::ReadUncompressedLength: "shift" is 7 times the
\* digits read, and a digit that loses bits when it is shifted is refused.
\* (with six bytes read)
TooLongLate == Len(result) > 5
TooLong == Len(result) = 5
ReadByte ==
  /\ pc = "read"
  /\ IF TooLong \/ pos = Len(header)
     THEN Return("invalid") /\ UNCHANGED <<pos, result>>
     ELSE LET c == header[pos + 1]
              val == c % 128
          IN  /\ pos' = pos + 1
              /\ IF Len(result) = 4 /\ val >= 16
                 THEN Return("invalid") /\ UNCHANGED result
                 ELSE /\ result' = Append(result, val)
                      /\ pc' = IF c < 128 THEN "writer" ELSE "read"
                      /\ UNCHANGED status
  /\ UNCHANGED <<call, room, length, writer, allocated, produced, sunk, reported>>

Digits == [i \in 1 .. 5 |-> IF i <= Len(result) THEN result[i] ELSE 0]
Expected == Value(Digits)

\* RawUncompress and IsValidCompressedBuffer make their writers.
ChooseWriter ==
  /\ pc = "writer" /\ api # "sink"
  /\ writer' = IF api = "validate" THEN "validator" ELSE "array"
  /\ pc' = "tags"
  /\ UNCHANGED <<call, room, length, pos, result, allocated, produced, sunk, reported, status>>

\* GetAppendBufferVariable(1, length, &c, 1): the buffer of one byte, or all of
\* the array that the sink writes to.
\* (with the answer of the sink not looked at)
TakeBufferAlways ==
  /\ pc = "writer" /\ api = "sink"
  /\ allocated' = IF sinkKind = "default" THEN 1 ELSE Expected
  /\ room' = allocated'
  /\ writer' = "array"
  /\ pc' = "tags"
  /\ UNCHANGED <<call, length, pos, result, produced, sunk, reported, status>>
GetAppendBufferVariable ==
  /\ pc = "writer" /\ api = "sink"
  /\ allocated' = IF sinkKind = "default" THEN 1 ELSE Expected
  /\ room' = allocated'
  /\ writer' = IF allocated' >= Expected THEN "array" ELSE "scattered"
  /\ pc' = "tags"
  /\ UNCHANGED <<call, length, pos, result, produced, sunk, reported, status>>

\* InternalUncompressAllTags.  A writer takes all that is produced, or refuses the
\* element that exceeds the expected length, and then the stream is not at its
\* end; the validator counts that element too.  The scattered writer hands its
\* blocks to the sink, and one it had begun to fill with the refused element is
\* handed over whole: here up to Expected, for which less than a block is missing.
\* Where more is, the code stops at the end of that block; and a literal that its
\* source cuts may be taken in part.  What a failed call leaves is not claimed to
\* be more exact than that it is no more than Expected.
\* (with CheckLength satisfied by fewer bytes)
Refused == body.yields - body.last
TagsShort ==
  /\ pc = "tags"
  /\ produced' = IF body.yields <= Expected \/ writer = "validator" THEN body.yields ELSE Refused
  /\ \/ writer = "scattered" /\ sunk' = produced'
     \/ writer = "scattered" /\ body.yields > Expected /\ sunk' = Expected
     \/ writer # "scattered" /\ UNCHANGED sunk
  /\ status' = IF body.clean /\ body.yields <= Expected THEN "ok" ELSE "invalid"
  /\ pc' = "end"
  /\ UNCHANGED <<call, room, length, pos, result, writer, allocated, reported>>
DecompressTags ==
  /\ pc = "tags"
  /\ produced' = IF body.yields <= Expected \/ writer = "validator" THEN body.yields ELSE Refused
  /\ \/ writer = "scattered" /\ sunk' = produced'
     \/ writer = "scattered" /\ body.yields > Expected /\ sunk' = Expected
     \/ writer # "scattered" /\ UNCHANGED sunk
  /\ status' = IF body.clean /\ body.yields = Expected THEN "ok" ELSE "invalid"
  /\ pc' = "end"
  /\ UNCHANGED <<call, room, length, pos, result, writer, allocated, reported>>

\* What the callers do with the verdict: the C function reports the length, and
\* Uncompress to a sink appends what is in the flat buffer.
\* (with the length reported whatever the verdict is)
HandBackAlways ==
  /\ pc = "end" /\ pc' = "done"
  /\ reported' = IF api = "c" THEN Value(length) ELSE reported
  /\ sunk' = IF api = "sink" /\ writer = "array" THEN produced ELSE sunk
  /\ UNCHANGED <<call, room, length, pos, result, writer, allocated, produced, status>>
HandBack ==
  /\ pc = "end" /\ pc' = "done"
  /\ reported' = IF api = "c" /\ status = "ok" THEN Value(length) ELSE reported
  /\ sunk' = IF api = "sink" /\ writer = "array" THEN produced ELSE sunk
  /\ UNCHANGED <<call, room, length, pos, result, writer, allocated, produced, status>>

Returned == pc = "done" /\ UNCHANGED vars

Next == \/ GetUncompressedLength \/ CheckRoom \/ ReadByte \/ ChooseWriter
        \/ GetAppendBufferVariable \/ DecompressTags \/ HandBack \/ Returned

Spec == Init /\ [][Next]_vars

(***************************************************************************)
(* Properties                                                              *)
(***************************************************************************)
TypeOK == /\ api \in Calls
          /\ length = None \/ (length \in [1 .. 5 -> 0 .. 127] /\ length[5] < 16)
          /\ pos \in 0 .. 5 /\ pos <= Len(header)
          /\ Len(result) <= 5 /\ Value(Digits) <= Huge
          /\ writer \in {"none", "array", "scattered", "validator"}
          /\ {room, allocated, produced, sunk, reported} \subseteq Nat
          /\ status \in {"none", "ok", "invalid", "too_small"}

\* The two readers of the length agree on every sequence of bytes: the one that
\* reads a Source byte by byte accepts exactly what Parse32WithLimit accepts,
\* finds the same number, and leaves the source where the number ends.  The room
\* is checked with one of them and the writer is bounded by the other.
LengthsAgree ==
  /\ pc \in {"writer", "tags", "end"} =>
       /\ Parse(header) = Digits
       /\ pos \in Ends(header)
  /\ pc = "done" /\ writer = "none" /\ status = "invalid" =>
       Parse(header) = None \/ api = "string"

\* Nothing is stored behind the caller's buffer, the string or the buffer that
\* the sink gave: SnappyArrayWriter trusts the length of the stream, so that the
\* room must have been compared with that very number.
NeverOverrun == writer = "array" => Expected <= room /\ produced <= room

\* A call succeeds exactly if the length is a legal one, there is room for it and
\* the elements produce that many bytes and are all there.
Legal == Parse(header) # None
Whole == Legal /\ body.clean /\ body.yields = Value(Parse(header))
NoRoom == \/ api = "c" /\ room < Value(Parse(header))
          \/ api = "string" /\ Value(Parse(header)) > MaxString
StatusIsRight ==
  pc = "done" => status = (IF Legal /\ NoRoom THEN IF api = "c" THEN "too_small" ELSE "invalid"
                           ELSE IF Whole THEN "ok" ELSE "invalid")

\* After success the destination has exactly the bytes of the stream and the C
\* caller learns their number.  After a failure that number is as it was, and at
\* no time has a sink more than what the stream announced.
OutputExact ==
  /\ pc = "done" /\ status = "ok" =>
       /\ produced = Value(Parse(header))
       /\ api = "sink" => sunk = produced
       /\ api = "c" => reported = produced
  /\ api = "c" /\ status # "ok" => reported = room
  /\ sunk <= Expected

\* What Compress writes before its blocks is read as the number it was made of.
EncodedIsRead ==
  \A d \in Numbers : header = Encode(d) =>
    /\ pc \in {"tags", "end"} => Digits = d
    /\ pc = "done" /\ writer = "none" => NoRoom

\* A call that uncompresses a whole buffer succeeds for just the legal streams
\* and hands over just their bytes, of which it knows the number that Compress
\* has written.
CallsAreExact == StatusIsRight /\ OutputExact /\ EncodedIsRead
=============================================================================
