----------------------------- MODULE ArrayWriter -----------------------------
(***************************************************************************)
(* SnappyArrayWriter and SnappyDecompressionValidator of snappy.cc side by *)
(* side: the calls a decompressor makes for one stream go to both, as in   *)
(* RawUncompress and IsValidCompressedBuffer of the same bytes.            *)
(***************************************************************************)
EXTENDS WriterCalls

CONSTANT Limits       \* expected lengths, which are the lengths of the arrays

VARIABLES buf,        \* the array at base_
          op,         \* op_ - base_, which is Produced()
          limit,      \* op_limit_ - base_, and the validator's expected_
          refused,    \* a call of the array writer returned false
          produced,   \* the validator's produced_
          invalid,    \* a call of the validator returned false
          call,       \* the call of the decompressor that is under way
          done        \* history: the content after the calls that succeeded

vars == <<buf, op, limit, refused, produced, invalid, call, done>>

Init == /\ limit \in Limits /\ buf = Blank(limit)
        /\ op = 0 /\ refused = FALSE
        /\ produced = 0 /\ invalid = FALSE
        /\ call = NoCall /\ done = <<>>

\* The decompressor stops at the first call that fails.
Call(c) == /\ call = NoCall /\ ~refused /\ ~invalid
           /\ call' = c
           /\ UNCHANGED <<buf, op, limit, refused, produced, invalid, done>>

Refuse == refused' = TRUE /\ UNCHANGED <<buf, op, done>>
Accept(bytes) == /\ buf' = Overwrite(buf, op, bytes)
                 /\ op' = op + call.len
                 /\ done' = SubSeq(buf', 1, op')
                 /\ UNCHANGED refused

\* The validator only counts.
Count == produced' = produced + call.len /\ invalid' = (produced' > limit)

Finish == call' = NoCall /\ UNCHANGED limit

Append_ == /\ call.kind = "literal"
           /\ IF limit - op < call.len THEN Refuse ELSE Accept(LiteralBytes(op, call.len))
           /\ Count
           /\ Finish

\* TryFastAppend needs room for all the bytes it stores; the validator always
\* declines.
\* (with room for those that count)
FastRoomShort == call.len <= Wide /\ limit - op >= call.len
FastRoom == call.len <= Wide /\ limit - op >= Wide
TryFastAppend == /\ call.kind = "literal" /\ FastRoom
                 /\ Accept(WideBytes(op, call.len))
                 /\ Count
                 /\ Finish

\* IncrementalCopy may store anything between op_end and op_limit_.
CopyBytes(slop) == Repeated(SubSeq(buf, 1, op), call.offset, call.len) \o Blank(slop)
\* (with a copy that ends at op_limit_ refused)
ArrayCopyStrict == IF op <= Minus1u(call.offset) \/ op + call.len >= limit THEN Refuse
                   ELSE \E slop \in 0 .. limit - op - call.len : Accept(CopyBytes(slop))
ArrayCopy == IF op <= Minus1u(call.offset) \/ op + call.len > limit THEN Refuse
             ELSE \E slop \in 0 .. limit - op - call.len : Accept(CopyBytes(slop))

\* (with an offset of 0 accepted)
ValidatorCopyZero ==
  IF produced < call.offset THEN invalid' = TRUE /\ UNCHANGED produced ELSE Count
ValidatorCopy ==
  IF produced <= Minus1u(call.offset) THEN invalid' = TRUE /\ UNCHANGED produced ELSE Count

AppendFromSelf == /\ call.kind = "copy"
                  /\ ArrayCopy
                  /\ ValidatorCopy
                  /\ Finish

Stopped == (refused \/ invalid) /\ UNCHANGED vars

Next == \/ \E c \in Calls : Call(c)
        \/ Append_ \/ TryFastAppend \/ AppendFromSelf
        \/ Stopped

Spec == Init /\ [][Next]_vars

TypeOK == /\ buf \in Seq(Nat) /\ done \in Seq(Nat)
          /\ limit \in Limits /\ op \in 0 .. limit /\ produced \in Nat
          /\ refused \in BOOLEAN /\ invalid \in BOOLEAN
          /\ call \in Calls \cup {NoCall}

\* No store leaves the array: not that of a fast append and not the slop of a
\* copy.
InsideArray == Len(buf) = limit

\* CheckLength of both, and their results before.
SameVerdict == /\ refused = invalid
               /\ ~refused => (op = limit) = (produced = limit)

\* What a fast append or a copy leaves behind op_ never becomes content, and a
\* call is refused just when it is illegal: the writer is a DecompressionWriter
\* with room for the expected length.
Writer == INSTANCE DecompressionWriter WITH expected <- limit, capacity <- limit,
                                            content <- done, dead <- refused
Implements == Writer!Spec
==============================================================================
