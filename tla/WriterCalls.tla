---------------------------- MODULE WriterCalls ----------------------------
(***************************************************************************)
(* The calls a decompressor makes of a writer.  The bytes of a literal are *)
(* all different from those before, so that a byte in the wrong place      *)
(* shows; 0 is a byte that nobody wrote, or that does not count.           *)
(***************************************************************************)
EXTENDS Memory

CONSTANTS Lengths,    \* lengths of literals and copies
          Offsets,    \* offsets of copies, illegal ones included
          Wide        \* bytes a fast append stores: 16

\* Append or TryFastAppend, and AppendFromSelf.
Literals == [kind : {"literal"}, offset : {0}, len : Lengths]
Copies == [kind : {"copy"}, offset : Offsets, len : Lengths]
Calls == Literals \cup Copies
NoCall == [kind |-> "none", offset |-> 0, len |-> 0]

\* A literal of n bytes after "produced" others.
LiteralBytes(produced, n) == [i \in 1 .. n |-> produced + i]

\* The bytes UnalignedCopy128 stores for it.
WideBytes(produced, n) == LiteralBytes(produced, n) \o Blank(Wide - n)

\* offset - 1u: for an offset of 0 it wraps around to the largest number.
MaxSize == 1073741824
Minus1u(offset) == IF offset = 0 THEN MaxSize ELSE offset - 1

Least(a, b) == IF a <= b THEN a ELSE b
=============================================================================
