------------------------------- MODULE Memory -------------------------------
(***************************************************************************)
(* Stores to buffers.  A buffer is a sequence of bytes, so that byte i of  *)
(* a C++ pointer is b[i + 1].  A store past the end of a buffer makes the  *)
(* sequence longer: a buffer whose length changed was overrun.             *)
(***************************************************************************)
EXTENDS Integers, Sequences

\* memcpy of "bytes" to b + at.
Overwrite(b, at, bytes) ==
  SubSeq(b, 1, at) \o bytes \o SubSeq(b, at + Len(bytes) + 1, Len(b))

\* The last "offset" bytes of s, repeated for len bytes: what a copy byte by
\* byte from "offset" bytes before the end of s adds to s.
Repeated(s, offset, len) ==
  [i \in 1 .. len |-> s[Len(s) - offset + 1 + ((i - 1) % offset)]]

\* A buffer of n bytes that nobody has written.
Blank(n) == [i \in 1 .. n |-> 0]
=============================================================================
