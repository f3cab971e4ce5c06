----------------------------- MODULE MCPingPong -----------------------------
(* Values for model-checking PingPong. *)
EXTENDS PingPong

\* Sizes below, at and above what the buffers hold, and none, in binary digits
\* for bytes: the low ones of 4 are 0, those of 1 are 1 from the first on.
SomeSizes == {1, 2, 4, 7}
AllSizes == SomeSizes \cup {0}
BinaryDigits == [s \in Sizes |-> [k \in 0 .. Header |-> s % 2 ^ k]]
=============================================================================
