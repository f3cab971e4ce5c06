------------------------- MODULE DecompressionWriter -------------------------
(***************************************************************************)
(* What the decompressor wants of a writer: a legal call adds its bytes to *)
(* the content, any other call makes the writer useless, and so does one   *)
(* whose bytes do not fit into the destination.  What a useless writer     *)
(* returns is left open: the length check fails anyway.                    *)
(***************************************************************************)
EXTENDS WriterCalls

VARIABLES expected,   \* SetExpectedLength
          capacity,   \* what the destination can hold
          call,       \* the call that is under way
          content,
          dead

vars == <<expected, capacity, call, content, dead>>

Init == /\ expected \in Nat /\ capacity \in Nat
        /\ call = NoCall
        /\ content = <<>>
        /\ dead = FALSE

Call(c) == /\ call = NoCall
           /\ call' = c
           /\ UNCHANGED <<expected, capacity, content, dead>>

Legal == /\ Len(content) + call.len <= expected
         /\ Len(content) + call.len <= capacity
         /\ call.kind = "copy" => call.offset \in 1 .. Len(content)

Succeed == /\ call # NoCall /\ ~dead /\ Legal
           /\ content' = content \o
                (IF call.kind = "literal" THEN LiteralBytes(Len(content), call.len)
                 ELSE Repeated(content, call.offset, call.len))
           /\ call' = NoCall
           /\ UNCHANGED <<expected, capacity, dead>>

Fail == /\ call # NoCall /\ ~dead /\ ~Legal
        /\ dead' = TRUE
        /\ call' \in {call, NoCall}
        /\ UNCHANGED <<expected, capacity, content>>

Return == /\ call # NoCall /\ dead
          /\ call' = NoCall
          /\ UNCHANGED <<expected, capacity, content, dead>>

Next == (\E c \in Calls : Call(c)) \/ Succeed \/ Fail \/ Return

Spec == Init /\ [][Next]_vars
==============================================================================
