----------------------------- MODULE EchoRounds -----------------------------
(***************************************************************************)
(* What the TCP echo benchmark promises: messages that go to the client    *)
(* and back one at a time, the next one only after the last is back, so    *)
(* that a round of the server times one packet.                            *)
(***************************************************************************)
EXTENDS Naturals

CONSTANT Rounds   \* messages: the handshake and the trials

VARIABLES sent, received, echoed, heard   \* messages past each of the four points

rounds == <<sent, received, echoed, heard>>

Init == sent = 0 /\ received = 0 /\ echoed = 0 /\ heard = 0

Send == sent = heard /\ sent < Rounds /\ sent' = sent + 1 /\ UNCHANGED <<received, echoed, heard>>
Receive == received < sent /\ received' = received + 1 /\ UNCHANGED <<sent, echoed, heard>>
Echo == echoed < received /\ echoed' = echoed + 1 /\ UNCHANGED <<sent, received, heard>>
Hear == heard < echoed /\ heard' = heard + 1 /\ UNCHANGED <<sent, received, echoed>>

Next == Send \/ Receive \/ Echo \/ Hear

Spec == Init /\ [][Next]_rounds

=============================================================================
