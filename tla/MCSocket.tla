------------------------------ MODULE MCSocket ------------------------------
(* Values for model-checking Socket, and its refinement of ReliableChannel.  *)
EXTENDS Socket, TLC

\* SocketServer.cpp sets the drop percentage in its third phase only, and there
\* before every 200 calls; here before the last call.
LastCall == Calls :> 5

\* Budgets of the environment: n for the faults in fs, none for the others.
Limits(fs, n) == [f \in Faults |-> IF f \in fs THEN n ELSE 0]
Survivable == Limits({"lostHandshake", "lostData"}, 2)
Slow == Limits({"early", "lostHandshake", "lostData"}, 2)
AnyLoss == Limits(Losses, 1)
Unreliable == Limits(Faults \ {"stray", "stall"}, 1)
Crowded == [Limits({"stray", "send", "lostReply", "stall"}, 1) EXCEPT !["early"] = 2]
SendFails == Limits({"send"}, 1)

TheClient == CHOOSE c \in Clients : TRUE
Channel == INSTANCE ReliableChannel WITH
  sent <- writes, got <- got[TheClient], confirmed <- confirmed[TheClient]

\* With one client, a network that may lose handshakes and packets but delivers
\* the server's reply and the client's acks before the 50 ms are over, and no
\* failing call, the session is a reliable channel, whatever DropPacket drops.
ReliableSession == Channel!Spec

=============================================================================
