------------------------------- MODULE Socket -------------------------------
(***************************************************************************)
(* The stop-and-wait protocol of HW1/part2/Socket.h: one ServerSocket that *)
(* writes, ClientSockets that read, and the UDP network between them, in   *)
(* the order SocketServer.cpp and SocketClient.cpp call them: the server   *)
(* binds, accepts one handshake and makes Calls calls of WriteData; a      *)
(* client connects and makes Calls calls of ReadData.                      *)
(*                                                                         *)
(* An action is one system call with the code up to the next one.  A       *)
(* datagram is abstracted to what the code tests: its first word on the    *)
(* way up (the handshake 0xdeadbeef, the ack 0xaced, anything else), and   *)
(* on the way down the ack (0) or the number k of the WriteData call whose *)
(* packet it is.  The network keeps how many copies of each are in flight, *)
(* and delivers them in any order.                                         *)
(***************************************************************************)
EXTENDS Integers, Sequences

CONSTANTS
  Clients,        \* the client processes
  Strangers,      \* addresses of other programs that may send to the port
  NoPeer,         \* client_addr_ before any datagram is received
  Calls,          \* WriteData calls of the server, ReadData calls of a client
  ServerDrop,     \* drop percentage on the server's command line
  ClientDrop,     \* drop percentage on the clients' command lines
  SetDropAt,      \* SetDropAt[k]: SetDropPercentage's argument before call k
  MaxFaults       \* how often the environment may do each thing in Faults

Peers == Clients \cup Strangers
Words == {"deadbeef", "aced", "other"}
Ack == 0
Packets == 1 .. Calls
Datagrams == {Ack} \cup Packets

(***************************************************************************)
(* What the environment may do, at most MaxFaults[f] times: lose a         *)
(* handshake, the reply to it, a packet or its ack; duplicate a datagram;  *)
(* let a 50 ms timeout expire while an answer is still on its way (early)  *)
(* or a 50 000 s one while the server lives (stall); fail a sendto, the    *)
(* server's Bind or the client's setup; let a program other than a client  *)
(* send a datagram to the server (stray).                                  *)
(***************************************************************************)
Losses == {"lostHandshake", "lostReply", "lostData", "lostAck"}
Faults == Losses \cup {"dup", "early", "stall", "send", "bind", "setup", "stray"}

ASSUME ClientsAssumption == Clients # {} /\ Clients \cap Strangers = {}
ASSUME NoPeerAssumption == NoPeer \notin Peers
ASSUME CallsAssumption == Calls \in Nat
ASSUME DropAssumption ==
  /\ ServerDrop \in Int /\ ClientDrop \in Int
  /\ DOMAIN SetDropAt \subseteq Packets
  /\ \A k \in DOMAIN SetDropAt : SetDropAt[k] \in Int
ASSUME FaultsAssumption == MaxFaults \in [Faults -> Nat]

VARIABLES
  sPc,        \* where the server's main is
  sSock,      \* the server's socket: opened? bound?
  sAccepted,  \* accepted_connection_
  sPeer,      \* client_addr_, overwritten by every recvfrom
  sTimeo,     \* SO_RCVTIMEO: none, short (50 ms) or long (50 000 s)
  sDrop,      \* percent_drop_
  writes,     \* WriteData calls begun; in a call, the packet being written
  confirmed,  \* history: acks of each peer that ended a WriteData
  cPc,        \* where each client's main is
  cAccepted,  \* accepted_connection_ of each client
  cTimeo,     \* SO_RCVTIMEO of each client
  reads,      \* ReadData calls of each client that have returned
  got,        \* history: the datagrams each client's ReadData calls received
  up, down,   \* datagrams in flight to the server, to each client
  faults      \* faults that have happened

serverVars == <<sPc, sSock, sAccepted, sPeer, sTimeo, sDrop, writes, confirmed>>
clientVars == <<cPc, cAccepted, cTimeo, reads, got>>
netVars == <<up, down>>
vars == <<serverVars, clientVars, netVars, faults>>

Timeouts == {"none", "short", "long"}

ServerTypeOK ==
  /\ sPc \in {"start", "accept", "reply", "idle", "send", "wait", "done"}
  /\ sSock \in {"none", "unbound", "bound"}
  /\ sAccepted \in BOOLEAN
  /\ sPeer \in Peers \cup {NoPeer}
  /\ sTimeo \in Timeouts
  /\ sDrop \in {ServerDrop} \cup 0 .. 99
  /\ writes \in 0 .. Calls
  /\ confirmed \in [Peers -> Nat]
  /\ sPc \in {"send", "wait"} => writes > 0

ClientTypeOK ==
  /\ cPc \in [Clients -> {"start", "send", "wait", "read", "ack", "done"}]
  /\ cAccepted \in [Clients -> BOOLEAN]
  /\ cTimeo \in [Clients -> Timeouts]
  /\ reads \in [Clients -> 0 .. Calls]
  /\ got \in [Clients -> Seq(Datagrams)]
  /\ \A c \in Clients : cPc[c] = "ack" => reads[c] < Calls

NetTypeOK ==
  /\ up \in [Peers -> [Words -> Nat]]
  /\ down \in [Clients -> [Datagrams -> Nat]]
  /\ faults \in [Faults -> Nat]

TypeOK == ServerTypeOK /\ ClientTypeOK /\ NetTypeOK

Init ==
  /\ sPc = "start" /\ sSock = "none" /\ sAccepted = FALSE /\ sPeer = NoPeer
  /\ sTimeo = "none" /\ sDrop = ServerDrop /\ writes = 0
  /\ confirmed = [p \in Peers |-> 0]
  /\ cPc = [c \in Clients |-> "start"]
  /\ cAccepted = [c \in Clients |-> FALSE]
  /\ cTimeo = [c \in Clients |-> "none"]
  /\ reads = [c \in Clients |-> 0]
  /\ got = [c \in Clients |-> <<>>]
  /\ up = [p \in Peers |-> [w \in Words |-> 0]]
  /\ down = [c \in Clients |-> [k \in Datagrams |-> 0]]
  /\ faults = [f \in Faults |-> 0]

Fault(f) == faults[f] < MaxFaults[f] /\ faults' = [faults EXCEPT ![f] = @ + 1]

-----------------------------------------------------------------------------
(* The network *)

\* A datagram sent to a port nobody has bound is discarded by its host.
SendUp(p, w) == up' = IF sSock = "bound" THEN [up EXCEPT ![p][w] = @ + 1] ELSE up
Open(c) == cPc[c] \notin {"start", "done"}
SendDown(p, k) ==
  down' = IF p \in Clients /\ Open(p) THEN [down EXCEPT ![p][k] = @ + 1] ELSE down

TakeUp(p, w) == up[p][w] > 0 /\ up' = [up EXCEPT ![p][w] = @ - 1]
TakeDown(c, k) == down[c][k] > 0 /\ down' = [down EXCEPT ![c][k] = @ - 1]

\* Nothing is in flight and nobody is about to answer: a receiver that waits now
\* waits for a datagram that was never sent.
Quiet ==
  /\ \A p \in Peers, w \in Words : up[p][w] = 0
  /\ \A c \in Clients, k \in Datagrams : down[c][k] = 0
  /\ \A c \in Clients : cPc[c] # "ack"
  /\ sPc # "reply"

\* A 50 ms timeout expires when no answer comes, or early, before a slow one.
ShortTimeout == (Quiet /\ UNCHANGED faults) \/ (~Quiet /\ Fault("early"))

Lose ==
  /\ \/ (\E c \in Clients : TakeUp(c, "deadbeef")) /\ Fault("lostHandshake") /\ UNCHANGED down
     \/ (\E c \in Clients : TakeUp(c, "aced")) /\ Fault("lostAck") /\ UNCHANGED down
     \/ (\E c \in Clients : TakeDown(c, Ack)) /\ Fault("lostReply") /\ UNCHANGED up
     \/ (\E c \in Clients, k \in Packets : TakeDown(c, k)) /\ Fault("lostData") /\ UNCHANGED up
  /\ UNCHANGED <<serverVars, clientVars>>

Duplicate ==
  /\ Fault("dup")
  /\ \/ \E p \in Peers, w \in Words :
          up[p][w] > 0 /\ up' = [up EXCEPT ![p][w] = @ + 1] /\ UNCHANGED down
     \/ \E c \in Clients, k \in Datagrams :
          down[c][k] > 0 /\ down' = [down EXCEPT ![c][k] = @ + 1] /\ UNCHANGED up
  /\ UNCHANGED <<serverVars, clientVars>>

\* A program that is no client sends something of its own to the server's port.
\* That it sends a handshake or an ack, or anything to a client, is left out.
Stray(p) ==
  /\ Fault("stray")
  /\ SendUp(p, "other")
  /\ UNCHANGED <<serverVars, clientVars, down>>

-----------------------------------------------------------------------------
(* DropPacket: RandomNumber() % 100 is compared, as an unsigned int, with  *)
(* percent_drop_, so a negative percentage behaves like one above 99.      *)
MayDrop(percent) == percent # 0
MayPass(percent) == percent \in 0 .. 99

\* What ends the loop of the server's WriteData, and of the client's; with the
\* test of the ack's value forgotten, any datagram would.
EndsWriteOnAny(w) == w \in Words
EndsConnectOnAny(k) == k \in Datagrams
EndsWrite(w) == w = "aced"
EndsConnect(k) == k = Ack

\* SetDropPercentage keeps the old percentage when the new one is invalid.
SetDropPercentage(old, percent) == IF percent \in 0 .. 99 THEN percent ELSE old

-----------------------------------------------------------------------------
(* The server *)

\* main ignores Bind's result: without a socket, or with one whose port is
\* taken, it goes on to Accept.  Only a setsockopt that fails makes it exit.
Bind ==
  /\ sPc = "start"
  /\ \/ sPc' = "accept" /\ sSock' = "bound" /\ UNCHANGED faults
     \/ sPc' = "accept" /\ sSock' \in {"none", "unbound"} /\ Fault("bind")
     \/ sPc' = "done" /\ sSock' = "none" /\ Fault("bind")
  /\ UNCHANGED <<sAccepted, sPeer, sTimeo, sDrop, writes, confirmed, clientVars, netVars>>

\* Accept calls ReadData, which answers any datagram with an ack ...
AcceptReceive(p, w) ==
  /\ sPc = "accept" /\ sSock = "bound"
  /\ TakeUp(p, w)
  /\ sPc' = "reply"
  /\ sPeer' = p
  /\ sAccepted' = (w = "deadbeef")
  /\ UNCHANGED <<sSock, sTimeo, sDrop, writes, confirmed, clientVars, down, faults>>

\* ... and a sendto that fails there makes Accept give up the connection.
AcceptReply ==
  /\ sPc = "reply"
  /\ sPc' = "idle"
  /\ \/ SendDown(sPeer, Ack) /\ UNCHANGED <<sAccepted, faults>>
     \/ Fault("send") /\ sAccepted' = FALSE /\ UNCHANGED down
  /\ UNCHANGED <<sSock, sPeer, sTimeo, sDrop, writes, confirmed, clientVars, up>>

\* Without a socket recvfrom fails and Accept gives up.
AcceptError ==
  /\ sPc = "accept" /\ sSock = "none"
  /\ sPc' = "idle"
  /\ UNCHANGED <<sSock, sAccepted, sPeer, sTimeo, sDrop, writes, confirmed,
                 clientVars, netVars, faults>>

\* (one call too many, with <= in the loops)
MoreWritesByOne == writes <= Calls
MoreWrites == writes < Calls

\* The next WriteData, if main's loops have not made them all, after the SetDropPercentage main may call before it.
WriteBegin ==
  /\ sPc = "idle" /\ MoreWrites
  /\ writes' = writes + 1
  /\ sDrop' = IF writes + 1 \in DOMAIN SetDropAt
              THEN SetDropPercentage(sDrop, SetDropAt[writes + 1]) ELSE sDrop
  /\ IF sAccepted THEN sTimeo' = "short" /\ sPc' = "send"
                  ELSE UNCHANGED <<sTimeo, sPc>>
  /\ UNCHANGED <<sSock, sAccepted, sPeer, confirmed, clientVars, netVars, faults>>

\* One turn of the loop sends the packet or, by DropPacket, does not.
WriteSend ==
  /\ sPc = "send" /\ MayPass(sDrop)
  /\ SendDown(sPeer, writes)
  /\ sPc' = "wait"
  /\ UNCHANGED <<sSock, sAccepted, sPeer, sTimeo, sDrop, writes, confirmed,
                 clientVars, up, faults>>

WriteDrop ==
  /\ sPc = "send" /\ MayDrop(sDrop)
  /\ sPc' = "wait"
  /\ UNCHANGED <<sSock, sAccepted, sPeer, sTimeo, sDrop, writes, confirmed,
                 clientVars, netVars, faults>>

\* A failed sendto ends the call at once, with the 50 ms timeout still set.
WriteFail ==
  /\ sPc = "send" /\ MayPass(sDrop)
  /\ Fault("send")
  /\ sPc' = "idle"
  /\ UNCHANGED <<sSock, sAccepted, sPeer, sTimeo, sDrop, writes, confirmed,
                 clientVars, netVars>>

\* Any ack of anybody ends the call, any other datagram makes it send again;
\* either way its sender becomes client_addr_.
WriteReceive(p, w) ==
  /\ sPc = "wait"
  /\ TakeUp(p, w)
  /\ sPeer' = p
  /\ IF EndsWrite(w)
     THEN /\ sPc' = "idle" /\ sTimeo' = "long"
          /\ confirmed' = [confirmed EXCEPT ![p] = @ + 1]
     ELSE sPc' = "send" /\ UNCHANGED <<sTimeo, confirmed>>
  /\ UNCHANGED <<sSock, sAccepted, sDrop, writes, clientVars, down, faults>>

\* (the loop would wait on without sending again)
NoRetry == "wait"
Retry == "send"
WriteTimeout ==
  /\ sPc = "wait"
  /\ ShortTimeout
  /\ sPc' = Retry
  /\ UNCHANGED <<sSock, sAccepted, sPeer, sTimeo, sDrop, writes, confirmed,
                 clientVars, netVars>>

\* main returns; the socket's buffer goes with it.
ServerClose ==
  /\ sPc = "idle" /\ writes = Calls
  /\ sPc' = "done" /\ sSock' = "none"
  /\ up' = [p \in Peers |-> [w \in Words |-> 0]]
  /\ UNCHANGED <<sAccepted, sPeer, sTimeo, sDrop, writes, confirmed,
                 clientVars, down, faults>>

-----------------------------------------------------------------------------
(* A client *)

\* Connect up to its WriteData; main ignores a failure.
ConnectSetup(c) ==
  /\ cPc[c] = "start"
  /\ \/ /\ cPc' = [cPc EXCEPT ![c] = "send"]
        /\ cAccepted' = [cAccepted EXCEPT ![c] = TRUE]
        /\ cTimeo' = [cTimeo EXCEPT ![c] = "short"]
        /\ UNCHANGED faults
     \/ /\ Fault("setup")
        /\ cPc' = [cPc EXCEPT ![c] = "read"]
        /\ UNCHANGED <<cAccepted, cTimeo>>
  /\ UNCHANGED <<serverVars, reads, got, netVars>>

ConnectSend(c) ==
  /\ cPc[c] = "send" /\ MayPass(ClientDrop)
  /\ SendUp(c, "deadbeef")
  /\ cPc' = [cPc EXCEPT ![c] = "wait"]
  /\ UNCHANGED <<serverVars, cAccepted, cTimeo, reads, got, down, faults>>

ConnectDrop(c) ==
  /\ cPc[c] = "send" /\ MayDrop(ClientDrop)
  /\ cPc' = [cPc EXCEPT ![c] = "wait"]
  /\ UNCHANGED <<serverVars, cAccepted, cTimeo, reads, got, netVars, faults>>

\* WriteData returns 1, Connect tests for a negative value and returns 0: the
\* connection counts as established, with the 50 ms timeout still set.
ConnectFail(c) ==
  /\ cPc[c] = "send" /\ MayPass(ClientDrop)
  /\ Fault("send")
  /\ cPc' = [cPc EXCEPT ![c] = "read"]
  /\ UNCHANGED <<serverVars, cAccepted, cTimeo, reads, got, netVars>>

\* Only an ack ends Connect; a packet of the server is read and forgotten.
ConnectReceive(c, k) ==
  /\ cPc[c] = "wait"
  /\ TakeDown(c, k)
  /\ IF EndsConnect(k)
     THEN /\ cPc' = [cPc EXCEPT ![c] = "read"]
          /\ cTimeo' = [cTimeo EXCEPT ![c] = "long"]
     ELSE cPc' = [cPc EXCEPT ![c] = "send"] /\ UNCHANGED cTimeo
  /\ UNCHANGED <<serverVars, cAccepted, reads, got, up, faults>>

ConnectTimeout(c) ==
  /\ cPc[c] = "wait"
  /\ ShortTimeout
  /\ cPc' = [cPc EXCEPT ![c] = "send"]
  /\ UNCHANGED <<serverVars, cAccepted, cTimeo, reads, got, netVars>>

\* ReadData without a connection returns -1, and main counts the call.
ReadRefused(c) ==
  /\ cPc[c] = "read" /\ ~cAccepted[c] /\ reads[c] < Calls
  /\ reads' = [reads EXCEPT ![c] = @ + 1]
  /\ UNCHANGED <<serverVars, cPc, cAccepted, cTimeo, got, netVars, faults>>

\* ReadData takes whatever arrives for the data it was called for ...
ReadReceive(c, k) ==
  /\ cPc[c] = "read" /\ cAccepted[c] /\ reads[c] < Calls
  /\ TakeDown(c, k)
  /\ got' = [got EXCEPT ![c] = Append(@, k)]
  /\ cPc' = [cPc EXCEPT ![c] = "ack"]
  /\ UNCHANGED <<serverVars, cAccepted, cTimeo, reads, up, faults>>

\* ... and answers it, whatever the drop percentage, unless sendto fails.
\* (with the acks, too, left to DropPacket)
AckUpUnlessDropped(c) ==
  \/ MayPass(ClientDrop) /\ SendUp(c, "aced")
  \/ MayDrop(ClientDrop) /\ UNCHANGED up
AckUp(c) == SendUp(c, "aced")
ReadAck(c) ==
  /\ cPc[c] = "ack"
  /\ \/ AckUp(c) /\ UNCHANGED faults
     \/ Fault("send") /\ UNCHANGED up
  /\ cPc' = [cPc EXCEPT ![c] = "read"]
  /\ reads' = [reads EXCEPT ![c] = @ + 1]
  /\ UNCHANGED <<serverVars, cAccepted, cTimeo, got, down>>

\* recvfrom times out: the call returns -1 and main goes on with the next.
ReadTimeout(c) ==
  /\ cPc[c] = "read" /\ cAccepted[c] /\ reads[c] < Calls
  /\ IF cTimeo[c] = "short" THEN ShortTimeout
     ELSE \/ sPc = "done" /\ Quiet /\ UNCHANGED faults
          \/ sPc # "done" /\ Fault("stall")
  /\ reads' = [reads EXCEPT ![c] = @ + 1]
  /\ UNCHANGED <<serverVars, cPc, cAccepted, cTimeo, got, netVars>>

ClientClose(c) ==
  /\ cPc[c] = "read" /\ reads[c] = Calls
  /\ cPc' = [cPc EXCEPT ![c] = "done"]
  /\ down' = [down EXCEPT ![c] = [k \in Datagrams |-> 0]]
  /\ UNCHANGED <<serverVars, cAccepted, cTimeo, reads, got, up, faults>>

-----------------------------------------------------------------------------
ServerReceive == \E p \in Peers, w \in Words : AcceptReceive(p, w) \/ WriteReceive(p, w)

Server ==
  \/ Bind \/ ServerReceive \/ AcceptReply \/ AcceptError
  \/ WriteBegin \/ WriteSend \/ WriteDrop \/ WriteFail \/ WriteTimeout \/ ServerClose

ClientReceive(c) == \E k \in Datagrams : ConnectReceive(c, k) \/ ReadReceive(c, k)

Client(c) ==
  \/ ConnectSetup(c) \/ ConnectSend(c) \/ ConnectDrop(c) \/ ConnectFail(c)
  \/ ClientReceive(c) \/ ConnectTimeout(c)
  \/ ReadRefused(c) \/ ReadAck(c) \/ ReadTimeout(c) \/ ClientClose(c)

Network == Lose \/ Duplicate \/ \E p \in Strangers : Stray(p)

\* The clients have exited, and the server too unless it waits for a handshake.
Stopped ==
  /\ \A c \in Clients : cPc[c] = "done"
  /\ sPc = "done" \/ (sPc = "accept" /\ sSock # "none" /\ Quiet)
  /\ UNCHANGED vars

Next == Server \/ (\E c \in Clients : Client(c)) \/ Network \/ Stopped

Spec == Init /\ [][Next]_vars

(***************************************************************************)
(* Both programs keep running, and a timeout that is due expires.  rand()  *)
(* keeps DropPacket from dropping every retransmission, and a datagram     *)
(* that stays in flight is read from the socket's queue in the end.        *)
(***************************************************************************)
Fairness ==
  /\ WF_vars(Server) /\ SF_vars(WriteSend)
  /\ \A p \in Peers : SF_vars(WriteReceive(p, "aced"))
  /\ \A c \in Clients :
       /\ WF_vars(Client(c)) /\ SF_vars(ConnectSend(c))
       /\ SF_vars(ConnectReceive(c, Ack))

FairSpec == Spec /\ Fairness

-----------------------------------------------------------------------------
(* Safety *)

\* The client's Connect has seen the server's ack.
Connected(c) == cTimeo[c] = "long"

\* A WriteData that returns on an ack of c was paid for by a datagram c read:
\* retransmissions, lost and reordered datagrams and other clients never make
\* the server count more acks than reads (only the network's copies could).
ConfirmedWereRead ==
  \A c \in Clients : confirmed[c] <= Len(got[c]) + faults["dup"]

\* Accept acks one datagram, so of all the clients that shake hands at most one
\* gets past Connect, and only if the server took its handshake.
OneClientConnects ==
  \A c \in Clients :
    Connected(c) => sAccepted /\ \A d \in Clients : Connected(d) => d = c

\* The ack of a client's handshake is not taken for data by its ReadData,
\* however often the handshake was retransmitted.
ReadsAreData ==
  faults["dup"] = 0 =>
    \A c \in Clients : Connected(c) => \A j \in 1 .. Len(got[c]) : got[c][j] # Ack

\* With one client, the j-th datagram it reads is the packet of one of the first
\* j WriteData calls: the server never runs ahead of the client.
NeverAhead ==
  \A c \in Clients : Clients = {c} =>
    \A j \in 1 .. Len(got[c]) : got[c][j] <= j + faults["dup"] + faults["send"]

\* With one client, a server whose session was accepted exits only after the
\* client has read as many datagrams as the server wrote.
FinishedWereRead ==
  \A c \in Clients : Clients = {c} =>
    (sPc = "done" /\ sAccepted => Len(got[c]) + faults["dup"] + faults["send"] >= Calls)

\* What the error message of Connect promises: a Connect that returns normally
\* has completed the handshake.
ConnectReportsFailure ==
  \A c \in Clients : cPc[c] = "read" /\ cAccepted[c] => Connected(c)

-----------------------------------------------------------------------------
(* Liveness *)

\* Both programs come to their end.
BothFinish == <>(sPc = "done" /\ \A c \in Clients : cPc[c] = "done")

\* A client that has connected completes its reads.
ConnectedFinishes == \A c \in Clients : Connected(c) ~> cPc[c] = "done"

=============================================================================
