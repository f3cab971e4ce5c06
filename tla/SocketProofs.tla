---------------------------- MODULE SocketProofs ----------------------------
(***************************************************************************)
(* Proofs about Socket for every set of clients and strangers, every       *)
(* number of calls, every drop percentage and every budget of faults: the  *)
(* type invariant, the safety properties, and that a session of one client *)
(* implements ReliableChannel.                                             *)
(***************************************************************************)
EXTENDS MCSocket, TLAPS

LEMMA DatagramFacts ==
  /\ Calls \in Nat
  /\ Ack \in Datagrams /\ Packets \subseteq Datagrams /\ 0 .. Calls = Datagrams
  /\ "deadbeef" \in Words /\ "aced" \in Words /\ "other" \in Words
  BY CallsAssumption DEF Ack, Datagrams, Packets, Words

-----------------------------------------------------------------------------
(* What the helpers of the network do to the variables they change. *)

\* A fault keeps the counters numbers, adds one to its own and none to another.
LEMMA FaultStep ==
  ASSUME TypeOK, NEW f \in Faults, Fault(f)
  PROVE  /\ faults' \in [Faults -> Nat]
         /\ \A g \in Faults : faults'[g] = IF g = f THEN faults[f] + 1 ELSE faults[g]
  BY DEF TypeOK, NetTypeOK, Fault

\* Sending a datagram up adds at most a copy of it, and changes nothing else.
LEMMA SendUpStep ==
  ASSUME TypeOK, NEW p \in Peers, NEW w \in Words, SendUp(p, w)
  PROVE  /\ up' \in [Peers -> [Words -> Nat]]
         /\ up'[p][w] \in {up[p][w], up[p][w] + 1}
         /\ \A q \in Peers, v \in Words : <<q, v>> # <<p, w>> => up'[q][v] = up[q][v]
  BY DEF TypeOK, NetTypeOK, SendUp

\* Taking a datagram from the server's socket removes a copy of it.
LEMMA TakeUpStep ==
  ASSUME TypeOK, NEW p \in Peers, NEW w \in Words, TakeUp(p, w)
  PROVE  /\ up' \in [Peers -> [Words -> Nat]]
         /\ up[p][w] > 0 /\ up'[p][w] = up[p][w] - 1
         /\ \A q \in Peers, v \in Words : <<q, v>> # <<p, w>> => up'[q][v] = up[q][v]
  BY DEF TypeOK, NetTypeOK, TakeUp

\* Duplicating one adds a copy of it where there is one.
LEMMA DuplicateStep ==
  ASSUME TypeOK, Duplicate
  PROVE  /\ up' \in [Peers -> [Words -> Nat]] /\ down' \in [Clients -> [Datagrams -> Nat]]
         /\ faults'["dup"] = faults["dup"] + 1 /\ faults'["send"] = faults["send"]
         /\ \A p \in Peers, w \in Words :
              up'[p][w] \in {up[p][w], up[p][w] + 1} /\ (up[p][w] = 0 => up'[p][w] = 0)
         /\ \A p, q \in Peers, v, w \in Words :
              up'[p][v] # up[p][v] /\ up'[q][w] # up[q][w] => p = q /\ v = w
         /\ \A c \in Clients, k \in Datagrams : (down[c][k] = 0 <=> down'[c][k] = 0)
<1> USE DEF TypeOK, NetTypeOK
<1>1. faults'["dup"] = faults["dup"] + 1 /\ faults'["send"] = faults["send"]
  BY FaultStep DEF Duplicate, Faults, Losses
<1>2. ASSUME NEW p \in Peers, NEW w \in Words, up[p][w] > 0, UNCHANGED down,
             up' = [up EXCEPT ![p][w] = @ + 1]
      PROVE  /\ up' \in [Peers -> [Words -> Nat]] /\ up'[p][w] = up[p][w] + 1
             /\ \A q \in Peers, v \in Words : <<q, v>> # <<p, w>> => up'[q][v] = up[q][v]
  <2>1. up \in [Peers -> [Words -> Nat]]
    OBVIOUS
  <2> QED
    BY <1>2, <2>1
<1>3. ASSUME NEW c \in Clients, NEW k \in Datagrams, down[c][k] > 0, UNCHANGED up,
             down' = [down EXCEPT ![c][k] = @ + 1]
      PROVE  /\ down' \in [Clients -> [Datagrams -> Nat]] /\ down'[c][k] = down[c][k] + 1
             /\ \A d \in Clients, j \in Datagrams : <<d, j>> # <<c, k>> => down'[d][j] = down[d][j]
  <2>1. down \in [Clients -> [Datagrams -> Nat]]
    OBVIOUS
  <2> QED
    BY <1>3, <2>1
<1>4. CASE \E p \in Peers, w \in Words :
             up[p][w] > 0 /\ up' = [up EXCEPT ![p][w] = @ + 1] /\ UNCHANGED down
  BY <1>1, <1>2, <1>4
<1>5. CASE \E c \in Clients, k \in Datagrams :
             down[c][k] > 0 /\ down' = [down EXCEPT ![c][k] = @ + 1] /\ UNCHANGED up
  BY <1>1, <1>3, <1>5
<1> QED
  BY <1>4, <1>5 DEF Duplicate

LEMMA SendDownStep ==
  ASSUME TypeOK, NEW p \in Peers \cup {NoPeer}, NEW k \in Datagrams, SendDown(p, k)
  PROVE  /\ down' \in [Clients -> [Datagrams -> Nat]]
         /\ \A c \in Clients, j \in Datagrams :
              down'[c][j] \in {down[c][j], down[c][j] + 1}
         /\ \A c \in Clients, j \in Datagrams :
              <<c, j>> # <<p, k>> => down'[c][j] = down[c][j]
<1>0. down \in [Clients -> [Datagrams -> Nat]]
  BY DEF TypeOK, NetTypeOK
<1>1. CASE p \in Clients /\ Open(p)
  <2>1. down' = [down EXCEPT ![p][k] = @ + 1]
    BY <1>1 DEF SendDown
  <2> QED
    BY <1>0, <1>1, <2>1
<1>2. CASE ~(p \in Clients /\ Open(p))
  BY <1>0, <1>2 DEF SendDown
<1> QED
  BY <1>1, <1>2

LEMMA TakeDownStep ==
  ASSUME TypeOK, NEW c \in Clients, NEW k \in Datagrams, TakeDown(c, k)
  PROVE  /\ down' \in [Clients -> [Datagrams -> Nat]]
         /\ down[c][k] > 0 /\ down'[c][k] = down[c][k] - 1
         /\ \A d \in Clients, j \in Datagrams :
              <<d, j>> # <<c, k>> => down'[d][j] = down[d][j]
<1>1. down \in [Clients -> [Datagrams -> Nat]]
  BY DEF TypeOK, NetTypeOK
<1> QED
  BY <1>1 DEF TakeDown

\* A timeout changes no counter but the one of early timeouts.
LEMMA ShortTimeoutStep ==
  ASSUME TypeOK, ShortTimeout
  PROVE  /\ faults' \in [Faults -> Nat]
         /\ faults'["dup"] = faults["dup"] /\ faults'["send"] = faults["send"]
<1>1. CASE UNCHANGED faults
  BY <1>1 DEF TypeOK, NetTypeOK
<1>2. CASE Fault("early")
  BY <1>2, FaultStep DEF Faults, Losses
<1> QED
  BY <1>1, <1>2 DEF ShortTimeout

-----------------------------------------------------------------------------
(* Type correctness *)

\* Every step leaves every variable in its type: in particular no counter of
\* datagrams in flight becomes negative, and no call is made after the last.
LEMMA ServerFrame ==
  ASSUME ServerTypeOK, UNCHANGED serverVars PROVE ServerTypeOK'
  BY DEF ServerTypeOK, serverVars

LEMMA ClientFrame ==
  ASSUME ClientTypeOK, UNCHANGED clientVars PROVE ClientTypeOK'
  BY DEF ClientTypeOK, clientVars

\* (the environment's budgets are numbers, and so are the counts of its faults)
LEMMA FaultsFrame ==
  ASSUME TypeOK,
         UNCHANGED faults \/ \E f \in {"lostHandshake", "lostReply", "lostData", "lostAck",
                                      "dup", "early", "stall", "send", "bind", "setup", "stray"} : Fault(f)
  PROVE  faults' \in [Faults -> Nat]
<1>1. CASE UNCHANGED faults
  BY <1>1 DEF TypeOK, NetTypeOK
<1>2. CASE \E f \in Faults : Fault(f)
  BY <1>2, FaultStep
<1> QED
  BY <1>1, <1>2 DEF Faults, Losses

\* Every step leaves every variable in its type: in particular no counter of
\* datagrams in flight becomes negative, and no call is made after the last.
LEMMA TypeStep == TypeOK /\ [Next]_vars => TypeOK'
<1> SUFFICES ASSUME TypeOK, [Next]_vars PROVE TypeOK'
  OBVIOUS
<1> USE DatagramFacts DEF TypeOK
<1>1. CASE Bind
  <2>1. ServerTypeOK'
    BY <1>1 DEF Bind, ServerTypeOK
  <2>2. ClientTypeOK'
    BY <1>1, ClientFrame DEF Bind
  <2>3. up' \in [Peers -> [Words -> Nat]]
    BY <1>1 DEF Bind, NetTypeOK, netVars
  <2>4. down' \in [Clients -> [Datagrams -> Nat]]
    BY <1>1 DEF Bind, NetTypeOK, netVars
  <2>5. faults' \in [Faults -> Nat]
    BY <1>1, FaultsFrame DEF Bind
  <2> QED
    BY <2>1, <2>2, <2>3, <2>4, <2>5 DEF NetTypeOK
<1>2. CASE AcceptReply
  <2>1. ServerTypeOK'
    BY <1>2 DEF AcceptReply, ServerTypeOK
  <2>2. ClientTypeOK'
    BY <1>2, ClientFrame DEF AcceptReply
  <2>3. up' \in [Peers -> [Words -> Nat]]
    BY <1>2 DEF AcceptReply, NetTypeOK, netVars
  <2>4. down' \in [Clients -> [Datagrams -> Nat]]
    BY <1>2, SendDownStep DEF AcceptReply, ServerTypeOK, NetTypeOK
  <2>5. faults' \in [Faults -> Nat]
    BY <1>2, FaultsFrame DEF AcceptReply
  <2> QED
    BY <2>1, <2>2, <2>3, <2>4, <2>5 DEF NetTypeOK
<1>3. CASE AcceptError
  <2>1. ServerTypeOK'
    BY <1>3 DEF AcceptError, ServerTypeOK
  <2>2. ClientTypeOK'
    BY <1>3, ClientFrame DEF AcceptError
  <2>3. up' \in [Peers -> [Words -> Nat]]
    BY <1>3 DEF AcceptError, NetTypeOK, netVars
  <2>4. down' \in [Clients -> [Datagrams -> Nat]]
    BY <1>3 DEF AcceptError, NetTypeOK, netVars
  <2>5. faults' \in [Faults -> Nat]
    BY <1>3, FaultsFrame DEF AcceptError
  <2> QED
    BY <2>1, <2>2, <2>3, <2>4, <2>5 DEF NetTypeOK
<1>4. CASE WriteBegin
  <2>1. ServerTypeOK'
    <3>1. writes' \in 0 .. Calls /\ writes' > 0
      BY <1>4 DEF WriteBegin, MoreWrites, ServerTypeOK
    <3>2. sDrop' \in {ServerDrop} \cup 0 .. 99
      BY <1>4 DEF WriteBegin, SetDropPercentage, ServerTypeOK
    <3> QED
      BY <1>4, <3>1, <3>2 DEF WriteBegin, ServerTypeOK, Timeouts
  <2>2. ClientTypeOK'
    BY <1>4, ClientFrame DEF WriteBegin
  <2>3. up' \in [Peers -> [Words -> Nat]]
    BY <1>4 DEF WriteBegin, NetTypeOK, netVars
  <2>4. down' \in [Clients -> [Datagrams -> Nat]]
    BY <1>4 DEF WriteBegin, NetTypeOK, netVars
  <2>5. faults' \in [Faults -> Nat]
    BY <1>4, FaultsFrame DEF WriteBegin
  <2> QED
    BY <2>1, <2>2, <2>3, <2>4, <2>5 DEF NetTypeOK
<1>5. CASE WriteSend
  <2>1. ServerTypeOK'
    BY <1>5 DEF WriteSend, ServerTypeOK
  <2>2. ClientTypeOK'
    BY <1>5, ClientFrame DEF WriteSend
  <2>3. up' \in [Peers -> [Words -> Nat]]
    BY <1>5 DEF WriteSend, NetTypeOK, netVars
  <2>4. down' \in [Clients -> [Datagrams -> Nat]]
    BY <1>5, SendDownStep DEF WriteSend, ServerTypeOK, NetTypeOK
  <2>5. faults' \in [Faults -> Nat]
    BY <1>5, FaultsFrame DEF WriteSend
  <2> QED
    BY <2>1, <2>2, <2>3, <2>4, <2>5 DEF NetTypeOK
<1>6. CASE WriteDrop
  <2>1. ServerTypeOK'
    BY <1>6 DEF WriteDrop, ServerTypeOK
  <2>2. ClientTypeOK'
    BY <1>6, ClientFrame DEF WriteDrop
  <2>3. up' \in [Peers -> [Words -> Nat]]
    BY <1>6 DEF WriteDrop, NetTypeOK, netVars
  <2>4. down' \in [Clients -> [Datagrams -> Nat]]
    BY <1>6 DEF WriteDrop, NetTypeOK, netVars
  <2>5. faults' \in [Faults -> Nat]
    BY <1>6, FaultsFrame DEF WriteDrop
  <2> QED
    BY <2>1, <2>2, <2>3, <2>4, <2>5 DEF NetTypeOK
<1>7. CASE WriteFail
  <2>1. ServerTypeOK'
    BY <1>7 DEF WriteFail, ServerTypeOK
  <2>2. ClientTypeOK'
    BY <1>7, ClientFrame DEF WriteFail
  <2>3. up' \in [Peers -> [Words -> Nat]]
    BY <1>7 DEF WriteFail, NetTypeOK, netVars
  <2>4. down' \in [Clients -> [Datagrams -> Nat]]
    BY <1>7 DEF WriteFail, NetTypeOK, netVars
  <2>5. faults' \in [Faults -> Nat]
    BY <1>7, FaultsFrame DEF WriteFail
  <2> QED
    BY <2>1, <2>2, <2>3, <2>4, <2>5 DEF NetTypeOK
<1>8. CASE WriteTimeout
  <2>1. ServerTypeOK'
    BY <1>8 DEF WriteTimeout, ServerTypeOK, Retry
  <2>2. ClientTypeOK'
    BY <1>8, ClientFrame DEF WriteTimeout
  <2>3. up' \in [Peers -> [Words -> Nat]]
    BY <1>8 DEF WriteTimeout, NetTypeOK, netVars
  <2>4. down' \in [Clients -> [Datagrams -> Nat]]
    BY <1>8 DEF WriteTimeout, NetTypeOK, netVars
  <2>5. faults' \in [Faults -> Nat]
    BY <1>8, ShortTimeoutStep DEF WriteTimeout
  <2> QED
    BY <2>1, <2>2, <2>3, <2>4, <2>5 DEF NetTypeOK
<1>9. CASE ServerClose
  <2>1. ServerTypeOK'
    BY <1>9 DEF ServerClose, ServerTypeOK
  <2>2. ClientTypeOK'
    BY <1>9, ClientFrame DEF ServerClose
  <2>3. up' \in [Peers -> [Words -> Nat]]
    BY <1>9 DEF ServerClose, NetTypeOK, netVars
  <2>4. down' \in [Clients -> [Datagrams -> Nat]]
    BY <1>9 DEF ServerClose, NetTypeOK, netVars
  <2>5. faults' \in [Faults -> Nat]
    BY <1>9, FaultsFrame DEF ServerClose
  <2> QED
    BY <2>1, <2>2, <2>3, <2>4, <2>5 DEF NetTypeOK
<1>10. ASSUME NEW p \in Peers, NEW w \in Words, AcceptReceive(p, w) PROVE TypeOK'
  <2>1. ServerTypeOK'
    BY <1>10 DEF AcceptReceive, ServerTypeOK, Timeouts
  <2>2. ClientTypeOK'
    BY <1>10, ClientFrame DEF AcceptReceive
  <2>3. up' \in [Peers -> [Words -> Nat]]
    BY <1>10, TakeUpStep DEF AcceptReceive, NetTypeOK
  <2>4. down' \in [Clients -> [Datagrams -> Nat]]
    BY <1>10 DEF AcceptReceive, NetTypeOK, netVars
  <2>5. faults' \in [Faults -> Nat]
    BY <1>10, FaultsFrame DEF AcceptReceive
  <2> QED
    BY <2>1, <2>2, <2>3, <2>4, <2>5 DEF NetTypeOK
<1>11. ASSUME NEW p \in Peers, NEW w \in Words, WriteReceive(p, w) PROVE TypeOK'
  <2>1. ServerTypeOK'
    BY <1>11 DEF WriteReceive, ServerTypeOK, Timeouts
  <2>2. ClientTypeOK'
    BY <1>11, ClientFrame DEF WriteReceive
  <2>3. up' \in [Peers -> [Words -> Nat]]
    BY <1>11, TakeUpStep DEF WriteReceive, NetTypeOK
  <2>4. down' \in [Clients -> [Datagrams -> Nat]]
    BY <1>11 DEF WriteReceive, NetTypeOK, netVars
  <2>5. faults' \in [Faults -> Nat]
    BY <1>11, FaultsFrame DEF WriteReceive
  <2> QED
    BY <2>1, <2>2, <2>3, <2>4, <2>5 DEF NetTypeOK
<1>12. ASSUME NEW c \in Clients, ConnectSetup(c) PROVE TypeOK'
  <2>1. ServerTypeOK'
    BY <1>12, ServerFrame DEF ConnectSetup
  <2>2. ClientTypeOK'
    BY <1>12 DEF ConnectSetup, ClientTypeOK, Timeouts
  <2>3. up' \in [Peers -> [Words -> Nat]]
    BY <1>12 DEF ConnectSetup, NetTypeOK, netVars
  <2>4. down' \in [Clients -> [Datagrams -> Nat]]
    BY <1>12 DEF ConnectSetup, NetTypeOK, netVars
  <2>5. faults' \in [Faults -> Nat]
    BY <1>12, FaultsFrame DEF ConnectSetup
  <2> QED
    BY <2>1, <2>2, <2>3, <2>4, <2>5 DEF NetTypeOK
<1>13. ASSUME NEW c \in Clients, ConnectSend(c) PROVE TypeOK'
  <2>1. ServerTypeOK'
    BY <1>13, ServerFrame DEF ConnectSend
  <2>2. ClientTypeOK'
    BY <1>13 DEF ConnectSend, ClientTypeOK
  <2>3. up' \in [Peers -> [Words -> Nat]]
    BY <1>13, SendUpStep DEF ConnectSend, NetTypeOK, Peers
  <2>4. down' \in [Clients -> [Datagrams -> Nat]]
    BY <1>13 DEF ConnectSend, NetTypeOK, Peers, netVars
  <2>5. faults' \in [Faults -> Nat]
    BY <1>13, FaultsFrame DEF ConnectSend
  <2> QED
    BY <2>1, <2>2, <2>3, <2>4, <2>5 DEF NetTypeOK
<1>14. ASSUME NEW c \in Clients, ConnectDrop(c) PROVE TypeOK'
  <2>1. ServerTypeOK'
    BY <1>14, ServerFrame DEF ConnectDrop
  <2>2. ClientTypeOK'
    BY <1>14 DEF ConnectDrop, ClientTypeOK
  <2>3. up' \in [Peers -> [Words -> Nat]]
    BY <1>14 DEF ConnectDrop, NetTypeOK, netVars
  <2>4. down' \in [Clients -> [Datagrams -> Nat]]
    BY <1>14 DEF ConnectDrop, NetTypeOK, netVars
  <2>5. faults' \in [Faults -> Nat]
    BY <1>14, FaultsFrame DEF ConnectDrop
  <2> QED
    BY <2>1, <2>2, <2>3, <2>4, <2>5 DEF NetTypeOK
<1>15. ASSUME NEW c \in Clients, ConnectFail(c) PROVE TypeOK'
  <2>1. ServerTypeOK'
    BY <1>15, ServerFrame DEF ConnectFail
  <2>2. ClientTypeOK'
    BY <1>15 DEF ConnectFail, ClientTypeOK
  <2>3. up' \in [Peers -> [Words -> Nat]]
    BY <1>15 DEF ConnectFail, NetTypeOK, netVars
  <2>4. down' \in [Clients -> [Datagrams -> Nat]]
    BY <1>15 DEF ConnectFail, NetTypeOK, netVars
  <2>5. faults' \in [Faults -> Nat]
    BY <1>15, FaultsFrame DEF ConnectFail
  <2> QED
    BY <2>1, <2>2, <2>3, <2>4, <2>5 DEF NetTypeOK
<1>16. ASSUME NEW c \in Clients, ConnectTimeout(c) PROVE TypeOK'
  <2>1. ServerTypeOK'
    BY <1>16, ServerFrame DEF ConnectTimeout
  <2>2. ClientTypeOK'
    BY <1>16 DEF ConnectTimeout, ClientTypeOK
  <2>3. up' \in [Peers -> [Words -> Nat]]
    BY <1>16 DEF ConnectTimeout, NetTypeOK, netVars
  <2>4. down' \in [Clients -> [Datagrams -> Nat]]
    BY <1>16 DEF ConnectTimeout, NetTypeOK, netVars
  <2>5. faults' \in [Faults -> Nat]
    BY <1>16, ShortTimeoutStep DEF ConnectTimeout
  <2> QED
    BY <2>1, <2>2, <2>3, <2>4, <2>5 DEF NetTypeOK
<1>17. ASSUME NEW c \in Clients, ReadRefused(c) PROVE TypeOK'
  <2>1. ServerTypeOK'
    BY <1>17, ServerFrame DEF ReadRefused
  <2>2. ClientTypeOK'
    BY <1>17 DEF ReadRefused, ClientTypeOK
  <2>3. up' \in [Peers -> [Words -> Nat]]
    BY <1>17 DEF ReadRefused, NetTypeOK, netVars
  <2>4. down' \in [Clients -> [Datagrams -> Nat]]
    BY <1>17 DEF ReadRefused, NetTypeOK, netVars
  <2>5. faults' \in [Faults -> Nat]
    BY <1>17, FaultsFrame DEF ReadRefused
  <2> QED
    BY <2>1, <2>2, <2>3, <2>4, <2>5 DEF NetTypeOK
<1>18. ASSUME NEW c \in Clients, ReadAck(c) PROVE TypeOK'
  <2>1. ServerTypeOK'
    BY <1>18, ServerFrame DEF ReadAck
  <2>2. ClientTypeOK'
    BY <1>18 DEF ReadAck, ClientTypeOK
  <2>3. up' \in [Peers -> [Words -> Nat]]
    BY <1>18, SendUpStep DEF ReadAck, AckUp, NetTypeOK, Peers
  <2>4. down' \in [Clients -> [Datagrams -> Nat]]
    BY <1>18 DEF ReadAck, NetTypeOK, netVars
  <2>5. faults' \in [Faults -> Nat]
    BY <1>18, FaultsFrame DEF ReadAck
  <2> QED
    BY <2>1, <2>2, <2>3, <2>4, <2>5 DEF NetTypeOK
<1>19. ASSUME NEW c \in Clients, ReadTimeout(c) PROVE TypeOK'
  <2>1. ServerTypeOK'
    BY <1>19, ServerFrame DEF ReadTimeout
  <2>2. ClientTypeOK'
    BY <1>19 DEF ReadTimeout, ClientTypeOK
  <2>3. up' \in [Peers -> [Words -> Nat]]
    BY <1>19 DEF ReadTimeout, NetTypeOK, netVars
  <2>4. down' \in [Clients -> [Datagrams -> Nat]]
    BY <1>19 DEF ReadTimeout, NetTypeOK, netVars
  <2>5. faults' \in [Faults -> Nat]
    BY <1>19, FaultsFrame, ShortTimeoutStep DEF ReadTimeout
  <2> QED
    BY <2>1, <2>2, <2>3, <2>4, <2>5 DEF NetTypeOK
<1>20. ASSUME NEW c \in Clients, ClientClose(c) PROVE TypeOK'
  <2>1. ServerTypeOK'
    BY <1>20, ServerFrame DEF ClientClose
  <2>2. ClientTypeOK'
    BY <1>20 DEF ClientClose, ClientTypeOK
  <2>3. up' \in [Peers -> [Words -> Nat]]
    BY <1>20 DEF ClientClose, NetTypeOK, netVars
  <2>4. down' \in [Clients -> [Datagrams -> Nat]]
    BY <1>20 DEF ClientClose, NetTypeOK, netVars
  <2>5. faults' \in [Faults -> Nat]
    BY <1>20, FaultsFrame DEF ClientClose
  <2> QED
    BY <2>1, <2>2, <2>3, <2>4, <2>5 DEF NetTypeOK
<1>21. ASSUME NEW c \in Clients, NEW k \in Datagrams, ConnectReceive(c, k) PROVE TypeOK'
  <2>1. ServerTypeOK'
    BY <1>21, ServerFrame DEF ConnectReceive
  <2>2. ClientTypeOK'
    BY <1>21 DEF ConnectReceive, ClientTypeOK, Timeouts
  <2>3. up' \in [Peers -> [Words -> Nat]]
    BY <1>21 DEF ConnectReceive, NetTypeOK, netVars
  <2>4. down' \in [Clients -> [Datagrams -> Nat]]
    BY <1>21, TakeDownStep DEF ConnectReceive, NetTypeOK
  <2>5. faults' \in [Faults -> Nat]
    BY <1>21, FaultsFrame DEF ConnectReceive
  <2> QED
    BY <2>1, <2>2, <2>3, <2>4, <2>5 DEF NetTypeOK
<1>22. ASSUME NEW c \in Clients, NEW k \in Datagrams, ReadReceive(c, k) PROVE TypeOK'
  <2>1. ServerTypeOK'
    BY <1>22, ServerFrame DEF ReadReceive
  <2>2. ClientTypeOK'
    BY <1>22 DEF ReadReceive, ClientTypeOK, Timeouts
  <2>3. up' \in [Peers -> [Words -> Nat]]
    BY <1>22 DEF ReadReceive, NetTypeOK, netVars
  <2>4. down' \in [Clients -> [Datagrams -> Nat]]
    BY <1>22, TakeDownStep DEF ReadReceive, NetTypeOK
  <2>5. faults' \in [Faults -> Nat]
    BY <1>22, FaultsFrame DEF ReadReceive
  <2> QED
    BY <2>1, <2>2, <2>3, <2>4, <2>5 DEF NetTypeOK
<1>23. CASE Lose
  <2>1. ServerTypeOK'
    BY <1>23, ServerFrame DEF Lose
  <2>2. ClientTypeOK'
    BY <1>23, ClientFrame DEF Lose
  <2>3. up' \in [Peers -> [Words -> Nat]]
    BY <1>23, TakeUpStep DEF Lose, NetTypeOK, Peers
  <2>4. down' \in [Clients -> [Datagrams -> Nat]]
    BY <1>23, TakeDownStep DEF Lose, NetTypeOK, Peers
  <2>5. faults' \in [Faults -> Nat]
    BY <1>23, FaultsFrame DEF Lose
  <2> QED
    BY <2>1, <2>2, <2>3, <2>4, <2>5 DEF NetTypeOK
<1>24. CASE Duplicate
  <2>1. ServerTypeOK'
    BY <1>24, ServerFrame DEF Duplicate
  <2>2. ClientTypeOK'
    BY <1>24, ClientFrame DEF Duplicate
  <2>3. up' \in [Peers -> [Words -> Nat]]
    BY <1>24, DuplicateStep
  <2>4. down' \in [Clients -> [Datagrams -> Nat]]
    BY <1>24, DuplicateStep
  <2>5. faults' \in [Faults -> Nat]
    BY <1>24, FaultsFrame DEF Duplicate
  <2> QED
    BY <2>1, <2>2, <2>3, <2>4, <2>5 DEF NetTypeOK
<1>25. ASSUME NEW p \in Strangers, Stray(p) PROVE TypeOK'
  <2>1. ServerTypeOK'
    BY <1>25, ServerFrame DEF Stray
  <2>2. ClientTypeOK'
    BY <1>25, ClientFrame DEF Stray
  <2>3. up' \in [Peers -> [Words -> Nat]]
    BY <1>25, SendUpStep DEF Stray, NetTypeOK, Peers
  <2>4. down' \in [Clients -> [Datagrams -> Nat]]
    BY <1>25 DEF Stray, NetTypeOK, netVars
  <2>5. faults' \in [Faults -> Nat]
    BY <1>25, FaultsFrame DEF Stray
  <2> QED
    BY <2>1, <2>2, <2>3, <2>4, <2>5 DEF NetTypeOK
<1>26. CASE UNCHANGED vars
  <2>1. ServerTypeOK'
    BY <1>26, ServerFrame DEF vars, serverVars, clientVars, netVars
  <2>2. ClientTypeOK'
    BY <1>26, ClientFrame DEF vars, serverVars, clientVars, netVars
  <2>3. up' \in [Peers -> [Words -> Nat]]
    BY <1>26 DEF vars, serverVars, clientVars, netVars, NetTypeOK
  <2>4. down' \in [Clients -> [Datagrams -> Nat]]
    BY <1>26 DEF vars, serverVars, clientVars, netVars, NetTypeOK
  <2>5. faults' \in [Faults -> Nat]
    BY <1>26, FaultsFrame DEF vars, serverVars, clientVars, netVars
  <2> QED
    BY <2>1, <2>2, <2>3, <2>4, <2>5 DEF NetTypeOK
<1> QED
  BY <1>1, <1>2, <1>3, <1>4, <1>5, <1>6, <1>7, <1>8, <1>9, <1>10, <1>11, <1>12, <1>13, <1>14, <1>15, <1>16, <1>17, <1>18, <1>19, <1>20, <1>21, <1>22, <1>23, <1>24, <1>25, <1>26
  DEF Next, Server, ServerReceive, Client, ClientReceive, Network, Stopped

LEMMA InitTypeOK == Init => TypeOK
<1> SUFFICES ASSUME Init PROVE TypeOK
  OBVIOUS
<1> USE DatagramFacts DEF Init
<1>1. ServerTypeOK
  <2>1. confirmed \in [Peers -> Nat]
    OBVIOUS
  <2>2. writes \in 0 .. Calls
    OBVIOUS
  <2> QED
    BY <2>1, <2>2 DEF ServerTypeOK, Timeouts
<1>2. ClientTypeOK
  BY DEF ClientTypeOK, Timeouts
<1>3. NetTypeOK
  BY DEF NetTypeOK
<1> QED
  BY <1>1, <1>2, <1>3 DEF TypeOK

\* The variables of Socket keep their types, for any number of clients, calls
\* and faults.
THEOREM TypeCorrect == Spec => []TypeOK
  BY InitTypeOK, TypeStep, PTL DEF Spec

-----------------------------------------------------------------------------
(* Every ack the server counts was read for *)

\* An ack exists from the moment ReadData has taken a datagram to the end of the
\* WriteData that receives it: what is counted, in flight or about to be sent
\* is covered by what was read and by the copies the network made.
ReadCount(c) == Len(got[c])
Covered(c) ==
  /\ confirmed[c] + up[c]["aced"] <= ReadCount(c) + faults["dup"]
  /\ cPc[c] = "ack" => confirmed[c] + up[c]["aced"] < ReadCount(c) + faults["dup"]

\* The counters of faults only grow.
LEMMA FaultsGrow ==
  ASSUME TypeOK, [Next]_vars
  PROVE  \A f \in Faults : faults'[f] >= faults[f]
<1>1. UNCHANGED faults \/ \E f \in Faults : Fault(f)
  <2>1. CASE Server
    BY <2>1 DEF Server, ServerReceive, Bind, AcceptReceive, AcceptReply, AcceptError, WriteBegin,
       WriteSend, WriteDrop, WriteFail, WriteReceive, WriteTimeout, ShortTimeout, ServerClose,
       Faults, Losses
  <2>2. ASSUME NEW c \in Clients, Client(c) PROVE UNCHANGED faults \/ \E f \in Faults : Fault(f)
    BY <2>2 DEF Client, ClientReceive, ConnectSetup, ConnectSend, ConnectDrop, ConnectFail,
       ConnectReceive, ConnectTimeout, ReadRefused, ReadReceive, ReadAck, ReadTimeout,
       ShortTimeout, ClientClose, Faults, Losses
  <2>3. CASE Network
    BY <2>3 DEF Network, Lose, Duplicate, Stray, Faults, Losses
  <2> QED
    BY <2>1, <2>2, <2>3 DEF Next, Stopped, vars
<1> QED
  BY <1>1, FaultStep DEF TypeOK, NetTypeOK

\* The numbers Covered adds up.
LEMMA CoveredNumbers ==
  ASSUME TypeOK, NEW c \in Clients
  PROVE  /\ c \in Peers /\ confirmed[c] \in Nat /\ up[c]["aced"] \in Nat
         /\ up[c]["deadbeef"] \in Nat
         /\ ReadCount(c) \in Nat /\ faults["dup"] \in Nat
<1>1. c \in Peers /\ "aced" \in Words /\ "deadbeef" \in Words /\ "dup" \in Faults
  BY DEF Peers, Words, Faults
<1>2. confirmed[c] \in Nat
  BY <1>1 DEF TypeOK, ServerTypeOK
<1>3. got[c] \in Seq(Datagrams)
  BY DEF TypeOK, ClientTypeOK
<1>4. up[c]["aced"] \in Nat /\ up[c]["deadbeef"] \in Nat /\ faults["dup"] \in Nat
  BY <1>1 DEF TypeOK, NetTypeOK
<1> QED
  BY <1>1, <1>2, <1>3, <1>4 DEF ReadCount

\* Every step keeps the acks of a client covered.
LEMMA CoveredStep ==
  ASSUME TypeOK, [Next]_vars, NEW c \in Clients, Covered(c)
  PROVE  Covered(c)'
<1>1. TypeOK'
  BY TypeStep
<1>2. /\ c \in Peers /\ confirmed[c] \in Nat /\ up[c]["aced"] \in Nat
      /\ ReadCount(c) \in Nat /\ faults["dup"] \in Nat
  BY CoveredNumbers
<1>3. /\ confirmed'[c] \in Nat /\ up'[c]["aced"] \in Nat
      /\ ReadCount(c)' \in Nat /\ faults'["dup"] \in Nat
  <2>1. "aced" \in Words /\ "dup" \in Faults
    BY DEF Words, Faults
  <2>2. confirmed'[c] \in Nat
    BY <1>1, <1>2 DEF TypeOK, ServerTypeOK
  <2>3. got'[c] \in Seq(Datagrams)
    BY <1>1 DEF TypeOK, ClientTypeOK
  <2>4. up'[c]["aced"] \in Nat /\ faults'["dup"] \in Nat
    BY <1>1, <1>2, <2>1 DEF TypeOK, NetTypeOK
  <2> QED
    BY <2>2, <2>3, <2>4 DEF ReadCount
<1>4. faults'["dup"] >= faults["dup"]
  BY FaultsGrow DEF Faults
<1>5. ASSUME confirmed'[c] = confirmed[c], ReadCount(c)' = ReadCount(c),
             up'[c]["aced"] <= up[c]["aced"], cPc'[c] = "ack" => cPc[c] = "ack"
      PROVE  Covered(c)'
  BY <1>2, <1>3, <1>4, <1>5 DEF Covered
<1>6. CASE Server
  <2>1. CASE \/ Bind \/ AcceptReply \/ AcceptError \/ WriteBegin
             \/ WriteSend \/ WriteDrop \/ WriteFail \/ WriteTimeout
    BY <1>2, <1>5, <2>1 DEF Bind, AcceptReply, AcceptError, WriteBegin, WriteSend, WriteDrop,
       WriteFail, WriteTimeout, clientVars, netVars, ReadCount
  <2>2. ASSUME NEW p \in Peers, NEW w \in Words, AcceptReceive(p, w) PROVE Covered(c)'
    <3>1. up'[c]["aced"] <= up[c]["aced"]
      BY <1>2, <2>2, TakeUpStep, DatagramFacts, SMTT(30) DEF AcceptReceive
    <3> QED
      BY <1>5, <2>2, <3>1 DEF AcceptReceive, clientVars, ReadCount
  <2>3. ASSUME NEW p \in Peers, NEW w \in Words, WriteReceive(p, w) PROVE Covered(c)'
    <3>1. CASE p = c /\ w = "aced"
      <4>1. confirmed'[c] = confirmed[c] + 1
        BY <1>2, <2>3, <3>1 DEF WriteReceive, EndsWrite, TypeOK, ServerTypeOK
      <4>2. up'[c]["aced"] = up[c]["aced"] - 1
        BY <1>2, <2>3, <3>1, TakeUpStep, DatagramFacts DEF WriteReceive
      <4>3. cPc' = cPc /\ ReadCount(c)' = ReadCount(c)
        BY <2>3 DEF WriteReceive, clientVars, ReadCount
      <4>4. confirmed'[c] + up'[c]["aced"] = confirmed[c] + up[c]["aced"]
        BY <1>2, <4>1, <4>2
      <4> QED
        BY <1>2, <1>3, <1>4, <4>3, <4>4 DEF Covered
    <3>2. CASE ~(p = c /\ w = "aced")
      <4>1. confirmed'[c] = confirmed[c]
        BY <1>2, <2>3, <3>2 DEF WriteReceive, EndsWrite, TypeOK, ServerTypeOK
      <4>2. up'[c]["aced"] = up[c]["aced"]
        BY <1>2, <2>3, <3>2, TakeUpStep, DatagramFacts DEF WriteReceive
      <4> QED
        BY <1>2, <1>5, <2>3, <4>1, <4>2 DEF WriteReceive, clientVars, ReadCount
    <3> QED
      BY <3>1, <3>2
  <2>4. CASE ServerClose
    <3>1. up'[c]["aced"] = 0
      BY <1>2, <2>4, DatagramFacts DEF ServerClose
    <3> QED
      BY <1>2, <1>5, <2>4, <3>1 DEF ServerClose, clientVars, ReadCount
  <2> QED
    BY <1>6, <2>1, <2>2, <2>3, <2>4 DEF Server, ServerReceive
<1>7. ASSUME NEW d \in Clients, Client(d) PROVE Covered(c)'
  <2>1. confirmed' = confirmed
    BY <1>7 DEF Client, ClientReceive, ConnectSetup, ConnectSend, ConnectDrop, ConnectFail,
       ConnectReceive, ConnectTimeout, ReadRefused, ReadReceive, ReadAck, ReadTimeout,
       ClientClose, serverVars
  <2>2. CASE \/ ConnectSetup(d) \/ ConnectDrop(d) \/ ConnectFail(d) \/ ConnectTimeout(d)
             \/ ReadRefused(d) \/ ReadTimeout(d) \/ ClientClose(d)
             \/ \E k \in Datagrams : ConnectReceive(d, k)
    <3>1. up' = up /\ ReadCount(c)' = ReadCount(c)
      BY <2>2 DEF ConnectSetup, ConnectDrop, ConnectFail, ConnectReceive, ConnectTimeout,
         ReadRefused, ReadTimeout, ClientClose, netVars, ReadCount
    <3>2. cPc'[c] = "ack" => cPc[c] = "ack"
      BY <2>2 DEF ConnectSetup, ConnectDrop, ConnectFail, ConnectReceive, ConnectTimeout,
         ReadRefused, ReadTimeout, ClientClose, TypeOK, ClientTypeOK
    <3> QED
      BY <1>2, <1>5, <2>1, <3>1, <3>2
  <2>3. CASE ConnectSend(d)
    <3>1. d \in Peers /\ up'[c]["aced"] = up[c]["aced"]
      BY <1>2, <2>3, SendUpStep, DatagramFacts DEF ConnectSend, Peers
    <3>2. cPc'[c] = "ack" => cPc[c] = "ack"
      BY <2>3 DEF ConnectSend, TypeOK, ClientTypeOK
    <3> QED
      BY <1>2, <1>5, <2>1, <2>3, <3>1, <3>2 DEF ConnectSend, ReadCount
  <2>4. ASSUME NEW k \in Datagrams, ReadReceive(d, k) PROVE Covered(c)'
    <3>1. CASE d = c
      <4>1. cPc[c] = "read" /\ cPc'[c] = "ack"
        BY <2>4, <3>1 DEF ReadReceive, TypeOK, ClientTypeOK
      <4>2. ReadCount(c)' = ReadCount(c) + 1
        BY <2>4, <3>1 DEF ReadReceive, TypeOK, ClientTypeOK, ReadCount
      <4>3. up' = up
        BY <2>4 DEF ReadReceive
      <4> QED
        BY <1>2, <1>3, <1>4, <2>1, <4>1, <4>2, <4>3 DEF Covered
    <3>2. CASE d # c
      <4>1. cPc'[c] = cPc[c] /\ got'[c] = got[c] /\ up' = up
        BY <2>4, <3>2 DEF ReadReceive, TypeOK, ClientTypeOK
      <4> QED
        BY <1>2, <1>5, <2>1, <4>1 DEF ReadCount
    <3> QED
      BY <3>1, <3>2
  <2>5. CASE ReadAck(d)
    <3>1. d \in Peers /\ (up'[d]["aced"] <= up[d]["aced"] + 1)
          /\ (d # c => up'[c]["aced"] = up[c]["aced"])
      <4>1. d \in Peers /\ up[d]["aced"] \in Nat
        BY CoveredNumbers
      <4>2. CASE SendUp(d, "aced")
        <5>1. up'[d]["aced"] \in {up[d]["aced"], up[d]["aced"] + 1}
          BY <4>1, <4>2, SendUpStep, DatagramFacts
        <5>2. d # c => up'[c]["aced"] = up[c]["aced"]
          BY <1>2, <4>1, <4>2, SendUpStep, DatagramFacts
        <5> QED
          BY <4>1, <5>1, <5>2
      <4>3. CASE UNCHANGED up
        BY <1>2, <4>1, <4>3
      <4> QED
        BY <2>5, <4>2, <4>3 DEF ReadAck, AckUp
    <3>2. got' = got
      BY <2>5 DEF ReadAck
    <3>3. CASE d = c
      <4>1. cPc[c] = "ack" /\ cPc'[c] = "read"
        BY <2>5, <3>3 DEF ReadAck, TypeOK, ClientTypeOK
      <4> QED
        <5>1. /\ confirmed'[c] = confirmed[c] /\ ReadCount(c)' = ReadCount(c)
              /\ up'[c]["aced"] <= up[c]["aced"] + 1 /\ cPc'[c] # "ack"
          BY <2>1, <3>1, <3>2, <3>3, <4>1 DEF ReadCount
        <5>2. confirmed[c] + up[c]["aced"] < ReadCount(c) + faults["dup"]
          BY <4>1 DEF Covered
        <5>3. confirmed'[c] + up'[c]["aced"] <= ReadCount(c)' + faults'["dup"]
          BY <1>2, <1>3, <1>4, <5>1, <5>2
        <5> QED
          BY <5>1, <5>3 DEF Covered
    <3>4. CASE d # c
      <4>1. cPc'[c] = cPc[c]
        BY <2>5, <3>4 DEF ReadAck, TypeOK, ClientTypeOK
      <4> QED
        BY <1>2, <1>5, <2>1, <3>1, <3>2, <3>4, <4>1 DEF ReadCount
    <3> QED
      BY <3>3, <3>4
  <2> QED
    BY <1>7, <2>2, <2>3, <2>4, <2>5 DEF Client, ClientReceive
<1>8. CASE Lose
  <2>1. up'[c]["aced"] <= up[c]["aced"]
    <3>1. CASE \E d \in Clients, w \in {"deadbeef", "aced"} : TakeUp(d, w)
      BY <1>2, <3>1, TakeUpStep, DatagramFacts, SMTT(30) DEF Peers
    <3> QED
      BY <1>2, <1>8, <3>1 DEF Lose
  <2> QED
    BY <1>5, <1>8, <2>1 DEF Lose, serverVars, clientVars, ReadCount
<1>9. CASE Duplicate
  <2>1. up'[c]["aced"] <= up[c]["aced"] + 1 /\ faults'["dup"] >= faults["dup"] + 1
    <3>1. up'[c]["aced"] \in {up[c]["aced"], up[c]["aced"] + 1}
      BY <1>2, <1>9, DuplicateStep, DatagramFacts
    <3> QED
      BY <1>2, <1>9, <3>1, DuplicateStep
  <2>2. /\ confirmed'[c] = confirmed[c] /\ cPc'[c] = cPc[c]
        /\ ReadCount(c)' = ReadCount(c)
    BY <1>9 DEF Duplicate, serverVars, clientVars, ReadCount
  <2>3. confirmed[c] + up[c]["aced"] <= ReadCount(c) + faults["dup"]
    BY DEF Covered
  <2>4. cPc[c] = "ack" => confirmed[c] + up[c]["aced"] < ReadCount(c) + faults["dup"]
    BY DEF Covered
  <2>5. faults'["dup"] \in Nat /\ up'[c]["aced"] \in Nat /\ ReadCount(c) \in Nat
    BY <1>2, <1>3
  <2>6. confirmed[c] + up'[c]["aced"] <= ReadCount(c) + faults'["dup"]
    BY <1>2, <2>1, <2>3, <2>5
  <2>7. cPc[c] = "ack" => confirmed[c] + up'[c]["aced"] < ReadCount(c) + faults'["dup"]
    BY <1>2, <2>1, <2>4, <2>5
  <2> QED
    BY <2>2, <2>6, <2>7 DEF Covered
<1>10. ASSUME NEW p \in Strangers, Stray(p) PROVE Covered(c)'
  <2>1. up'[c]["aced"] = up[c]["aced"]
    BY <1>2, <1>10, SendUpStep, DatagramFacts DEF Stray, Peers
  <2> QED
    BY <1>2, <1>5, <1>10, <2>1 DEF Stray, serverVars, clientVars, ReadCount
<1>11. CASE UNCHANGED vars
  BY <1>2, <1>5, <1>11 DEF vars, serverVars, clientVars, netVars, ReadCount
<1> QED
  BY <1>6, <1>7, <1>8, <1>9, <1>10, <1>11 DEF Next, Network, Stopped

\* The server never counts more acks of a client than the client has read
\* datagrams, but for the copies the network made.
THEOREM ConfirmationIsPaid == Spec => []ConfirmedWereRead
<1> DEFINE Inv == TypeOK /\ \A c \in Clients : Covered(c)
<1>1. Init => Inv
  <2> SUFFICES ASSUME Init, NEW c \in Clients PROVE Covered(c)
    BY InitTypeOK
  <2>1. confirmed[c] = 0 /\ up[c]["aced"] = 0 /\ cPc[c] = "start"
    BY DatagramFacts DEF Init, Peers
  <2>2. Len(got[c]) \in Nat /\ faults["dup"] \in Nat
    BY InitTypeOK, CoveredNumbers
  <2> QED
    BY <2>1, <2>2 DEF Covered, ReadCount
<1>2. Inv /\ [Next]_vars => Inv'
  BY TypeStep, CoveredStep
<1>3. Inv => ConfirmedWereRead
  <2> SUFFICES ASSUME Inv, NEW c \in Clients
               PROVE  confirmed[c] <= Len(got[c]) + faults["dup"]
    BY DEF ConfirmedWereRead
  <2> QED
    BY CoveredNumbers DEF Covered, ReadCount
<1> QED
  BY <1>1, <1>2, <1>3, PTL DEF Spec

-----------------------------------------------------------------------------
(* One handshake is answered *)

\* Before Accept has replied, no client has been sent or has acked anything.
Unanswered(c) ==
  /\ \A k \in Datagrams : down[c][k] = 0
  /\ cPc[c] # "ack" /\ up[c]["aced"] = 0 /\ ~Connected(c)

\* The reply to c's handshake is on its way, or has ended c's Connect.
Replied(c) == down[c][Ack] > 0 \/ Connected(c)

Accepting == sPc \in {"start", "accept", "reply"}
NoneAnswered == Accepting => \A c \in Clients : Unanswered(c)
OnlyHandshakes == \A c \in Clients : up[c]["other"] = 0
ReplyToHandshake == sPc = "reply" /\ sPeer \in Clients => sAccepted
OneReply == \A c \in Clients : Replied(c) => sAccepted /\ \A d \in Clients : Replied(d) => d = c

HandshakeInv == NoneAnswered /\ OnlyHandshakes /\ ReplyToHandshake /\ OneReply

\* Once Accept is over, a step that sends no reply, accepts nothing and ends no
\* Connect without a reply keeps the invariant.
LEMMA HandshakeFrame ==
  ASSUME HandshakeInv, ~Accepting, ~Accepting', sAccepted' = sAccepted,
         \A c \in Clients : Replied(c)' => Replied(c),
         \A c \in Clients : up'[c]["other"] = 0
  PROVE  HandshakeInv'
<1>1. NoneAnswered' /\ ReplyToHandshake'
  BY DEF NoneAnswered, ReplyToHandshake, Accepting
<1>2. OnlyHandshakes'
  BY DEF OnlyHandshakes
<1>3. OneReply'
  BY DEF HandshakeInv, OneReply
<1> QED
  BY <1>1, <1>2, <1>3 DEF HandshakeInv

\* While Accept goes on, no reply is sent.
LEMMA AcceptingFrame ==
  ASSUME HandshakeInv, Accepting, ReplyToHandshake',
         \A c \in Clients : Unanswered(c)',
         \A c \in Clients : up'[c]["other"] = 0
  PROVE  HandshakeInv'
<1>1. NoneAnswered'
  BY DEF NoneAnswered
<1>2. OnlyHandshakes'
  BY DEF OnlyHandshakes
<1>3. Ack \in Datagrams
  BY DatagramFacts
<1>4. \A c \in Clients : ~Replied(c)'
  BY <1>3 DEF Unanswered, Replied
<1>5. OneReply'
  BY <1>4 DEF OneReply
<1> QED
  BY <1>1, <1>2, <1>5 DEF HandshakeInv

LEMMA ServerHandshakeStep ==
  ASSUME TypeOK, HandshakeInv, Server
  PROVE  HandshakeInv'
<1>1. /\ Clients \subseteq Peers
      /\ \A c \in Clients : up[c]["other"] = 0
      /\ Accepting => \A c \in Clients : Unanswered(c)
  BY DEF Peers, HandshakeInv, OnlyHandshakes, NoneAnswered
<1>2. CASE Bind \/ AcceptError
  <2>1. UNCHANGED <<cPc, cTimeo, up, down>> /\ Accepting /\ sPc' # "reply"
    BY <1>2 DEF Bind, AcceptError, Accepting, clientVars, netVars
  <2>2. \A c \in Clients : Unanswered(c)'
    BY <1>1, <2>1 DEF Unanswered, Connected
  <2>3. ReplyToHandshake'
    BY <2>1 DEF ReplyToHandshake
  <2> QED
    BY <1>1, <2>1, <2>2, <2>3, AcceptingFrame
<1>3. ASSUME NEW p \in Peers, NEW w \in Words, AcceptReceive(p, w)
      PROVE  HandshakeInv'
  <2>1. UNCHANGED <<cPc, cTimeo, down>> /\ Accepting
    BY <1>3 DEF AcceptReceive, Accepting, clientVars
  <2>2. up[p][w] > 0 /\ \A c \in Clients : up'[c]["aced"] \in {up[c]["aced"], up[c]["aced"] - 1}
                                      /\ (up[c]["aced"] = 0 => up'[c]["aced"] = 0)
                                      /\ (up[c]["other"] = 0 => up'[c]["other"] = 0)
    BY <1>1, <1>3, TakeUpStep, DatagramFacts DEF AcceptReceive
  <2>3. \A c \in Clients : Unanswered(c)'
    BY <1>1, <2>1, <2>2 DEF Unanswered, Connected
  <2>4. p \in Clients => w = "deadbeef"
    BY <1>1, <2>1, <2>2 DEF Words, Unanswered
  <2>5. ReplyToHandshake'
    BY <1>3, <2>4 DEF AcceptReceive, ReplyToHandshake
  <2> QED
    BY <1>1, <2>1, <2>2, <2>3, <2>5, AcceptingFrame
<1>4. CASE AcceptReply
  <2>1. /\ UNCHANGED <<cPc, cTimeo, up>> /\ Accepting /\ ~Accepting'
        /\ sPeer \in Peers \cup {NoPeer}
    BY <1>4 DEF AcceptReply, Accepting, clientVars, TypeOK, ServerTypeOK
  <2>2. \A c \in Clients : ~Replied(c)
    BY <1>1, <2>1, DatagramFacts DEF Unanswered, Replied
  <2>3. \A c \in Clients : Replied(c)' => c = sPeer /\ sAccepted'
    <3>1. CASE SendDown(sPeer, Ack) /\ UNCHANGED sAccepted
      <4>1. \A c \in Clients : c # sPeer => down'[c][Ack] = down[c][Ack]
        BY <2>1, <3>1, SendDownStep, DatagramFacts
      <4>2. \A c \in Clients : Replied(c)' => c = sPeer
        BY <2>1, <2>2, <4>1 DEF Replied, Connected
      <4>3. sPeer \in Clients => sAccepted
        BY <1>4 DEF AcceptReply, HandshakeInv, ReplyToHandshake
      <4> QED
        BY <3>1, <4>2, <4>3
    <3>2. CASE UNCHANGED down
      BY <2>1, <2>2, <3>2 DEF Replied, Connected
    <3> QED
      BY <1>4, <3>1, <3>2 DEF AcceptReply
  <2>4. OneReply'
    BY <2>3 DEF OneReply
  <2>5. NoneAnswered' /\ ReplyToHandshake'
    BY <2>1 DEF NoneAnswered, ReplyToHandshake, Accepting
  <2>6. OnlyHandshakes'
    BY <1>1, <2>1 DEF OnlyHandshakes
  <2> QED
    BY <2>4, <2>5, <2>6 DEF HandshakeInv
<1>5. CASE \/ WriteBegin \/ WriteSend \/ WriteDrop \/ WriteFail
           \/ WriteTimeout \/ ServerClose
  <2>1. ~Accepting /\ ~Accepting' /\ sAccepted' = sAccepted /\ cTimeo' = cTimeo
    BY <1>5 DEF WriteBegin, WriteSend, WriteDrop, WriteFail, WriteTimeout, Retry, ServerClose,
       Accepting, clientVars
  <2>2. \A c \in Clients : down'[c][Ack] = down[c][Ack]
    <3>1. CASE WriteSend
      <4>1. /\ SendDown(sPeer, writes) /\ sPeer \in Peers \cup {NoPeer}
            /\ writes \in Datagrams /\ writes # Ack
        BY <3>1, DatagramFacts DEF WriteSend, TypeOK, ServerTypeOK, Ack
      <4> QED
        BY <4>1, SendDownStep, DatagramFacts
    <3>2. CASE ~WriteSend
      BY <1>5, <3>2 DEF WriteBegin, WriteDrop, WriteFail, WriteTimeout, ServerClose, netVars
    <3> QED
      BY <3>1, <3>2
  <2>3. \A c \in Clients : up'[c]["other"] = 0
    BY <1>1, <1>5, DatagramFacts
       DEF WriteBegin, WriteSend, WriteDrop, WriteFail, WriteTimeout, ServerClose, netVars
  <2>4. \A c \in Clients : Replied(c)' => Replied(c)
    BY <2>1, <2>2 DEF Replied, Connected
  <2> QED
    BY <2>1, <2>3, <2>4, HandshakeFrame
<1>6. ASSUME NEW p \in Peers, NEW w \in Words, WriteReceive(p, w)
      PROVE  HandshakeInv'
  <2>1. ~Accepting /\ ~Accepting' /\ sAccepted' = sAccepted /\ UNCHANGED <<cTimeo, down>>
    BY <1>6 DEF WriteReceive, Accepting, clientVars
  <2>2. \A c \in Clients : up'[c]["other"] = 0
    <3> SUFFICES ASSUME NEW c \in Clients PROVE up'[c]["other"] = 0
      OBVIOUS
    <3>1. up[c]["other"] = 0 => up'[c]["other"] = 0
      BY <1>1, <1>6, TakeUpStep, DatagramFacts DEF WriteReceive
    <3> QED
      BY <1>1, <3>1
  <2>3. \A c \in Clients : Replied(c)' => Replied(c)
    BY <2>1 DEF Replied, Connected
  <2> QED
    BY <2>1, <2>2, <2>3, HandshakeFrame
<1> QED
  BY <1>2, <1>3, <1>4, <1>5, <1>6 DEF Server, ServerReceive

LEMMA ClientHandshakeStep ==
  ASSUME TypeOK, HandshakeInv, NEW d \in Clients, Client(d)
  PROVE  HandshakeInv'
<1>1. /\ Clients \subseteq Peers
      /\ \A c \in Clients : up[c]["other"] = 0
      /\ Accepting => \A c \in Clients : Unanswered(c)
  BY DEF Peers, HandshakeInv, OnlyHandshakes, NoneAnswered
<1>2. UNCHANGED <<sPc, sPeer, sAccepted>>
  BY DEF Client, ClientReceive, ConnectSetup, ConnectSend, ConnectDrop, ConnectFail,
     ConnectReceive, ConnectTimeout, ReadRefused, ReadReceive, ReadAck, ReadTimeout,
     ClientClose, serverVars
<1>3. ReplyToHandshake' /\ Accepting' = Accepting
  BY <1>2 DEF HandshakeInv, ReplyToHandshake, Accepting
<1>4. \A c \in Clients : up'[c]["other"] = 0
  <2>1. CASE SendUp(d, "deadbeef") \/ SendUp(d, "aced")
    BY <1>1, <2>1, SendUpStep, DatagramFacts
  <2>2. CASE UNCHANGED up
    BY <1>1, <2>2
  <2> QED
    BY <2>1, <2>2 DEF Client, ClientReceive, ConnectSetup, ConnectSend, ConnectDrop, ConnectFail,
       ConnectReceive, ConnectTimeout, ReadRefused, ReadReceive, ReadAck, AckUp, ReadTimeout,
       ClientClose, netVars
<1>5. CASE \/ ConnectSetup(d) \/ ConnectSend(d) \/ ConnectDrop(d) \/ ConnectFail(d)
           \/ ConnectTimeout(d) \/ ReadRefused(d) \/ ReadTimeout(d) \/ ClientClose(d)
  <2>1. \A c \in Clients, k \in Datagrams : down'[c][k] = down[c][k] \/ down'[c][k] = 0
    BY <1>5 DEF ConnectSetup, ConnectSend, ConnectDrop, ConnectFail, ConnectTimeout,
       ReadRefused, ReadTimeout, ClientClose, netVars, TypeOK, NetTypeOK
  <2>2. \A c \in Clients :
          (Connected(c)' => Connected(c)) /\ (cPc'[c] = "ack" => cPc[c] = "ack")
    BY <1>5 DEF ConnectSetup, ConnectSend, ConnectDrop, ConnectFail, ConnectTimeout,
       ReadRefused, ReadTimeout, ClientClose, Connected, TypeOK, ClientTypeOK
  <2>3. \A c \in Clients : up'[c]["aced"] = up[c]["aced"]
    <3>1. CASE ConnectSend(d)
      BY <1>1, <3>1, SendUpStep, DatagramFacts DEF ConnectSend
    <3>2. CASE ~ConnectSend(d)
      BY <1>5, <3>2 DEF ConnectSetup, ConnectDrop, ConnectFail, ConnectTimeout,
         ReadRefused, ReadTimeout, ClientClose, netVars
    <3> QED
      BY <3>1, <3>2
  <2>4. CASE Accepting
    <3>1. ASSUME NEW c \in Clients PROVE Unanswered(c)'
      <4>1. Unanswered(c)
        BY <1>1, <2>4
      <4>2. \A k \in Datagrams : down'[c][k] = 0
        BY <2>1, <4>1 DEF Unanswered
      <4> QED
        BY <2>2, <2>3, <4>1, <4>2 DEF Unanswered
    <3> QED
      BY <1>3, <1>4, <2>4, <3>1, AcceptingFrame
  <2>5. CASE ~Accepting
    <3>1. ASSUME NEW c \in Clients, Replied(c)' PROVE Replied(c)
      <4>1. down'[c][Ack] = down[c][Ack] \/ down'[c][Ack] = 0
        BY <2>1, DatagramFacts
      <4> QED
        BY <2>2, <3>1, <4>1 DEF Replied, Connected
    <3> QED
      BY <1>2, <1>3, <1>4, <2>5, <3>1, HandshakeFrame
  <2> QED
    BY <2>4, <2>5
<1>6. ASSUME NEW k \in Datagrams, ConnectReceive(d, k) \/ ReadReceive(d, k)
      PROVE  HandshakeInv'
  <2>1. /\ down[d][k] > 0 /\ down'[d][k] = down[d][k] - 1
        /\ \A c \in Clients, j \in Datagrams : <<c, j>> # <<d, k>> => down'[c][j] = down[c][j]
    BY <1>6, TakeDownStep DEF ConnectReceive, ReadReceive
  <2>2. ~Accepting
    BY <1>1, <2>1 DEF Unanswered
  <2>3. \A c \in Clients : Connected(c)' => Connected(c) \/ (c = d /\ k = Ack)
    BY <1>6 DEF ConnectReceive, ReadReceive, EndsConnect, Connected, TypeOK, ClientTypeOK
  <2>4. \A c \in Clients : Replied(c)' => Replied(c)
    <3> SUFFICES ASSUME NEW c \in Clients, Replied(c)' PROVE Replied(c)
      OBVIOUS
    <3>1. CASE c = d /\ k = Ack
      BY <2>1, <3>1 DEF Replied
    <3>2. CASE ~(c = d /\ k = Ack)
      BY <2>1, <2>3, <3>2, DatagramFacts DEF Replied
    <3> QED
      BY <3>1, <3>2
  <2> QED
    BY <1>2, <1>3, <1>4, <2>2, <2>4, HandshakeFrame
<1>7. CASE ReadAck(d)
  <2>1. ~Accepting
    BY <1>1, <1>7 DEF Unanswered, ReadAck
  <2>2. UNCHANGED <<cTimeo, down>>
    BY <1>7 DEF ReadAck
  <2>3. \A c \in Clients : Replied(c)' => Replied(c)
    BY <2>2 DEF Replied, Connected
  <2> QED
    BY <1>2, <1>3, <1>4, <2>1, <2>3, HandshakeFrame
<1> QED
  BY <1>5, <1>6, <1>7 DEF Client, ClientReceive

LEMMA NetworkHandshakeStep ==
  ASSUME TypeOK, HandshakeInv, Network
  PROVE  HandshakeInv'
<1>1. /\ Clients \subseteq Peers
      /\ \A c \in Clients : up[c]["other"] = 0
      /\ Accepting => \A c \in Clients : Unanswered(c)
  BY DEF Peers, HandshakeInv, OnlyHandshakes, NoneAnswered
<1>2. UNCHANGED <<sPc, sPeer, sAccepted, cPc, cTimeo>>
  BY DEF Network, Lose, Duplicate, Stray, serverVars, clientVars
<1>3. ReplyToHandshake' /\ Accepting' = Accepting
  BY <1>2 DEF HandshakeInv, ReplyToHandshake, Accepting
<1>4. /\ \A c \in Clients : (up[c]["other"] = 0 => up'[c]["other"] = 0)
                           /\ (up[c]["aced"] = 0 => up'[c]["aced"] = 0)
      /\ \A c \in Clients, k \in Datagrams : down[c][k] = 0 => down'[c][k] = 0
  <2>1. CASE \E c \in Clients, w \in Words : TakeUp(c, w) /\ UNCHANGED down
    BY <1>1, <2>1, TakeUpStep, DatagramFacts
  <2>2. CASE \E c \in Clients, k \in Datagrams : TakeDown(c, k) /\ UNCHANGED up
    BY <2>2, TakeDownStep
  <2>3. CASE Duplicate
    BY <1>1, <2>3, DuplicateStep, DatagramFacts
  <2>4. ASSUME NEW p \in Strangers, Stray(p)
        PROVE  /\ \A c \in Clients : (up[c]["other"] = 0 => up'[c]["other"] = 0)
                                    /\ (up[c]["aced"] = 0 => up'[c]["aced"] = 0)
               /\ \A c \in Clients, k \in Datagrams : down[c][k] = 0 => down'[c][k] = 0
    <3>1. p \in Peers /\ p \notin Clients
      BY ClientsAssumption DEF Peers
    <3>2. \A c \in Clients : up'[c]["other"] = up[c]["other"] /\ up'[c]["aced"] = up[c]["aced"]
      BY <1>1, <2>4, <3>1, SendUpStep, DatagramFacts DEF Stray
    <3> QED
      BY <2>4, <3>2 DEF Stray
  <2> QED
    BY <2>1, <2>2, <2>3, <2>4, DatagramFacts DEF Network, Lose
<1>5. \A c \in Clients : up'[c]["other"] = 0
  BY <1>1, <1>4
<1>6. CASE Accepting
  <2>1. ASSUME NEW c \in Clients PROVE Unanswered(c)'
    BY <1>1, <1>2, <1>4, <1>6 DEF Unanswered, Connected
  <2> QED
    BY <1>3, <1>5, <1>6, <2>1, AcceptingFrame
<1>7. CASE ~Accepting
  <2>1. down \in [Clients -> [Datagrams -> Nat]] /\ Ack \in Datagrams
    BY DatagramFacts DEF TypeOK, NetTypeOK
  <2>2. ASSUME NEW c \in Clients, Replied(c)' PROVE Replied(c)
    <3>1. down[c][Ack] \in Nat /\ (down[c][Ack] = 0 => down'[c][Ack] = 0)
      BY <1>4, <2>1
    <3> QED
      BY <1>2, <2>2, <3>1 DEF Replied, Connected
  <2> QED
    BY <1>2, <1>3, <1>5, <1>7, <2>2, HandshakeFrame
<1> QED
  BY <1>6, <1>7

LEMMA HandshakeStep == TypeOK /\ HandshakeInv /\ [Next]_vars => HandshakeInv'
<1> SUFFICES ASSUME TypeOK, HandshakeInv, [Next]_vars PROVE HandshakeInv'
  OBVIOUS
<1>1. CASE UNCHANGED vars
  BY <1>1 DEF vars, serverVars, clientVars, netVars, HandshakeInv, NoneAnswered, OnlyHandshakes,
     ReplyToHandshake, OneReply, Accepting, Unanswered, Replied, Connected
<1> QED
  BY <1>1, ServerHandshakeStep, ClientHandshakeStep, NetworkHandshakeStep DEF Next, Stopped

LEMMA InitHandshake == Init => HandshakeInv
<1> SUFFICES ASSUME Init PROVE HandshakeInv
  OBVIOUS
<1>1. \A c \in Clients : Unanswered(c) /\ up[c]["other"] = 0
  BY DatagramFacts DEF Init, Unanswered, Connected, Peers
<1>2. ASSUME NEW c \in Clients PROVE ~Replied(c)
  <2>1. down[c][Ack] = 0
    BY <1>1, DatagramFacts DEF Unanswered
  <2>2. ~Connected(c)
    BY <1>1 DEF Unanswered
  <2> QED
    BY <2>1, <2>2 DEF Replied, Ack
<1> QED
  BY <1>1, <1>2 DEF Init, HandshakeInv, NoneAnswered, OnlyHandshakes, ReplyToHandshake, OneReply

\* At most one client ever gets past Connect's handshake, and only if Accept
\* took a handshake: for any number of clients and strangers that compete for
\* the port, retransmissions, losses and copies.
THEOREM OneClientIsServed == Spec => []OneClientConnects
<1> DEFINE Inv == TypeOK /\ HandshakeInv
<1>1. Init => Inv
  BY InitTypeOK, InitHandshake
<1>2. Inv /\ [Next]_vars => Inv'
  BY TypeStep, HandshakeStep
<1>3. Inv => OneClientConnects
  BY DEF HandshakeInv, OneReply, Replied, OneClientConnects
<1> QED
  BY <1>1, <1>2, <1>3, PTL DEF Spec

-----------------------------------------------------------------------------
(* The reply is not read as data *)

\* Before its Connect has ended a client has read nothing.
Fresh(c) == cPc[c] \in {"start", "send", "wait"} => got[c] = <<>> /\ ~Connected(c)

\* A client is sent one reply; once Connect has taken it there is none to read.
NoAckRead(c) == \A j \in 1 .. Len(got[c]) : got[c][j] # Ack
SingleReply(c) ==
  faults["dup"] = 0 =>
    down[c][Ack] <= 1 /\ (Connected(c) => down[c][Ack] = 0 /\ NoAckRead(c))

LEMMA SingleReplyStep ==
  ASSUME TypeOK, HandshakeInv, [Next]_vars, NEW c \in Clients, Fresh(c), SingleReply(c)
  PROVE  Fresh(c)' /\ SingleReply(c)'
<1>1. /\ TypeOK' /\ faults'["dup"] \in Nat /\ faults["dup"] \in Nat
      /\ down[c][Ack] \in Nat /\ down'[c][Ack] \in Nat
  BY TypeStep, DatagramFacts DEF TypeOK, NetTypeOK, Faults
<1>2. faults'["dup"] = 0 => faults["dup"] = 0
  BY <1>1, FaultsGrow DEF Faults
<1>3. ASSUME cPc'[c] = cPc[c], got'[c] = got[c], cTimeo'[c] = cTimeo[c],
             down'[c][Ack] <= down[c][Ack]
      PROVE  Fresh(c)' /\ SingleReply(c)'
  <2>1. Fresh(c)'
    BY <1>3 DEF Fresh, Connected
  <2>2. NoAckRead(c)' = NoAckRead(c)
    BY <1>3 DEF NoAckRead
  <2>3. SingleReply(c)'
    BY <1>1, <1>2, <1>3, <2>2 DEF SingleReply, Connected
  <2> QED
    BY <2>1, <2>3
<1>4. CASE AcceptReply
  <2>1. Unanswered(c) /\ sPeer \in Peers \cup {NoPeer}
    BY <1>4 DEF AcceptReply, HandshakeInv, NoneAnswered, Accepting, TypeOK, ServerTypeOK
  <2>2. UNCHANGED <<cPc, got, cTimeo>>
    BY <1>4 DEF AcceptReply, clientVars
  <2>3. down'[c][Ack] \in {down[c][Ack], down[c][Ack] + 1}
    BY <1>4, <2>1, SendDownStep, DatagramFacts DEF AcceptReply
  <2>4. down'[c][Ack] <= 1 /\ ~Connected(c)'
    BY <2>1, <2>2, <2>3, DatagramFacts DEF Unanswered, Connected
  <2> QED
    BY <2>2, <2>4 DEF Fresh, SingleReply, Connected
<1>5. CASE Server /\ ~AcceptReply
  <2>1. UNCHANGED <<cPc, got, cTimeo>>
    BY <1>5 DEF Server, ServerReceive, Bind, AcceptReceive, AcceptError, WriteBegin,
       WriteSend, WriteDrop, WriteFail, WriteReceive, WriteTimeout, ServerClose, clientVars
  <2>2. CASE WriteSend
    <3>1. /\ SendDown(sPeer, writes) /\ sPeer \in Peers \cup {NoPeer}
          /\ writes \in Datagrams /\ writes # Ack
      BY <2>2, DatagramFacts DEF WriteSend, TypeOK, ServerTypeOK, Ack
    <3>2. down'[c][Ack] = down[c][Ack]
      BY <3>1, SendDownStep, DatagramFacts
    <3> QED
      BY <1>1, <1>3, <2>1, <3>2
  <2>3. CASE ~WriteSend
    <3>1. down' = down
      BY <1>5, <2>3 DEF Server, ServerReceive, Bind, AcceptReceive, AcceptError, WriteBegin,
         WriteDrop, WriteFail, WriteReceive, WriteTimeout, ServerClose, netVars
    <3> QED
      BY <1>1, <1>3, <2>1, <3>1
  <2> QED
    BY <2>2, <2>3
<1>6. ASSUME NEW d \in Clients, Client(d), d # c PROVE Fresh(c)' /\ SingleReply(c)'
  <2>1. cPc'[c] = cPc[c] /\ got'[c] = got[c] /\ cTimeo'[c] = cTimeo[c]
    BY <1>6 DEF Client, ClientReceive, ConnectSetup, ConnectSend, ConnectDrop, ConnectFail,
       ConnectReceive, ConnectTimeout, ReadRefused, ReadReceive, ReadAck, ReadTimeout,
       ClientClose, TypeOK, ClientTypeOK
  <2>2. down'[c][Ack] = down[c][Ack]
    <3>1. CASE \E k \in Datagrams : TakeDown(d, k)
      BY <1>6, <3>1, TakeDownStep, DatagramFacts
    <3>2. CASE ClientClose(d)
      BY <1>6, <3>2, DatagramFacts DEF ClientClose, TypeOK, NetTypeOK
    <3>3. CASE UNCHANGED down
      BY <3>3
    <3> QED
      BY <1>6, <3>1, <3>2, <3>3 DEF Client, ClientReceive, ConnectSetup, ConnectSend,
         ConnectDrop, ConnectFail, ConnectReceive, ConnectTimeout, ReadRefused, ReadReceive,
         ReadAck, ReadTimeout, netVars
  <2> QED
    BY <1>1, <1>3, <2>1, <2>2
<1>7. CASE Client(c)
  <2>1. CASE \/ ConnectSetup(c) \/ ConnectSend(c) \/ ConnectDrop(c) \/ ConnectTimeout(c)
    <3>1. /\ cPc[c] \in {"start", "send", "wait"} /\ got' = got /\ down' = down
          /\ cTimeo'[c] \in {cTimeo[c], "short"}
      BY <2>1 DEF ConnectSetup, ConnectSend, ConnectDrop, ConnectTimeout, netVars, TypeOK, ClientTypeOK
    <3>2. got'[c] = <<>> /\ ~Connected(c)'
      BY <3>1 DEF Fresh, Connected
    <3> QED
      BY <1>2, <3>1, <3>2 DEF Fresh, SingleReply
  <2>2. CASE ConnectFail(c)
    <3>1. /\ cPc[c] = "send" /\ UNCHANGED <<got, down, cTimeo>> /\ cPc'[c] = "read"
      BY <2>2 DEF ConnectFail, netVars, TypeOK, ClientTypeOK
    <3> QED
      BY <1>2, <3>1 DEF Fresh, SingleReply, Connected
  <2>3. ASSUME NEW k \in Datagrams, ConnectReceive(c, k) PROVE Fresh(c)' /\ SingleReply(c)'
    <3>1. cPc[c] = "wait" /\ got' = got /\ got[c] = <<>> /\ ~Connected(c)
      BY <2>3 DEF ConnectReceive, Fresh
    <3>2. CASE k = Ack
      <4>1. cPc'[c] = "read" /\ down'[c][Ack] = down[c][Ack] - 1
        BY <2>3, <3>2, TakeDownStep DEF ConnectReceive, EndsConnect, TypeOK, ClientTypeOK
      <4>2. NoAckRead(c)'
        BY <3>1 DEF NoAckRead
      <4>3. faults'["dup"] = 0 => down'[c][Ack] = 0
        BY <1>1, <1>2, <4>1 DEF SingleReply
      <4>4. down'[c][Ack] = 0 => down'[c][Ack] <= 1
        OBVIOUS
      <4> QED
        BY <4>1, <4>2, <4>3, <4>4 DEF Fresh, SingleReply
    <3>3. CASE k # Ack
      <4>1. cPc'[c] = "send" /\ cTimeo' = cTimeo /\ down'[c][Ack] = down[c][Ack]
        BY <2>3, <3>3, TakeDownStep, DatagramFacts
           DEF ConnectReceive, EndsConnect, TypeOK, ClientTypeOK
      <4> QED
        BY <1>2, <3>1, <4>1 DEF Fresh, SingleReply, Connected
    <3> QED
      BY <3>2, <3>3
  <2>4. CASE ReadRefused(c) \/ ReadAck(c) \/ ReadTimeout(c) \/ ClientClose(c)
    <3>1. /\ cPc'[c] \notin {"start", "send", "wait"} /\ UNCHANGED <<got, cTimeo>>
          /\ down'[c][Ack] = down[c][Ack] \/ down'[c][Ack] = 0
      BY <2>4, DatagramFacts DEF ReadRefused, ReadAck, ReadTimeout, ClientClose, netVars,
         TypeOK, ClientTypeOK, NetTypeOK
    <3>2. NoAckRead(c)' = NoAckRead(c)
      BY <3>1 DEF NoAckRead
    <3> QED
      BY <1>1, <1>2, <3>1, <3>2 DEF Fresh, SingleReply, Connected
  <2>5. ASSUME NEW k \in Datagrams, ReadReceive(c, k) PROVE Fresh(c)' /\ SingleReply(c)'
    <3>1. /\ cPc'[c] = "ack" /\ cTimeo' = cTimeo /\ got[c] \in Seq(Datagrams)
          /\ got'[c] = Append(got[c], k)
      BY <2>5 DEF ReadReceive, TypeOK, ClientTypeOK
    <3>2. /\ down[c][k] > 0 /\ down'[c][Ack] <= down[c][Ack]
      <4>1. /\ down[c][k] > 0 /\ down'[c][k] = down[c][k] - 1
            /\ k # Ack => down'[c][Ack] = down[c][Ack]
        BY <2>5, TakeDownStep, DatagramFacts DEF ReadReceive
      <4> QED
        BY <1>1, <4>1
    <3>3. Connected(c) /\ faults["dup"] = 0 => NoAckRead(c)'
      <4>1. SUFFICES ASSUME k # Ack, NoAckRead(c) PROVE NoAckRead(c)'
        BY <3>2 DEF SingleReply
      <4> QED
        BY <3>1, <4>1 DEF NoAckRead
    <3> QED
      BY <1>1, <1>2, <3>1, <3>2, <3>3 DEF Fresh, SingleReply, Connected
  <2> QED
    BY <1>7, <2>1, <2>2, <2>3, <2>4, <2>5 DEF Client, ClientReceive
<1>8. CASE Duplicate
  <2>1. faults'["dup"] # 0 /\ UNCHANGED <<cPc, got, cTimeo>>
    BY <1>1, <1>8, DuplicateStep DEF Duplicate, clientVars
  <2> QED
    BY <2>1 DEF Fresh, SingleReply, Connected
<1>9. CASE Lose \/ \E p \in Strangers : Stray(p)
  <2>1. UNCHANGED <<cPc, got, cTimeo>>
    BY <1>9 DEF Lose, Stray, clientVars
  <2>2. down'[c][Ack] <= down[c][Ack]
    <3>1. CASE \E d \in Clients, k \in Datagrams : TakeDown(d, k)
      BY <1>1, <3>1, TakeDownStep, DatagramFacts
    <3> QED
      BY <1>1, <1>9, <3>1, DatagramFacts DEF Lose, Stray
  <2> QED
    BY <1>3, <2>1, <2>2
<1>10. CASE UNCHANGED vars
  BY <1>1, <1>3, <1>10 DEF vars, clientVars, netVars
<1> QED
  BY <1>4, <1>5, <1>6, <1>7, <1>8, <1>9, <1>10 DEF Next, Network, Stopped

\* A connected client's ReadData never takes the reply to its handshake for a
\* packet, unless the network copies datagrams.
THEOREM ReadsAreDataAlways == Spec => []ReadsAreData
<1> DEFINE Inv == TypeOK /\ HandshakeInv /\ \A c \in Clients : Fresh(c) /\ SingleReply(c)
<1>1. Init => Inv
  <2> SUFFICES ASSUME Init, NEW c \in Clients PROVE Fresh(c) /\ SingleReply(c)
    BY InitTypeOK, InitHandshake
  <2>1. got[c] = <<>> /\ ~Connected(c) /\ down[c][Ack] = 0
    BY DatagramFacts DEF Init, Connected
  <2>2. down[c][Ack] <= 1
    BY <2>1
  <2> QED
    BY <2>1, <2>2 DEF Fresh, SingleReply
<1>2. Inv /\ [Next]_vars => Inv'
  BY TypeStep, HandshakeStep, SingleReplyStep
<1>3. Inv => ReadsAreData
  BY DEF SingleReply, NoAckRead, ReadsAreData
<1> QED
  BY <1>1, <1>2, <1>3, PTL DEF Spec

-----------------------------------------------------------------------------
(* The server does not run ahead of its only client *)

\* With one client: nobody else acks, every packet in flight is that of a call
\* that was made in an accepted session, and each call but the one under way has
\* returned on an ack or on a sendto that failed.
Busy == IF sPc \in {"send", "wait"} THEN 1 ELSE 0
InSession ==
  /\ Accepting => writes = 0
  /\ sPc \in {"send", "wait"} => sAccepted
  /\ sPc = "start" => ~sAccepted
  /\ sPc = "done" /\ sAccepted => writes = Calls
SilentStrangers == \A p \in Strangers : up[p]["aced"] = 0
PacketsBegun(c) == \A k \in Packets : down[c][k] > 0 => sAccepted /\ k <= writes
CallsPaid(c) == sAccepted => writes <= confirmed[c] + faults["send"] + Busy
ReadsInOrder(c) ==
  \A j \in 1 .. Len(got[c]) : got[c][j] <= j + faults["dup"] + faults["send"]
AheadInv(c) ==
  InSession /\ SilentStrangers /\ PacketsBegun(c) /\ CallsPaid(c) /\ ReadsInOrder(c)

\* The numbers AheadInv compares.
LEMMA AheadNumbers ==
  ASSUME TypeOK, NEW c \in Clients
  PROVE  /\ writes \in Nat /\ Busy \in {0, 1} /\ faults["send"] \in Nat
         /\ confirmed[c] \in Nat /\ faults["dup"] \in Nat
         /\ got[c] \in Seq(Datagrams) /\ Len(got[c]) \in Nat
         /\ \A k \in Datagrams : k \in Nat /\ down[c][k] \in Nat
         /\ \A j \in 1 .. Len(got[c]) : got[c][j] \in Nat
<1>1. got[c] \in Seq(Datagrams)
  BY DEF TypeOK, ClientTypeOK
<1>2. "send" \in Faults /\ \A k \in Datagrams : k \in Nat
  BY DatagramFacts DEF Faults
<1>3. \A j \in 1 .. Len(got[c]) : got[c][j] \in Nat
  BY <1>1, <1>2
<1> QED
  BY <1>1, <1>2, <1>3, CoveredNumbers, DatagramFacts DEF TypeOK, ServerTypeOK, NetTypeOK, Busy

\* The bounds of the datagrams that were read only grow.
LEMMA ReadsInOrderFrame ==
  ASSUME TypeOK, [Next]_vars, NEW c \in Clients, ReadsInOrder(c), got'[c] = got[c]
  PROVE  ReadsInOrder(c)'
<1>1. TypeOK' /\ "send" \in Faults /\ "dup" \in Faults
  BY TypeStep DEF Faults
<1>2. /\ faults'["send"] \in Nat /\ faults'["dup"] \in Nat
      /\ faults'["send"] >= faults["send"] /\ faults'["dup"] >= faults["dup"]
  BY <1>1, FaultsGrow DEF TypeOK, NetTypeOK
<1>3. SUFFICES ASSUME NEW j \in 1 .. Len(got[c])
               PROVE  got[c][j] <= j + faults'["dup"] + faults'["send"]
  BY DEF ReadsInOrder
<1>4. got[c][j] <= j + faults["dup"] + faults["send"]
  BY DEF ReadsInOrder
<1>5. got[c][j] \in Nat /\ j \in Nat /\ faults["dup"] \in Nat /\ faults["send"] \in Nat
  BY AheadNumbers
<1>6. \A g, i, d, s, d1, s1 \in Nat :
        g <= i + d + s /\ d1 >= d /\ s1 >= s => g <= i + d1 + s1
  OBVIOUS
<1> QED
  BY <1>2, <1>4, <1>5, <1>6

\* A step that begins or ends no call, reads nothing and puts no packet on its
\* way keeps the invariant.
LEMMA AheadFrame ==
  ASSUME TypeOK, [Next]_vars, NEW c \in Clients, AheadInv(c),
         writes' = writes, sAccepted' = sAccepted, Busy' = Busy,
         confirmed'[c] = confirmed[c], got'[c] = got[c],
         \A k \in Packets : down'[c][k] > 0 => down[c][k] > 0,
         InSession', SilentStrangers'
  PROVE  AheadInv(c)'
<1>1. /\ faults'["send"] \in Nat /\ faults'["send"] >= faults["send"]
  BY TypeStep, FaultsGrow DEF TypeOK, NetTypeOK, Faults
<1>2. CallsPaid(c)'
  BY <1>1, AheadNumbers DEF AheadInv, CallsPaid
<1>3. PacketsBegun(c)'
  BY DEF AheadInv, PacketsBegun
<1>4. ReadsInOrder(c)'
  BY ReadsInOrderFrame DEF AheadInv
<1> QED
  BY <1>2, <1>3, <1>4 DEF AheadInv

\* Who is not a client never acks.
LEMMA StrangersStep ==
  ASSUME TypeOK, [Next]_vars, SilentStrangers
  PROVE  SilentStrangers'
<1> SUFFICES ASSUME NEW p \in Strangers PROVE up'[p]["aced"] = 0
  BY DEF SilentStrangers
<1>1. /\ p \in Peers /\ p \notin Clients /\ up[p]["aced"] = 0 /\ "aced" \in Words
  BY ClientsAssumption DEF SilentStrangers, Peers, Words
<1>2. \A q \in Peers, w \in Words : TakeUp(q, w) => up'[p]["aced"] = 0
  BY <1>1, TakeUpStep
<1>3. \A q \in Peers, w \in Words : SendUp(q, w) /\ <<q, w>> # <<p, "aced">> => up'[p]["aced"] = 0
  BY <1>1, SendUpStep
<1>4. CASE Server
  <2>1. CASE ServerClose
    BY <1>1, <2>1 DEF ServerClose
  <2>2. CASE UNCHANGED up
    BY <1>1, <2>2
  <2> QED
    BY <1>2, <1>4, <2>1, <2>2 DEF Server, ServerReceive, Bind, AcceptReceive, AcceptReply,
       AcceptError, WriteBegin, WriteSend, WriteDrop, WriteFail, WriteReceive, WriteTimeout,
       netVars
<1>5. ASSUME NEW d \in Clients, Client(d) PROVE up'[p]["aced"] = 0
  <2>1. \A w \in Words : SendUp(d, w) => up'[p]["aced"] = 0
    BY <1>1, <1>3 DEF Peers
  <2>2. UNCHANGED up \/ \E w \in Words : SendUp(d, w)
    BY <1>5, DatagramFacts DEF Client, ClientReceive, ConnectSetup, ConnectSend, ConnectDrop, ConnectFail,
       ConnectReceive, ConnectTimeout, ReadRefused, ReadReceive, ReadAck, AckUp, ReadTimeout,
       ClientClose, netVars
  <2> QED
    BY <1>1, <2>1, <2>2
<1>6. CASE Lose
  <2>1. UNCHANGED up \/ \E d \in Clients, w \in Words : TakeUp(d, w)
    BY <1>6, DatagramFacts DEF Lose
  <2> QED
    BY <1>1, <1>2, <2>1 DEF Peers
<1>7. CASE Duplicate
  BY <1>1, <1>7, DuplicateStep
<1>8. ASSUME NEW q \in Strangers, Stray(q) PROVE up'[p]["aced"] = 0
  BY <1>3, <1>8, DatagramFacts DEF Stray, Peers
<1>9. CASE UNCHANGED vars
  BY <1>1, <1>9 DEF vars, netVars
<1> QED
  BY <1>4, <1>5, <1>6, <1>7, <1>8, <1>9 DEF Next, Network, Stopped

\* The steps of the server.
LEMMA ServerAheadStep ==
  ASSUME TypeOK, [Next]_vars, NEW c \in Clients, Clients = {c}, AheadInv(c), Server
  PROVE  AheadInv(c)'
<1>1. /\ SilentStrangers' /\ got' = got
  BY StrangersStep DEF AheadInv, Server, ServerReceive, Bind, AcceptReceive, AcceptReply,
     AcceptError, WriteBegin, WriteSend, WriteDrop, WriteFail, WriteReceive, WriteTimeout,
     ServerClose, clientVars
<1>2. /\ ReadsInOrder(c)' /\ TypeOK'
  BY <1>1, ReadsInOrderFrame, TypeStep DEF AheadInv
<1>3. /\ faults'["send"] \in Nat /\ faults'["send"] >= faults["send"]
  BY <1>2, FaultsGrow DEF TypeOK, NetTypeOK, Faults
<1>4. /\ Ack \in Datagrams /\ \A k \in Packets : k # Ack /\ k \in Datagrams
  BY DatagramFacts DEF Packets, Ack
<1>5. CASE Bind \/ AcceptError
  <2>1. InSession' /\ Busy' = Busy
    BY <1>5 DEF Bind, AcceptError, AheadInv, InSession, Accepting, Busy
  <2> QED
    BY <1>1, <1>5, <2>1, AheadFrame DEF Bind, AcceptError, netVars
<1>6. ASSUME NEW p \in Peers, NEW w \in Words, AcceptReceive(p, w) PROVE AheadInv(c)'
  <2>1. writes = 0 /\ UNCHANGED <<writes, confirmed, down>> /\ sPc' = "reply"
    BY <1>6 DEF AcceptReceive, AheadInv, InSession, Accepting
  <2>2. \A k \in Packets : ~(down[c][k] > 0)
    BY <2>1 DEF AheadInv, PacketsBegun, Packets
  <2>3. InSession' /\ PacketsBegun(c)'
    BY <2>1, <2>2 DEF InSession, Accepting, PacketsBegun
  <2>4. CallsPaid(c)'
    BY <1>3, <2>1, AheadNumbers DEF CallsPaid, Busy
  <2> QED
    BY <1>1, <1>2, <2>3, <2>4 DEF AheadInv
<1>7. CASE AcceptReply
  <2>1. writes = 0 /\ UNCHANGED <<writes, confirmed>> /\ sPc' = "idle"
    BY <1>7 DEF AcceptReply, AheadInv, InSession, Accepting
  <2>2. \A k \in Packets : ~(down[c][k] > 0)
    BY <2>1 DEF AheadInv, PacketsBegun, Packets
  <2>3. \A k \in Packets : down'[c][k] = down[c][k]
    BY <1>4, <1>7, SendDownStep DEF AcceptReply, TypeOK, ServerTypeOK
  <2>4. InSession' /\ PacketsBegun(c)'
    BY <2>1, <2>2, <2>3 DEF InSession, Accepting, PacketsBegun
  <2>5. CallsPaid(c)'
    BY <1>3, <2>1, AheadNumbers DEF CallsPaid, Busy
  <2> QED
    BY <1>1, <1>2, <2>4, <2>5 DEF AheadInv
<1>8. CASE WriteBegin
  <2>1. /\ writes' = writes + 1 /\ UNCHANGED <<sAccepted, confirmed, down, faults>>
        /\ sPc = "idle" /\ sPc' = (IF sAccepted THEN "send" ELSE "idle")
    BY <1>8 DEF WriteBegin, netVars
  <2>2. InSession'
    BY <2>1 DEF InSession, Accepting
  <2>3. PacketsBegun(c)'
    BY <2>1, AheadNumbers DEF AheadInv, PacketsBegun, Packets
  <2>4. CallsPaid(c)'
    BY <2>1, AheadNumbers DEF AheadInv, CallsPaid, Busy
  <2> QED
    BY <1>1, <1>2, <2>2, <2>3, <2>4 DEF AheadInv
<1>9. CASE WriteSend
  <2>1. /\ sPc = "send" /\ sPc' = "wait" /\ sAccepted
        /\ UNCHANGED <<writes, sAccepted, confirmed, faults>>
    BY <1>9 DEF WriteSend, AheadInv, InSession
  <2>2. InSession' /\ Busy' = Busy
    BY <2>1 DEF InSession, Accepting, Busy
  <2>3. /\ writes \in Datagrams /\ sPeer \in Peers \cup {NoPeer} /\ SendDown(sPeer, writes)
    BY <1>9, DatagramFacts DEF WriteSend, TypeOK, ServerTypeOK
  <2>4. PacketsBegun(c)'
    <3> SUFFICES ASSUME NEW k \in Packets, down'[c][k] > 0 PROVE sAccepted /\ k <= writes
      BY <2>1 DEF PacketsBegun
    <3>1. CASE k = writes
      BY <2>1, <3>1, AheadNumbers
    <3>2. CASE k # writes
      BY <1>4, <2>3, <3>2, SendDownStep, ZenonT(60) DEF AheadInv, PacketsBegun
    <3> QED
      BY <3>1, <3>2
  <2>5. CallsPaid(c)'
    BY <2>1, <2>2 DEF AheadInv, CallsPaid
  <2> QED
    BY <1>1, <1>2, <2>2, <2>4, <2>5 DEF AheadInv
<1>10. CASE WriteDrop \/ WriteTimeout
  <2>1. InSession' /\ Busy' = Busy
    BY <1>10 DEF WriteDrop, WriteTimeout, Retry, AheadInv, InSession, Accepting, Busy
  <2> QED
    BY <1>1, <1>10, <2>1, AheadFrame DEF WriteDrop, WriteTimeout, netVars
<1>11. CASE WriteFail
  <2>1. /\ sPc = "send" /\ sPc' = "idle" /\ UNCHANGED <<writes, sAccepted, confirmed, down>>
    BY <1>11 DEF WriteFail, netVars
  <2>2. faults'["send"] = faults["send"] + 1
    BY <1>11, FaultStep DEF WriteFail, Faults
  <2>3. InSession' /\ PacketsBegun(c)'
    BY <2>1 DEF AheadInv, InSession, Accepting, PacketsBegun
  <2>4. CallsPaid(c)'
    BY <2>1, <2>2, AheadNumbers DEF AheadInv, CallsPaid, Busy
  <2> QED
    BY <1>1, <1>2, <2>3, <2>4 DEF AheadInv
<1>12. ASSUME NEW p \in Peers, NEW w \in Words, WriteReceive(p, w) PROVE AheadInv(c)'
  <2>1. /\ sPc = "wait" /\ UNCHANGED <<writes, sAccepted, down, faults>>
    BY <1>12 DEF WriteReceive
  <2>2. PacketsBegun(c)'
    BY <2>1 DEF AheadInv, PacketsBegun
  <2>3. CASE w = "aced"
    <3>1. p = c
      BY <1>12, <2>3, TakeUpStep DEF WriteReceive, AheadInv, SilentStrangers, Peers
    <3>2. sPc' = "idle" /\ confirmed'[c] = confirmed[c] + 1
      BY <1>12, <2>3, <3>1 DEF WriteReceive, EndsWrite, TypeOK, ServerTypeOK
    <3>3. InSession' /\ CallsPaid(c)'
      BY <2>1, <3>2, AheadNumbers DEF AheadInv, InSession, Accepting, CallsPaid, Busy
    <3> QED
      BY <1>1, <1>2, <2>2, <3>3 DEF AheadInv
  <2>4. CASE w # "aced"
    <3>1. sPc' = "send" /\ confirmed' = confirmed
      BY <1>12, <2>4 DEF WriteReceive, EndsWrite
    <3>2. InSession' /\ CallsPaid(c)'
      BY <2>1, <3>1 DEF AheadInv, InSession, Accepting, CallsPaid, Busy
    <3> QED
      BY <1>1, <1>2, <2>2, <3>2 DEF AheadInv
  <2> QED
    BY <2>3, <2>4
<1>13. CASE ServerClose
  <2>1. InSession' /\ Busy' = Busy
    BY <1>13 DEF ServerClose, AheadInv, InSession, Accepting, Busy
  <2> QED
    BY <1>1, <1>13, <2>1, AheadFrame DEF ServerClose
<1> QED
  BY <1>5, <1>6, <1>7, <1>8, <1>9, <1>10, <1>11, <1>12, <1>13 DEF Server, ServerReceive

\* What the client reads is a packet of a call that was begun, and at most one
\* call more was begun than returned on an ack, which the client has paid for.
LEMMA ReadIsNotAhead ==
  ASSUME TypeOK, NEW c \in Clients, Covered(c), AheadInv(c),
         NEW k \in Datagrams, down[c][k] > 0
  PROVE  k <= Len(got[c]) + 1 + faults["dup"] + faults["send"]
<1>1. CASE k = Ack
  BY <1>1, AheadNumbers DEF Ack
<1>2. CASE k \in Packets
  <2>1. k <= writes /\ writes <= confirmed[c] + faults["send"] + Busy
    BY <1>2 DEF AheadInv, PacketsBegun, CallsPaid
  <2>2. confirmed[c] <= Len(got[c]) + faults["dup"]
    BY CoveredNumbers DEF Covered, ReadCount
  <2> QED
    BY <2>1, <2>2, AheadNumbers, SMTT(30)
<1> QED
  BY <1>1, <1>2 DEF Datagrams

\* A client that reads keeps the order.
LEMMA ReadKeepsOrder ==
  ASSUME TypeOK, NEW c \in Clients, Covered(c), AheadInv(c),
         NEW k \in Datagrams, ReadReceive(c, k)
  PROVE  ReadsInOrder(c)'
<1>1. /\ got'[c] = Append(got[c], k) /\ faults' = faults
  BY AheadNumbers DEF ReadReceive, TypeOK, ClientTypeOK
<1>2. down[c][k] > 0
  BY DEF ReadReceive, TakeDown
<1>3. SUFFICES ASSUME NEW j \in 1 .. Len(got'[c])
               PROVE  got'[c][j] <= j + faults["dup"] + faults["send"]
  BY <1>1 DEF ReadsInOrder
<1>4. CASE j \in 1 .. Len(got[c])
  BY <1>1, <1>4, AheadNumbers DEF AheadInv, ReadsInOrder
<1>5. CASE j = Len(got[c]) + 1
  <2>1. got'[c][j] = k
    BY <1>1, <1>5, AheadNumbers
  <2> QED
    BY <1>2, <1>5, <2>1, ReadIsNotAhead, AheadNumbers
<1> QED
  BY <1>1, <1>4, <1>5, AheadNumbers

\* Every step keeps the server from running ahead.
LEMMA AheadStep ==
  ASSUME TypeOK, [Next]_vars, NEW c \in Clients, Clients = {c}, Covered(c), AheadInv(c)
  PROVE  AheadInv(c)'
<1>1. SilentStrangers' /\ TypeOK'
  BY StrangersStep, TypeStep DEF AheadInv
<1>2. CASE UNCHANGED serverVars
  <2>1. InSession' /\ UNCHANGED <<writes, sAccepted, confirmed>> /\ Busy' = Busy
    BY <1>2 DEF serverVars, AheadInv, InSession, Accepting, Busy
  <2>2. \A k \in Packets : k \in Datagrams
    BY DEF Datagrams
  <2>3. ASSUME NEW k \in Datagrams, ReadReceive(c, k) PROVE AheadInv(c)'
    <3>1. ReadsInOrder(c)'
      BY <2>3, ReadKeepsOrder
    <3>2. PacketsBegun(c)'
      <4> SUFFICES ASSUME NEW j \in Packets, down'[c][j] > 0 PROVE down[c][j] > 0
        BY <2>1 DEF AheadInv, PacketsBegun
      <4> QED
        BY <2>2, <2>3, TakeDownStep, AheadNumbers DEF ReadReceive
    <3>3. CallsPaid(c)'
      BY <2>1, <2>3 DEF ReadReceive, AheadInv, CallsPaid
    <3> QED
      BY <1>1, <2>1, <3>1, <3>2, <3>3 DEF AheadInv
  <2>4. CASE /\ got' = got
             /\ \A k \in Packets : down'[c][k] > 0 => down[c][k] > 0
    BY <1>1, <2>1, <2>4, AheadFrame
  <2>5. CASE Client(c)
    <3>1. (\E k \in Datagrams : ReadReceive(c, k)) \/ got' = got
      BY <2>5 DEF Client, ClientReceive, ConnectSetup, ConnectSend, ConnectDrop, ConnectFail,
         ConnectReceive, ConnectTimeout, ReadRefused, ReadAck, ReadTimeout, ClientClose
    <3>2. \A k \in Packets : down'[c][k] > 0 => down[c][k] > 0
      <4>1. CASE \E k \in Datagrams : TakeDown(c, k)
        BY <2>2, <4>1, TakeDownStep, AheadNumbers
      <4>2. CASE ClientClose(c)
        BY <2>2, <4>2 DEF ClientClose, TypeOK, NetTypeOK
      <4>3. CASE UNCHANGED down
        BY <4>3
      <4> QED
        BY <2>5, <4>1, <4>2, <4>3 DEF Client, ClientReceive, ConnectSetup, ConnectSend,
           ConnectDrop, ConnectFail, ConnectReceive, ConnectTimeout, ReadRefused, ReadReceive,
           ReadAck, ReadTimeout, netVars
    <3> QED
      BY <2>3, <2>4, <3>1, <3>2
  <2>6. CASE Lose
    <3>1. UNCHANGED down \/ \E d \in Clients, k \in Datagrams : TakeDown(d, k)
      BY <2>6, DatagramFacts DEF Lose
    <3>2. \A k \in Packets : down'[c][k] > 0 => down[c][k] > 0
      BY <2>2, <3>1, TakeDownStep, AheadNumbers
    <3> QED
      BY <2>4, <2>6, <3>2 DEF Lose, clientVars
  <2>7. CASE Duplicate
    <3>1. \A k \in Packets : down'[c][k] > 0 => down[c][k] > 0
      BY <1>1, <2>2, <2>7, DuplicateStep, AheadNumbers
    <3> QED
      BY <2>4, <2>7, <3>1 DEF Duplicate, clientVars
  <2>8. CASE (\E p \in Strangers : Stray(p)) \/ UNCHANGED vars
    BY <2>4, <2>8 DEF Stray, vars, clientVars, netVars
  <2>9. CASE Server
    BY <2>9, ServerAheadStep
  <2> QED
    BY <2>5, <2>6, <2>7, <2>8, <2>9 DEF Next, Network, Stopped
<1>3. CASE ~UNCHANGED serverVars
  <2>1. Server
    BY <1>3 DEF Next, Network, Stopped, vars, Client, ClientReceive, ConnectSetup,
       ConnectSend, ConnectDrop, ConnectFail, ConnectReceive, ConnectTimeout, ReadRefused,
       ReadReceive, ReadAck, ReadTimeout, ClientClose, Lose, Duplicate, Stray
  <2> QED
    BY <2>1, ServerAheadStep
<1> QED
  BY <1>2, <1>3

\* The invariant for one client holds in every state.
OneClientInv == TypeOK /\ \A c \in Clients : Covered(c) /\ (Clients = {c} => AheadInv(c))
LEMMA OneClientInvariance == Spec => []OneClientInv
<1>1. Init => OneClientInv
  <2> SUFFICES ASSUME Init, NEW c \in Clients PROVE Covered(c) /\ AheadInv(c)
    BY InitTypeOK DEF OneClientInv
  <2>1. confirmed[c] = 0 /\ up[c]["aced"] = 0 /\ cPc[c] = "start"
    BY DatagramFacts DEF Init, Peers
  <2>2. Covered(c)
    BY <2>1, InitTypeOK, CoveredNumbers DEF Covered, ReadCount
  <2>3. InSession /\ SilentStrangers
    BY DatagramFacts DEF Init, InSession, Accepting, SilentStrangers, Peers
  <2>4. PacketsBegun(c) /\ CallsPaid(c) /\ ReadsInOrder(c)
    BY InitTypeOK DEF Init, PacketsBegun, CallsPaid, ReadsInOrder, Datagrams
  <2> QED
    BY <2>2, <2>3, <2>4 DEF AheadInv
<1>2. OneClientInv /\ [Next]_vars => OneClientInv'
  BY TypeStep, CoveredStep, AheadStep DEF OneClientInv
<1> QED
  BY <1>1, <1>2, PTL DEF Spec

\* With one client, its j-th ReadData takes the packet of one of the first j
\* WriteData calls, a call more for each copy of the network and each failing
\* sendto, however acks are lost, late or reordered.
THEOREM TheServerIsNotAhead == Spec => []NeverAhead
<1>1. OneClientInv => NeverAhead
  BY DEF OneClientInv, AheadInv, ReadsInOrder, NeverAhead
<1> QED
  BY <1>1, OneClientInvariance, PTL

\* With one client whose handshake was accepted, the server exits only after the
\* client has read as many datagrams as there were calls of WriteData, but for
\* the network's copies and the sendto that failed.
THEOREM WhatFinishedWasRead == Spec => []FinishedWereRead
<1>1. OneClientInv => FinishedWereRead
  <2> SUFFICES ASSUME OneClientInv, NEW c \in Clients, Clients = {c}, sPc = "done", sAccepted
               PROVE  Len(got[c]) + faults["dup"] + faults["send"] >= Calls
    BY DEF FinishedWereRead
  <2>1. writes = Calls /\ writes <= confirmed[c] + faults["send"]
    BY AheadNumbers DEF OneClientInv, AheadInv, InSession, CallsPaid, Busy
  <2>2. confirmed[c] <= Len(got[c]) + faults["dup"]
    BY CoveredNumbers DEF OneClientInv, Covered, ReadCount
  <2> QED
    BY <2>1, <2>2, AheadNumbers DEF OneClientInv
<1> QED
  BY <1>1, OneClientInvariance, PTL

-----------------------------------------------------------------------------
(* The session is a reliable channel *)

\* One client and no stranger, and a network that loses handshakes and packets
\* but does nothing else wrong.
Alone(c) == /\ c \in Clients /\ Clients = {c} /\ Strangers = {}
            /\ \A f \in Faults \ {"lostHandshake", "lostData"} : MaxFaults[f] = 0

(***************************************************************************)
(* Then one thing at a time is under way for a WriteData: its packet, the  *)
(* ack of it, or a handshake that Connect repeats because a packet         *)
(* overtook the reply; and of the reply there is one until Connect ends.   *)
(* Hence an ack that ends a WriteData is the one of its own packet.        *)
(***************************************************************************)
Flag(b) == IF b THEN 1 ELSE 0
Connecting(c) == cPc[c] \in {"start", "send", "wait"}
Served == sPc \in {"idle", "send", "wait", "done"}
Pending(c) == up[c]["aced"] + up[c]["deadbeef"] + Flag(cPc[c] \in {"ack", "send"})

Opened == /\ sPc = "start" => sSock = "none"
          /\ sPc \notin {"start", "done"} => sSock = "bound"
Shaking(c) ==
  sPc \in {"start", "accept"} =>
    /\ Connecting(c)
    /\ \A k \in Datagrams : down[c][k] = 0
    /\ up[c]["aced"] = 0 /\ up[c]["deadbeef"] + Flag(cPc[c] # "wait") <= 1
Answering(c) ==
  sPc = "reply" =>
    /\ sPeer = c /\ sAccepted /\ cPc[c] = "wait"
    /\ \A k \in Datagrams : down[c][k] = 0
    /\ up[c]["aced"] = 0 /\ up[c]["deadbeef"] = 0
Untried(c) == ~Served => writes = 0 /\ confirmed[c] = 0 /\ got[c] = <<>>
OneThing(c) ==
  Served =>
    /\ sAccepted /\ cPc[c] # "start"
    /\ down[c][Ack] = Flag(Connecting(c))
    /\ Pending(c) <= Flag(sPc = "wait")
    /\ \A k \in Packets : down[c][k] > 0 => k = writes /\ down[c][k] + Pending(c) <= Flag(sPc = "wait")
    /\ Len(got[c]) = confirmed[c] + Flag(cPc[c] = "ack") + up[c]["aced"]
    /\ writes = confirmed[c] + Flag(sPc \in {"send", "wait"})
SessionInv(c) == /\ Opened /\ Shaking(c) /\ Answering(c) /\ Untried(c) /\ OneThing(c)
                 /\ up[c]["other"] = 0

\* A step of the session is one of the channel, or none.
ChannelStep(c) == \/ UNCHANGED <<writes, got[c], confirmed[c]>>
                  \/ /\ writes < Calls /\ confirmed[c] = writes /\ writes' = writes + 1
                     /\ UNCHANGED <<got[c], confirmed[c]>>
                  \/ /\ Len(got[c]) < writes /\ got'[c] = Append(got[c], writes)
                     /\ UNCHANGED <<writes, confirmed[c]>>
                  \/ /\ confirmed[c] < Len(got[c]) /\ confirmed'[c] = confirmed[c] + 1
                     /\ UNCHANGED <<writes, got[c]>>
SessionStep(c) == SessionInv(c)' /\ ChannelStep(c)

LEMMA AloneFacts ==
  ASSUME TypeOK, NEW c, Alone(c)
  PROVE  /\ c \in Clients /\ c \in Peers /\ Peers = {c} /\ TheClient = c
         /\ \A f \in Faults : Fault(f) => f \in {"lostHandshake", "lostData"}
         /\ ~Fault("early") /\ ~Fault("send") /\ ~Fault("bind") /\ ~Fault("setup") /\ ~Fault("dup")
         /\ ~Fault("stall") /\ ~Fault("lostReply") /\ ~Fault("lostAck")
<1>1. c \in Clients /\ c \in Peers /\ Peers = {c} /\ TheClient = c
  BY DEF Alone, Peers, TheClient
<1>2. ASSUME NEW f \in Faults, Fault(f) PROVE f \in {"lostHandshake", "lostData"}
  <2>1. faults[f] \in Nat /\ faults[f] < MaxFaults[f]
    BY <1>2 DEF TypeOK, NetTypeOK, Fault
  <2>2. MaxFaults[f] # 0
    BY <2>1
  <2> QED
    BY <2>2 DEF Alone
<1> QED
  BY <1>1, <1>2 DEF Faults, Losses

\* The numbers of the invariant.
LEMMA SessionNumbers ==
  ASSUME TypeOK, NEW c \in Clients
  PROVE  /\ up[c]["aced"] \in Nat /\ up[c]["deadbeef"] \in Nat /\ up[c]["other"] \in Nat
         /\ \A k \in Datagrams : down[c][k] \in Nat
         /\ writes \in Nat /\ confirmed[c] \in Nat /\ got[c] \in Seq(Datagrams) /\ Len(got[c]) \in Nat
         /\ Ack \in Datagrams /\ Packets \subseteq Datagrams
<1>1. c \in Peers /\ "other" \in Words
  BY DEF Peers, Words
<1> QED
  BY <1>1, CoveredNumbers, AheadNumbers, DatagramFacts DEF TypeOK, NetTypeOK

\* While a reply or anything else is under way, no timeout is due.
LEMMA NoTimeout ==
  ASSUME TypeOK, NEW c, Alone(c), ShortTimeout
  PROVE  /\ up[c]["aced"] = 0 /\ up[c]["deadbeef"] = 0 /\ \A k \in Datagrams : down[c][k] = 0
         /\ cPc[c] # "ack" /\ sPc # "reply"
<1>1. Quiet
  BY AloneFacts DEF ShortTimeout
<1> QED
  BY <1>1, AloneFacts, DatagramFacts DEF Quiet

\* The server's steps.
LEMMA ServerSession ==
  ASSUME TypeOK, NEW c, Alone(c), SessionInv(c), Server
  PROVE  SessionStep(c)
<1>0. /\ c \in Clients /\ c \in Peers /\ Peers = {c}
      /\ up[c]["aced"] \in Nat /\ up[c]["deadbeef"] \in Nat /\ up[c]["other"] = 0
      /\ \A k \in Datagrams : down[c][k] \in Nat
      /\ writes \in Nat /\ confirmed[c] \in Nat /\ got[c] \in Seq(Datagrams) /\ Len(got[c]) \in Nat
      /\ Ack \in Datagrams /\ Packets \subseteq Datagrams
  BY AloneFacts, SessionNumbers DEF SessionInv
<1>i. Opened /\ Shaking(c) /\ Answering(c) /\ Untried(c) /\ OneThing(c)
  BY DEF SessionInv
<1>1. CASE Bind
  <2>1. /\ sPc = "start" /\ sPc' = "accept" /\ sSock' = "bound"
        /\ UNCHANGED <<writes, confirmed, cPc, got, up, down>>
    BY <1>1, AloneFacts DEF Bind, clientVars, netVars
  <2>2. Opened' /\ Answering(c)' /\ Untried(c)' /\ OneThing(c)' /\ up'[c]["other"] = 0
    BY <1>0, <1>i, <2>1 DEF Opened, Answering, Untried, OneThing, Served
  <2>3. Shaking(c)'
    BY <1>i, <2>1 DEF Shaking, Connecting, Flag
  <2> QED
    BY <2>1, <2>2, <2>3 DEF SessionStep, SessionInv, ChannelStep
<1>2. ASSUME NEW p \in Peers, NEW w \in Words, AcceptReceive(p, w) PROVE SessionStep(c)
  <2>0. p = c
    BY <1>0
  <2>1. /\ sPc = "accept" /\ sSock = "bound" /\ sPc' = "reply" /\ sPeer' = c
        /\ sAccepted' = (w = "deadbeef") /\ TakeUp(c, w)
        /\ UNCHANGED <<sSock, writes, confirmed, cPc, got, down>>
    BY <1>2, <2>0 DEF AcceptReceive, clientVars
  <2>2. /\ up[c][w] > 0 /\ up'[c][w] = up[c][w] - 1
        /\ \A v \in Words : v # w => up'[c][v] = up[c][v]
    BY <1>0, <2>1, TakeUpStep
  <2>3. up[c]["aced"] = 0 /\ up[c]["deadbeef"] + Flag(cPc[c] # "wait") <= 1 /\ \A k \in Datagrams : down[c][k] = 0
    BY <1>i, <2>1 DEF Shaking
  <2>4. w = "deadbeef"
    BY <1>0, <2>2, <2>3 DEF Words
  <2>5. cPc[c] = "wait" /\ up[c]["deadbeef"] = 1
    BY <1>0, <2>2, <2>3, <2>4 DEF Flag
  <2>6. up'[c]["aced"] = 0 /\ up'[c]["deadbeef"] = 0 /\ up'[c]["other"] = 0
    BY <1>0, <2>2, <2>3, <2>4, <2>5 DEF Words
  <2>7. Answering(c)'
    BY <2>1, <2>3, <2>4, <2>5, <2>6 DEF Answering
  <2>8. Opened' /\ Shaking(c)' /\ Untried(c)' /\ OneThing(c)'
    BY <1>i, <2>1 DEF Opened, Shaking, Untried, OneThing, Served
  <2> QED
    BY <2>1, <2>6, <2>7, <2>8 DEF SessionStep, SessionInv, ChannelStep
<1>3. CASE AcceptReply
  <2>1. /\ sPc = "reply" /\ sPc' = "idle" /\ SendDown(sPeer, Ack) /\ sAccepted' = sAccepted
        /\ UNCHANGED <<sSock, writes, confirmed, cPc, got, up>>
    BY <1>3, AloneFacts DEF AcceptReply, clientVars
  <2>2. /\ sPeer = c /\ sAccepted /\ cPc[c] = "wait" /\ \A k \in Datagrams : down[c][k] = 0
        /\ up[c]["aced"] = 0 /\ up[c]["deadbeef"] = 0
        /\ writes = 0 /\ confirmed[c] = 0 /\ got[c] = <<>>
    BY <1>i, <2>1 DEF Answering, Untried, Served
  <2>3. down' = [down EXCEPT ![c][Ack] = @ + 1]
    BY <1>0, <2>1, <2>2 DEF SendDown, Open
  <2>4. down'[c][Ack] = 1 /\ \A k \in Packets : down'[c][k] = 0
    <3>1. down \in [Clients -> [Datagrams -> Nat]] /\ Ack \notin Packets
      BY DEF TypeOK, NetTypeOK, Ack, Packets
    <3> QED
      BY <1>0, <2>2, <2>3, <3>1
  <2>5. OneThing(c)'
    BY <2>1, <2>2, <2>4 DEF OneThing, Served, Pending, Flag, Connecting
  <2>6. Opened' /\ Shaking(c)' /\ Answering(c)' /\ Untried(c)'
    BY <1>i, <2>1 DEF Opened, Shaking, Answering, Untried, Served
  <2> QED
    BY <1>0, <2>1, <2>5, <2>6 DEF SessionStep, SessionInv, ChannelStep
<1>4. CASE AcceptError
  BY <1>4, <1>i DEF AcceptError, Opened
<1>5. CASE WriteBegin
  <2>0. sPc = "idle" /\ Served
    BY <1>5 DEF WriteBegin, Served
  <2>1. /\ sPc = "idle" /\ sPc' = "send" /\ writes' = writes + 1 /\ writes < Calls
        /\ UNCHANGED <<sSock, sAccepted, confirmed, cPc, got, up, down>>
    BY <1>5, <1>i, <2>0 DEF WriteBegin, MoreWrites, clientVars, netVars, OneThing
  <2>2. OneThing(c)'
    BY <1>0, <1>i, <2>0, <2>1, SMTT(30) DEF OneThing, Served, Pending, Flag, Connecting
  <2>3. Opened' /\ Shaking(c)' /\ Answering(c)' /\ Untried(c)'
    BY <1>i, <2>1 DEF Opened, Shaking, Answering, Untried, Served
  <2>4. confirmed[c] = writes
    BY <1>0, <1>i, <2>1 DEF OneThing, Served, Flag
  <2> QED
    BY <1>0, <2>1, <2>2, <2>3, <2>4 DEF SessionStep, SessionInv, ChannelStep
<1>6. CASE WriteSend
  <2>1. /\ sPc = "send" /\ sPc' = "wait" /\ SendDown(sPeer, writes)
        /\ UNCHANGED <<sSock, sAccepted, writes, confirmed, cPc, got, up>>
    BY <1>6 DEF WriteSend, clientVars
  <2>2. writes \in Packets /\ sPeer \in Peers \cup {NoPeer}
    BY <2>1, DatagramFacts DEF TypeOK, ServerTypeOK, Packets
  <2>3. /\ down'[c][writes] \in {down[c][writes], down[c][writes] + 1}
        /\ \A k \in Datagrams : k # writes => down'[c][k] = down[c][k]
    BY <1>0, <2>1, <2>2, SendDownStep
  <2>4. Pending(c) \in Nat /\ Pending(c)' = Pending(c)
    BY <1>0, <2>1 DEF Pending, Flag
  <2>5. Pending(c) = 0 /\ \A k \in Packets : down[c][k] = 0
    <3>1. Pending(c) <= 0 /\ \A k \in Packets : ~(down[c][k] > 0 /\ down[c][k] + Pending(c) > 0)
      <4>1. Flag(sPc = "wait") = 0
        BY <2>1 DEF Flag
      <4>2. Pending(c) <= 0 /\ \A k \in Packets : down[c][k] > 0 => down[c][k] + Pending(c) <= 0
        BY <1>i, <2>1, <4>1 DEF OneThing, Served
      <4> HIDE DEF Pending
      <4> QED
        BY <1>0, <2>4, <4>2
    <3> HIDE DEF Pending
    <3> QED
      BY <1>0, <2>4, <3>1
  <2>6. Ack \notin Packets
    BY DEF Ack, Packets
  <2>7. OneThing(c)'
    <3>1. \A k \in Packets : down'[c][k] > 0 => k = writes' /\ down'[c][k] + Pending(c)' <= 1
      BY <1>0, <2>1, <2>2, <2>3, <2>4, <2>5
    <3>2. down'[c][Ack] = Flag(Connecting(c))'
      BY <1>0, <1>i, <2>1, <2>2, <2>3, <2>6 DEF OneThing, Served, Flag, Connecting
    <3>3. Flag(sPc = "wait")' = 1 /\ Flag(sPc \in {"send", "wait"})' = 1
          /\ Flag(sPc \in {"send", "wait"}) = 1
      BY <2>1 DEF Flag
    <3>4. sAccepted' /\ cPc'[c] # "start" /\ Pending(c)' <= 1
      BY <1>i, <2>1, <2>4, <2>5 DEF OneThing, Served
    <3>5. /\ Len(got'[c]) = confirmed'[c] + Flag(cPc[c] = "ack")' + up'[c]["aced"]
          /\ writes' = confirmed'[c] + 1
      BY <1>i, <2>1, <3>3 DEF OneThing, Served, Flag
    <3> QED
      BY <3>1, <3>2, <3>3, <3>4, <3>5 DEF OneThing
  <2>8. Opened' /\ Shaking(c)' /\ Answering(c)' /\ Untried(c)'
    BY <1>i, <2>1 DEF Opened, Shaking, Answering, Untried, Served
  <2> QED
    BY <1>0, <2>1, <2>7, <2>8 DEF SessionStep, SessionInv, ChannelStep
<1>7. CASE WriteDrop
  <2>1. /\ sPc = "send" /\ sPc' = "wait"
        /\ UNCHANGED <<sSock, sAccepted, writes, confirmed, cPc, got, up, down>>
    BY <1>7 DEF WriteDrop, clientVars, netVars
  <2>2. OneThing(c)'
    BY <1>0, <1>i, <2>1, SMTT(30) DEF OneThing, Served, Pending, Flag, Connecting
  <2>3. Opened' /\ Shaking(c)' /\ Answering(c)' /\ Untried(c)'
    BY <1>i, <2>1 DEF Opened, Shaking, Answering, Untried, Served
  <2> QED
    BY <1>0, <2>1, <2>2, <2>3 DEF SessionStep, SessionInv, ChannelStep
<1>8. CASE WriteFail
  BY <1>8, AloneFacts DEF WriteFail
<1>9. ASSUME NEW p \in Peers, NEW w \in Words, WriteReceive(p, w) PROVE SessionStep(c)
  <2>0. p = c
    BY <1>0
  <2>1. /\ sPc = "wait" /\ TakeUp(c, w)
        /\ w = "aced" => sPc' = "idle" /\ confirmed' = [confirmed EXCEPT ![c] = @ + 1]
        /\ w # "aced" => sPc' = "send" /\ confirmed' = confirmed
        /\ UNCHANGED <<sSock, sAccepted, writes, cPc, got, down>>
    BY <1>9, <2>0 DEF WriteReceive, EndsWrite, clientVars
  <2>2. /\ up[c][w] > 0 /\ up'[c][w] = up[c][w] - 1
        /\ \A v \in Words : v # w => up'[c][v] = up[c][v]
    BY <1>0, <2>1, TakeUpStep
  <2>3. w \in {"aced", "deadbeef"}
    BY <1>0, <2>2 DEF Words
  <2>4. /\ Pending(c) <= 1
        /\ \A k \in Packets : down[c][k] > 0 => k = writes /\ down[c][k] + Pending(c) <= 1
        /\ sAccepted /\ cPc[c] # "start" /\ down[c][Ack] = Flag(Connecting(c))
        /\ Len(got[c]) = confirmed[c] + Flag(cPc[c] = "ack") + up[c]["aced"]
        /\ writes = confirmed[c] + 1
    BY <1>i, <2>1 DEF OneThing, Served, Flag
  <2>5. /\ up[c]["aced"] + up[c]["deadbeef"] = 1 /\ cPc[c] \notin {"ack", "send"} /\ Pending(c) = 1
    BY <1>0, <2>2, <2>3, <2>4, SMTT(30) DEF Pending, Flag
  <2>6. \A k \in Packets : down[c][k] = 0
    <3> SUFFICES ASSUME NEW k \in Packets, down[c][k] # 0 PROVE FALSE
      OBVIOUS
    <3>1. down[c][k] \in Nat /\ down[c][k] + Pending(c) <= 1
      BY <1>0, <2>4
    <3> QED
      BY <2>5, <3>1
  <2>a. w = "aced" => /\ up[c]["aced"] = 1 /\ up[c]["deadbeef"] = 0 /\ up'[c]["aced"] = 0
                      /\ up'[c]["deadbeef"] = 0
    <3> SUFFICES ASSUME w = "aced"
                 PROVE  /\ up[c]["aced"] = 1 /\ up[c]["deadbeef"] = 0 /\ up'[c]["aced"] = 0
                        /\ up'[c]["deadbeef"] = 0
      OBVIOUS
    <3>1. up[c]["aced"] > 0 /\ up'[c]["aced"] = up[c]["aced"] - 1 /\ up'[c]["deadbeef"] = up[c]["deadbeef"]
      BY <2>2 DEF Words
    <3> QED
      BY <1>0, <2>5, <3>1
  <2>b. w = "deadbeef" => up'[c]["aced"] = 0 /\ up'[c]["deadbeef"] = 0
    <3> SUFFICES ASSUME w = "deadbeef" PROVE up'[c]["aced"] = 0 /\ up'[c]["deadbeef"] = 0
      OBVIOUS
    <3>1. /\ up[c]["deadbeef"] > 0 /\ up'[c]["deadbeef"] = up[c]["deadbeef"] - 1
          /\ up'[c]["aced"] = up[c]["aced"]
      BY <2>2 DEF Words
    <3> QED
      BY <1>0, <2>5, <3>1
  <2>c. up'[c]["other"] = 0
    BY <1>0, <2>2, <2>3 DEF Words
  <2>7. up'[c]["aced"] = 0 /\ up'[c]["deadbeef"] = 0 /\ up'[c]["other"] = 0
    BY <2>3, <2>a, <2>b, <2>c
  <2>8. Pending(c)' = 0
    BY <2>1, <2>5, <2>7 DEF Pending, Flag
  <2>9. CASE w = "aced"
    <3>1. confirmed'[c] = confirmed[c] + 1 /\ sPc' = "idle"
      BY <2>1, <2>9, <1>0 DEF TypeOK, ServerTypeOK
    <3>2. up[c]["aced"] = 1 /\ Len(got[c]) = confirmed[c] + 1
      <4>1. Flag(cPc[c] = "ack") = 0
        BY <2>5 DEF Flag
      <4> QED
        BY <1>0, <2>4, <2>9, <2>a, <4>1
    <3>3. OneThing(c)'
      <4>1. Flag(sPc = "wait")' = 0 /\ Flag(sPc \in {"send", "wait"})' = 0 /\ Flag(cPc[c] = "ack")' = 0
        BY <2>1, <2>5, <3>1 DEF Flag
      <4>2. sAccepted' /\ cPc'[c] # "start" /\ down'[c][Ack] = Flag(Connecting(c))'
        BY <2>1, <2>4 DEF Flag, Connecting
      <4>3. Len(got'[c]) = confirmed'[c] + 0 + up'[c]["aced"] /\ writes' = confirmed'[c] + 0
        BY <1>0, <2>1, <2>4, <2>7, <3>1, <3>2
      <4>4. \A k \in Packets : ~(down'[c][k] > 0)
        BY <2>1, <2>6
      <4> HIDE DEF Pending
      <4> QED
        BY <2>8, <4>1, <4>2, <4>3, <4>4 DEF OneThing
    <3>4. Opened' /\ Shaking(c)' /\ Answering(c)' /\ Untried(c)'
      BY <1>i, <2>1, <3>1 DEF Opened, Shaking, Answering, Untried, Served
    <3> QED
      BY <1>0, <2>1, <2>7, <3>1, <3>2, <3>3, <3>4 DEF SessionStep, SessionInv, ChannelStep
  <2>10. CASE w = "deadbeef"
    <3>1. confirmed' = confirmed /\ sPc' = "send" /\ up'[c]["aced"] = up[c]["aced"]
      BY <2>1, <2>2, <2>10 DEF Words
    <3>2. OneThing(c)'
      <4>1. Flag(sPc = "wait")' = 0 /\ Flag(sPc \in {"send", "wait"})' = 1
        BY <3>1 DEF Flag
      <4>2. sAccepted' /\ cPc'[c] # "start" /\ down'[c][Ack] = Flag(Connecting(c))'
        BY <2>1, <2>4 DEF Flag, Connecting
      <4>3. /\ Len(got'[c]) = confirmed'[c] + Flag(cPc[c] = "ack")' + up'[c]["aced"]
            /\ writes' = confirmed'[c] + 1
        BY <2>1, <2>4, <3>1 DEF Flag
      <4>4. \A k \in Packets : ~(down'[c][k] > 0)
        BY <2>1, <2>6
      <4> HIDE DEF Pending
      <4> QED
        BY <2>8, <4>1, <4>2, <4>3, <4>4 DEF OneThing
    <3>3. Opened' /\ Shaking(c)' /\ Answering(c)' /\ Untried(c)'
      BY <1>i, <2>1, <3>1 DEF Opened, Shaking, Answering, Untried, Served
    <3> QED
      BY <1>0, <2>1, <2>7, <3>1, <3>2, <3>3 DEF SessionStep, SessionInv, ChannelStep
  <2> QED
    BY <2>3, <2>9, <2>10
<1>10. CASE WriteTimeout
  <2>1. /\ sPc = "wait" /\ sPc' = "send" /\ ShortTimeout
        /\ UNCHANGED <<sSock, sAccepted, writes, confirmed, cPc, got, up, down>>
    BY <1>10 DEF WriteTimeout, Retry, clientVars, netVars
  <2>2. /\ up[c]["aced"] = 0 /\ up[c]["deadbeef"] = 0 /\ \A k \in Datagrams : down[c][k] = 0
        /\ cPc[c] # "ack"
    BY <2>1, NoTimeout
  <2>3. ~Connecting(c)
    BY <1>0, <1>i, <2>1, <2>2 DEF OneThing, Served, Flag
  <2>4. Pending(c)' = 0
    BY <2>1, <2>2, <2>3 DEF Pending, Flag, Connecting
  <2>5. OneThing(c)'
    <3>1. Flag(sPc = "wait")' = 0 /\ Flag(sPc \in {"send", "wait"})' = 1 /\ Flag(sPc \in {"send", "wait"}) = 1
      BY <2>1 DEF Flag
    <3>2. sAccepted' /\ cPc'[c] # "start" /\ down'[c][Ack] = Flag(Connecting(c))'
      BY <1>i, <2>1 DEF OneThing, Served, Flag, Connecting
    <3>3. /\ Len(got'[c]) = confirmed'[c] + Flag(cPc[c] = "ack")' + up'[c]["aced"]
          /\ writes' = confirmed'[c] + 1
      BY <1>i, <2>1, <3>1 DEF OneThing, Served, Flag
    <3>4. \A k \in Packets : ~(down'[c][k] > 0)
      BY <1>0, <2>1, <2>2
    <3> HIDE DEF Pending
    <3> QED
      BY <2>4, <3>1, <3>2, <3>3, <3>4 DEF OneThing
  <2>6. Opened' /\ Shaking(c)' /\ Answering(c)' /\ Untried(c)'
    BY <1>i, <2>1 DEF Opened, Shaking, Answering, Untried, Served
  <2> QED
    BY <1>0, <2>1, <2>5, <2>6 DEF SessionStep, SessionInv, ChannelStep
<1>11. CASE ServerClose
  <2>1. /\ sPc = "idle" /\ sPc' = "done" /\ up' = [p \in Peers |-> [w \in Words |-> 0]]
        /\ UNCHANGED <<sAccepted, writes, confirmed, cPc, got, down>>
    BY <1>11 DEF ServerClose, clientVars
  <2>2. up'[c]["aced"] = 0 /\ up'[c]["deadbeef"] = 0 /\ up'[c]["other"] = 0
    BY <1>0, <2>1 DEF Words
  <2>3. up[c]["aced"] = 0
    BY <1>0, <1>i, <2>1 DEF OneThing, Served, Pending, Flag
  <2>4. OneThing(c)'
    BY <1>0, <1>i, <2>1, <2>2, <2>3 DEF OneThing, Served, Pending, Flag, Connecting
  <2>5. Opened' /\ Shaking(c)' /\ Answering(c)' /\ Untried(c)'
    BY <1>i, <2>1 DEF Opened, Shaking, Answering, Untried, Served
  <2> QED
    BY <1>0, <2>1, <2>2, <2>4, <2>5 DEF SessionStep, SessionInv, ChannelStep
<1> QED
  BY <1>1, <1>2, <1>3, <1>4, <1>5, <1>6, <1>7, <1>8, <1>9, <1>10, <1>11 DEF Server, ServerReceive

\* The client's steps.
LEMMA ClientSession ==
  ASSUME TypeOK, NEW c, Alone(c), SessionInv(c), Client(c)
  PROVE  SessionStep(c)
<1>0. /\ c \in Clients /\ c \in Peers
      /\ up[c]["aced"] \in Nat /\ up[c]["deadbeef"] \in Nat /\ up[c]["other"] = 0
      /\ \A k \in Datagrams : down[c][k] \in Nat
      /\ writes \in Nat /\ confirmed[c] \in Nat /\ got[c] \in Seq(Datagrams) /\ Len(got[c]) \in Nat
      /\ Ack \in Datagrams /\ Packets \subseteq Datagrams
      /\ cPc \in [Clients -> {"start", "send", "wait", "read", "ack", "done"}]
  BY AloneFacts, SessionNumbers DEF SessionInv, TypeOK, ClientTypeOK
<1>i. Opened /\ Shaking(c) /\ Answering(c) /\ Untried(c) /\ OneThing(c)
  BY DEF SessionInv
<1>s. UNCHANGED <<sPc, sSock, sAccepted, sPeer, writes, confirmed>>
  BY DEF Client, ClientReceive, ConnectSetup, ConnectSend, ConnectDrop, ConnectFail, ConnectReceive,
     ConnectTimeout, ReadRefused, ReadReceive, ReadAck, ReadTimeout, ClientClose, serverVars
<1>o. Opened'
  BY <1>i, <1>s DEF Opened
<1>p. sPc \in {"start", "accept", "reply"} \/ Served
  BY DEF Served, TypeOK, ServerTypeOK
<1>1. CASE ConnectSetup(c)
  <2>1. cPc[c] = "start" /\ cPc' = [cPc EXCEPT ![c] = "send"] /\ UNCHANGED <<got, up, down>>
    BY <1>1, AloneFacts DEF ConnectSetup, netVars
  <2>2. cPc'[c] = "send"
    BY <1>0, <2>1
  <2>3. sPc \in {"start", "accept"} /\ ~Served
    BY <1>i, <1>p, <2>1 DEF Answering, OneThing, Served
  <2>4. Shaking(c)' /\ Answering(c)' /\ Untried(c)' /\ OneThing(c)'
    BY <1>i, <1>s, <2>1, <2>2, <2>3 DEF Shaking, Answering, Untried, OneThing, Served, Connecting, Flag
  <2> QED
    BY <1>0, <1>o, <1>s, <2>1, <2>4 DEF SessionStep, SessionInv, ChannelStep
<1>2. CASE ConnectSend(c)
  <2>1. /\ cPc[c] = "send" /\ cPc' = [cPc EXCEPT ![c] = "wait"] /\ SendUp(c, "deadbeef")
        /\ UNCHANGED <<got, down>>
    BY <1>2 DEF ConnectSend
  <2>2. cPc'[c] = "wait"
    BY <1>0, <2>1
  <2>3. /\ up'[c]["deadbeef"] \in {up[c]["deadbeef"], up[c]["deadbeef"] + 1}
        /\ up'[c]["aced"] = up[c]["aced"] /\ up'[c]["other"] = 0
    BY <1>0, <2>1, SendUpStep, DatagramFacts, ZenonT(60)
  <2>4. CASE sPc \in {"start", "accept"}
    <3>1. up[c]["deadbeef"] = 0
      BY <1>0, <1>i, <2>1, <2>4 DEF Shaking, Flag
    <3> QED
      BY <1>0, <1>i, <1>o, <1>s, <2>1, <2>2, <2>3, <2>4, <3>1
         DEF Shaking, Answering, Untried, OneThing, Served, Connecting, Flag, SessionStep, SessionInv,
             ChannelStep
  <2>5. CASE sPc = "reply"
    BY <1>i, <2>1, <2>5 DEF Answering
  <2>6. CASE Served
    <3>0. Flag(cPc[c] \in {"ack", "send"}) = 1 /\ Flag(cPc[c] \in {"ack", "send"})' = 0
      BY <2>1, <2>2 DEF Flag
    <3>1. Pending(c)' \in Nat /\ Pending(c) \in Nat /\ Pending(c)' <= Pending(c)
      <4>1. /\ Pending(c) = up[c]["aced"] + up[c]["deadbeef"] + 1
            /\ Pending(c)' = up'[c]["aced"] + up'[c]["deadbeef"] + 0
        BY <3>0 DEF Pending
      <4> QED
        BY <1>0, <2>3, <4>1, SMTT(30)
    <3>2. OneThing(c)'
      <4>1. /\ Flag(sPc = "wait")' = Flag(sPc = "wait") /\ Flag(sPc = "wait") \in {0, 1}
            /\ Flag(sPc \in {"send", "wait"})' = Flag(sPc \in {"send", "wait"})
            /\ Flag(cPc[c] = "ack")' = Flag(cPc[c] = "ack")
            /\ Flag(Connecting(c))' = Flag(Connecting(c))
        BY <1>s, <2>1, <2>2 DEF Flag, Connecting
      <4> HIDE DEF Pending
      <4> QED
        BY <1>0, <1>i, <1>s, <2>1, <2>2, <2>3, <2>6, <3>1, <4>1 DEF OneThing
    <3>3. Shaking(c)' /\ Answering(c)' /\ Untried(c)'
      BY <1>s, <2>6 DEF Shaking, Answering, Untried, Served
    <3> QED
      BY <1>o, <1>s, <2>1, <2>3, <3>2, <3>3 DEF SessionStep, SessionInv, ChannelStep
  <2> QED
    BY <1>p, <2>4, <2>5, <2>6
<1>3. CASE ConnectDrop(c)
  <2>1. cPc[c] = "send" /\ cPc' = [cPc EXCEPT ![c] = "wait"] /\ UNCHANGED <<got, up, down>>
    BY <1>3 DEF ConnectDrop, netVars
  <2>2. cPc'[c] = "wait"
    BY <1>0, <2>1
  <2>3. CASE sPc \in {"start", "accept"}
    BY <1>0, <1>i, <1>o, <1>s, <2>1, <2>2, <2>3
       DEF Shaking, Answering, Untried, OneThing, Served, Connecting, Flag, SessionStep, SessionInv,
           ChannelStep
  <2>4. CASE sPc = "reply"
    BY <1>i, <2>1, <2>4 DEF Answering
  <2>5. CASE Served
    <3>1. Pending(c)' \in Nat /\ Pending(c) \in Nat /\ Pending(c)' <= Pending(c)
      BY <1>0, <2>1, <2>2 DEF Pending, Flag
    <3>2. OneThing(c)'
      <4>1. /\ Flag(sPc = "wait")' = Flag(sPc = "wait") /\ Flag(sPc = "wait") \in {0, 1}
            /\ Flag(sPc \in {"send", "wait"})' = Flag(sPc \in {"send", "wait"})
            /\ Flag(cPc[c] = "ack")' = Flag(cPc[c] = "ack")
            /\ Flag(Connecting(c))' = Flag(Connecting(c))
        BY <1>s, <2>1, <2>2 DEF Flag, Connecting
      <4> HIDE DEF Pending
      <4> QED
        BY <1>0, <1>i, <1>s, <2>1, <2>2, <2>5, <3>1, <4>1 DEF OneThing
    <3>3. Shaking(c)' /\ Answering(c)' /\ Untried(c)'
      BY <1>s, <2>5 DEF Shaking, Answering, Untried, Served
    <3> QED
      BY <1>0, <1>o, <1>s, <2>1, <3>2, <3>3 DEF SessionStep, SessionInv, ChannelStep
  <2> QED
    BY <1>p, <2>3, <2>4, <2>5
<1>4. CASE ConnectFail(c)
  BY <1>4, AloneFacts DEF ConnectFail
<1>5. CASE ConnectTimeout(c)
  <2>1. /\ cPc[c] = "wait" /\ cPc' = [cPc EXCEPT ![c] = "send"] /\ ShortTimeout
        /\ UNCHANGED <<got, up, down>>
    BY <1>5 DEF ConnectTimeout, netVars
  <2>2. cPc'[c] = "send"
    BY <1>0, <2>1
  <2>3. up[c]["deadbeef"] = 0 /\ down[c][Ack] = 0 /\ sPc # "reply"
    BY <1>0, <2>1, NoTimeout
  <2>4. ~Served
    BY <1>i, <2>1, <2>3 DEF OneThing, Connecting, Flag
  <2>5. sPc \in {"start", "accept"}
    BY <1>p, <2>3, <2>4
  <2> QED
    BY <1>0, <1>i, <1>o, <1>s, <2>1, <2>2, <2>3, <2>5
       DEF Shaking, Answering, Untried, OneThing, Served, Connecting, Flag, SessionStep, SessionInv,
           ChannelStep
<1>6. ASSUME NEW k \in Datagrams, ConnectReceive(c, k) \/ ReadReceive(c, k) PROVE SessionStep(c)
  <2>1. TakeDown(c, k) /\ UNCHANGED up /\ cPc[c] \in {"wait", "read"}
    BY <1>6 DEF ConnectReceive, ReadReceive
  <2>2. down[c][k] > 0 /\ down'[c][k] = down[c][k] - 1
        /\ \A j \in Datagrams : j # k => down'[c][j] = down[c][j]
    BY <1>0, <2>1, TakeDownStep
  <2>3. Served
    BY <1>i, <1>p, <2>2 DEF Shaking, Answering
  <2>4. Shaking(c)' /\ Answering(c)' /\ Untried(c)' /\ up'[c]["other"] = 0
    BY <1>0, <1>s, <2>1, <2>3 DEF Shaking, Answering, Untried, Served
  <2>5. /\ sAccepted /\ down[c][Ack] = Flag(Connecting(c)) /\ Pending(c) <= Flag(sPc = "wait")
        /\ \A j \in Packets : down[c][j] > 0 => j = writes /\ down[c][j] + Pending(c) <= Flag(sPc = "wait")
        /\ Len(got[c]) = confirmed[c] + Flag(cPc[c] = "ack") + up[c]["aced"]
        /\ writes = confirmed[c] + Flag(sPc \in {"send", "wait"})
    BY <1>i, <2>3 DEF OneThing
  <2>6. /\ Flag(sPc = "wait")' = Flag(sPc = "wait") /\ Flag(sPc = "wait") \in {0, 1}
        /\ Flag(sPc \in {"send", "wait"})' = Flag(sPc \in {"send", "wait"})
        /\ Flag(sPc = "wait") = 1 => Flag(sPc \in {"send", "wait"}) = 1
    BY <1>s DEF Flag
  <2>7. Flag(cPc[c] = "ack") = 0 /\ Flag(cPc[c] \in {"ack", "send"}) = 0
    BY <2>1 DEF Flag
  <2>8. Pending(c) = up[c]["aced"] + up[c]["deadbeef"]
    BY <1>0, <2>7 DEF Pending
  <2>9. CASE k = Ack
    <3>1. Flag(Connecting(c)) = 1 /\ down[c][Ack] = 1 /\ cPc[c] = "wait"
      BY <1>0, <2>1, <2>2, <2>5, <2>9 DEF Flag, Connecting
    <3>2. ConnectReceive(c, k)
      BY <1>6, <3>1 DEF ReadReceive
    <3>3. cPc'[c] = "read" /\ got' = got
      BY <1>0, <2>9, <3>2 DEF ConnectReceive, EndsConnect
    <3>4. /\ down'[c][Ack] = 0 /\ Flag(Connecting(c))' = 0
          /\ Flag(cPc[c] = "ack")' = 0 /\ Flag(cPc[c] \in {"ack", "send"})' = 0
      BY <2>2, <2>9, <3>1, <3>3 DEF Flag, Connecting
    <3>5. Pending(c)' = Pending(c)
      BY <2>1, <2>7, <3>4 DEF Pending
    <3>6. \A j \in Packets : j # k /\ down'[c][j] = down[c][j]
      <4>1. \A j \in Packets : j # k
        BY <2>9, DatagramFacts DEF Ack, Packets
      <4> QED
        BY <1>0, <2>2, <4>1
    <3>7. OneThing(c)'
      <4> HIDE DEF Pending
      <4> QED
        BY <1>s, <2>1, <2>5, <2>6, <2>7, <3>3, <3>4, <3>5, <3>6 DEF OneThing
    <3> QED
      BY <1>o, <1>s, <2>4, <3>3, <3>7 DEF SessionStep, SessionInv, ChannelStep
  <2>10. CASE k # Ack
    <3>0. k \in Packets
      BY <2>10 DEF Datagrams
    <3>1. /\ k = writes /\ down[c][k] = 1 /\ Pending(c) = 0 /\ Flag(sPc = "wait") = 1
          /\ up[c]["aced"] = 0 /\ up[c]["deadbeef"] = 0
      <4>1. k = writes /\ down[c][k] + Pending(c) <= Flag(sPc = "wait")
        BY <2>2, <2>5, <3>0
      <4>2. down[c][k] \in Nat /\ Pending(c) \in Nat
        BY <1>0, <2>8
      <4>3. down[c][k] = 1 /\ Pending(c) = 0 /\ Flag(sPc = "wait") = 1
        BY <2>2, <2>6, <4>1, <4>2
      <4> QED
        BY <1>0, <2>8, <4>1, <4>3
    <3>2. down'[c][k] = 0 /\ down'[c][Ack] = down[c][Ack]
          /\ \A j \in Packets : ~(down'[c][j] > 0)
      <4>1. ASSUME NEW j \in Packets, down'[c][j] > 0 PROVE FALSE
        <5>1. j # k
          BY <2>2, <3>1, <4>1
        <5>2. down[c][j] > 0
          BY <1>0, <2>2, <4>1, <5>1
        <5> QED
          BY <2>5, <3>1, <5>1, <5>2
      <4> QED
        BY <1>0, <2>2, <2>10, <3>1, <4>1
    <3>3. CASE ConnectReceive(c, k)
      <4>1. cPc'[c] = "send" /\ got' = got /\ cPc[c] = "wait"
        BY <1>0, <2>10, <3>3 DEF ConnectReceive, EndsConnect
      <4>2. /\ Flag(Connecting(c)) = 1 /\ Flag(Connecting(c))' = 1
            /\ Flag(cPc[c] = "ack")' = 0 /\ Flag(cPc[c] \in {"ack", "send"})' = 1
        BY <4>1 DEF Flag, Connecting
      <4>3. Pending(c)' = 1
        BY <2>1, <3>1, <4>2 DEF Pending
      <4>4. OneThing(c)'
        <5> HIDE DEF Pending
        <5> QED
          BY <1>s, <2>1, <2>5, <2>6, <2>7, <3>1, <3>2, <4>1, <4>2, <4>3 DEF OneThing
      <4> QED
        BY <1>o, <1>s, <2>4, <4>1, <4>4 DEF SessionStep, SessionInv, ChannelStep
    <3>4. CASE ReadReceive(c, k)
      <4>1. cPc'[c] = "ack" /\ got'[c] = Append(got[c], k) /\ cPc[c] = "read"
        <5>1. got \in [Clients -> Seq(Datagrams)]
          BY DEF TypeOK, ClientTypeOK
        <5> QED
          BY <1>0, <3>4, <5>1 DEF ReadReceive
      <4>2. /\ Flag(Connecting(c)) = 0 /\ Flag(Connecting(c))' = 0
            /\ Flag(cPc[c] = "ack")' = 1 /\ Flag(cPc[c] \in {"ack", "send"})' = 1
        BY <4>1 DEF Flag, Connecting
      <4>3. Pending(c)' = 1
        BY <2>1, <3>1, <4>2 DEF Pending
      <4>4. Len(got'[c]) = Len(got[c]) + 1
        BY <1>0, <4>1
      <4>5. OneThing(c)'
        <5>1. Len(got'[c]) = confirmed'[c] + Flag(cPc[c] = "ack")' + up'[c]["aced"]
          <6> HIDE DEF Flag
          <6> QED
            BY <1>0, <1>s, <2>1, <2>5, <2>7, <3>1, <4>2, <4>4
        <5> HIDE DEF Pending
        <5> QED
          BY <1>s, <2>1, <2>5, <2>6, <2>7, <3>1, <3>2, <4>1, <4>2, <4>3, <5>1 DEF OneThing
      <4>6. Len(got[c]) < writes
        BY <1>0, <2>5, <2>6, <2>7, <3>1
      <4> QED
        BY <1>o, <1>s, <2>4, <3>1, <4>1, <4>5, <4>6 DEF SessionStep, SessionInv, ChannelStep
    <3> QED
      BY <1>6, <3>3, <3>4
  <2> QED
    BY <2>9, <2>10
<1>7. CASE ReadRefused(c)
  BY <1>0, <1>7, <1>i, <1>o, <1>s
     DEF ReadRefused, netVars, Shaking, Answering, Untried, OneThing, Served, Connecting, Pending,
         SessionStep, SessionInv, ChannelStep
<1>8. CASE ReadAck(c)
  <2>1. cPc[c] = "ack" /\ cPc' = [cPc EXCEPT ![c] = "read"] /\ SendUp(c, "aced") /\ UNCHANGED <<got, down>>
    BY <1>8, AloneFacts DEF ReadAck, AckUp
  <2>2. cPc'[c] = "read"
    BY <1>0, <2>1
  <2>3. Served
    BY <1>i, <1>p, <2>1 DEF Shaking, Answering, Connecting
  <2>4. /\ Flag(cPc[c] = "ack") = 1 /\ Flag(cPc[c] = "ack")' = 0
        /\ Flag(cPc[c] \in {"ack", "send"}) = 1 /\ Flag(cPc[c] \in {"ack", "send"})' = 0
        /\ Flag(Connecting(c))' = Flag(Connecting(c))
        /\ Flag(sPc = "wait")' = Flag(sPc = "wait")
        /\ Flag(sPc \in {"send", "wait"})' = Flag(sPc \in {"send", "wait"})
    BY <1>s, <2>1, <2>2 DEF Flag, Connecting
  <2>5. Pending(c) \in Nat /\ Pending(c) >= 1 /\ Pending(c) <= Flag(sPc = "wait")
    BY <1>0, <1>i, <2>3, <2>4, SMTT(30) DEF OneThing, Pending
  <2>6. sPc = "wait" /\ sSock = "bound"
    BY <1>i, <2>5 DEF Flag, Opened
  <2>7. /\ up'[c]["aced"] = up[c]["aced"] + 1
        /\ up'[c]["deadbeef"] = up[c]["deadbeef"] /\ up'[c]["other"] = 0
    <3>1. up \in [Peers -> [Words -> Nat]]
      BY DEF TypeOK, NetTypeOK
    <3>2. up' = [up EXCEPT ![c]["aced"] = @ + 1]
      BY <2>1, <2>6 DEF SendUp
    <3> QED
      BY <1>0, <3>1, <3>2, DatagramFacts
  <2>8. Pending(c)' = Pending(c)
    BY <1>0, <2>4, <2>7 DEF Pending
  <2>9. OneThing(c)'
    <3>1. Len(got'[c]) = confirmed'[c] + Flag(cPc[c] = "ack")' + up'[c]["aced"]
      <4>1. Len(got[c]) = confirmed[c] + Flag(cPc[c] = "ack") + up[c]["aced"]
        BY <1>i, <2>3 DEF OneThing
      <4> QED
        <5>1. Len(got[c]) = confirmed[c] + 1 + up[c]["aced"]
          BY <2>4, <4>1
        <5>2. confirmed[c] + 1 + up[c]["aced"] = confirmed[c] + 0 + (up[c]["aced"] + 1)
          <6>1. \A m, n \in Nat : m + 1 + n = m + 0 + (n + 1)
            OBVIOUS
          <6> QED
            BY <1>0, <6>1, Zenon
        <5> QED
          BY <1>s, <2>1, <2>4, <2>7, <5>1, <5>2
    <3> HIDE DEF Pending
    <3> QED
      BY <1>i, <1>s, <2>1, <2>2, <2>3, <2>4, <2>8, <3>1 DEF OneThing
  <2>10. Shaking(c)' /\ Answering(c)' /\ Untried(c)'
    BY <1>s, <2>3 DEF Shaking, Answering, Untried, Served
  <2> QED
    BY <1>o, <1>s, <2>1, <2>7, <2>9, <2>10 DEF SessionStep, SessionInv, ChannelStep
<1>9. CASE ReadTimeout(c)
  BY <1>0, <1>9, <1>i, <1>o, <1>s
     DEF ReadTimeout, netVars, Shaking, Answering, Untried, OneThing, Served, Connecting, Pending,
         SessionStep, SessionInv, ChannelStep
<1>10. CASE ClientClose(c)
  <2>1. /\ cPc[c] = "read" /\ cPc' = [cPc EXCEPT ![c] = "done"] /\ UNCHANGED <<got, up>>
        /\ down' = [down EXCEPT ![c] = [k \in Datagrams |-> 0]]
    BY <1>10 DEF ClientClose
  <2>2. cPc'[c] = "done"
    BY <1>0, <2>1
  <2>3. \A k \in Datagrams : down'[c][k] = 0
    <3>1. down \in [Clients -> [Datagrams -> Nat]]
      BY DEF TypeOK, NetTypeOK
    <3> QED
      BY <1>0, <2>1, <3>1
  <2>4. Served
    BY <1>i, <1>p, <2>1 DEF Shaking, Answering, Connecting
  <2>5. /\ Flag(cPc[c] = "ack") = 0 /\ Flag(cPc[c] = "ack")' = 0
        /\ Flag(cPc[c] \in {"ack", "send"})' = Flag(cPc[c] \in {"ack", "send"})
        /\ Flag(Connecting(c))' = 0
        /\ Flag(sPc = "wait")' = Flag(sPc = "wait")
        /\ Flag(sPc \in {"send", "wait"})' = Flag(sPc \in {"send", "wait"})
    BY <1>s, <2>1, <2>2 DEF Flag, Connecting
  <2>6. Pending(c)' = Pending(c)
    BY <2>1, <2>5 DEF Pending
  <2>7. OneThing(c)'
    <3>1. \A k \in Packets : ~(down'[c][k] > 0)
      BY <1>0, <2>3
    <3> HIDE DEF Pending
    <3> QED
      BY <1>0, <1>i, <1>s, <2>1, <2>2, <2>3, <2>4, <2>5, <2>6, <3>1 DEF OneThing
  <2>8. Shaking(c)' /\ Answering(c)' /\ Untried(c)' /\ up'[c]["other"] = 0
    BY <1>0, <1>s, <2>1, <2>4 DEF Shaking, Answering, Untried, Served
  <2> QED
    BY <1>o, <1>s, <2>1, <2>7, <2>8 DEF SessionStep, SessionInv, ChannelStep
<1> QED
  BY <1>1, <1>2, <1>3, <1>4, <1>5, <1>6, <1>7, <1>8, <1>9, <1>10 DEF Client, ClientReceive

\* The network's steps: only a handshake or a packet is lost.
LEMMA NetworkSession ==
  ASSUME TypeOK, NEW c, Alone(c), SessionInv(c), Network \/ Stopped \/ UNCHANGED vars
  PROVE  SessionStep(c)
<1>0. /\ c \in Clients /\ c \in Peers /\ Clients = {c} /\ Strangers = {}
      /\ up[c]["aced"] \in Nat /\ up[c]["deadbeef"] \in Nat /\ up[c]["other"] = 0
      /\ \A k \in Datagrams : down[c][k] \in Nat
      /\ Ack \in Datagrams /\ Packets \subseteq Datagrams
  BY AloneFacts, SessionNumbers DEF SessionInv, Alone
<1>i. Opened /\ Shaking(c) /\ Answering(c) /\ Untried(c) /\ OneThing(c)
  BY DEF SessionInv
<1>1. CASE UNCHANGED vars \/ Stopped
  <2>1. UNCHANGED <<sPc, sSock, sAccepted, sPeer, writes, confirmed, cPc, got, up, down>>
    BY <1>1 DEF Stopped, vars, serverVars, clientVars, netVars
  <2> QED
    BY <1>0, <1>i, <2>1
       DEF Opened, Shaking, Answering, Untried, OneThing, Served, Connecting, Pending,
           SessionStep, SessionInv, ChannelStep
<1>2. CASE Lose
  <2>1. UNCHANGED <<sPc, sSock, sAccepted, sPeer, writes, confirmed, cPc, got>>
    BY <1>2 DEF Lose, serverVars, clientVars
  <2>2. /\ up'[c]["aced"] = up[c]["aced"] /\ up'[c]["other"] = 0
        /\ up'[c]["deadbeef"] \in Nat /\ up'[c]["deadbeef"] <= up[c]["deadbeef"]
        /\ down'[c][Ack] = down[c][Ack]
        /\ \A k \in Packets : down'[c][k] \in Nat /\ down'[c][k] <= down[c][k]
    <3>1. CASE TakeUp(c, "deadbeef") /\ UNCHANGED down
      BY <1>0, <3>1, TakeUpStep, DatagramFacts
    <3>2. ASSUME NEW k \in Packets, TakeDown(c, k), UNCHANGED up
          PROVE  /\ down'[c][Ack] = down[c][Ack]
                 /\ \A j \in Packets : down'[c][j] \in Nat /\ down'[c][j] <= down[c][j]
      <4>1. k # Ack
        BY DatagramFacts DEF Ack, Packets
      <4>2. down[c][k] > 0 /\ down'[c][k] = down[c][k] - 1
            /\ \A j \in Datagrams : j # k => down'[c][j] = down[c][j]
        BY <1>0, <3>2, TakeDownStep
      <4> QED
        BY <1>0, <4>1, <4>2
    <3> QED
      BY <1>0, <1>2, <3>1, <3>2, AloneFacts DEF Lose
  <2>3. Shaking(c)' /\ Answering(c)' /\ \A k \in Datagrams : down[c][k] = 0 => down'[c][k] = 0
    <3>1. \A k \in Datagrams : down[c][k] = 0 => down'[c][k] = 0
      BY <1>0, <2>2 DEF Datagrams
    <3>2. Flag(cPc[c] # "wait")' = Flag(cPc[c] # "wait") /\ Flag(cPc[c] # "wait") \in {0, 1}
      BY <2>1 DEF Flag
    <3> QED
      BY <1>0, <1>i, <2>1, <2>2, <3>1, <3>2 DEF Shaking, Answering, Connecting
  <2>4. /\ Pending(c)' \in Nat /\ Pending(c) \in Nat /\ Pending(c)' <= Pending(c)
    <3>1. /\ Flag(cPc[c] \in {"ack", "send"})' = Flag(cPc[c] \in {"ack", "send"})
          /\ Flag(cPc[c] \in {"ack", "send"}) \in {0, 1}
      BY <2>1 DEF Flag
    <3> QED
      BY <1>0, <2>2, <3>1 DEF Pending
  <2>5. OneThing(c)'
    <3>1. /\ Flag(sPc = "wait")' = Flag(sPc = "wait") /\ Flag(sPc = "wait") \in {0, 1}
          /\ Flag(sPc \in {"send", "wait"})' = Flag(sPc \in {"send", "wait"})
          /\ Flag(cPc[c] = "ack")' = Flag(cPc[c] = "ack")
          /\ Flag(Connecting(c))' = Flag(Connecting(c)) /\ Served' = Served
      BY <2>1 DEF Flag, Connecting, Served
    <3> HIDE DEF Pending
    <3> QED
      BY <1>0, <1>i, <2>1, <2>2, <2>4, <3>1 DEF OneThing
  <2> QED
    BY <1>i, <2>1, <2>2, <2>3, <2>5 DEF Opened, Untried, Served, SessionStep, SessionInv, ChannelStep
<1> QED
  BY <1>0, <1>1, <1>2, AloneFacts DEF Network, Duplicate

LEMMA InitSession == ASSUME NEW c, Alone(c), Init PROVE SessionInv(c)
<1>1. /\ sPc = "start" /\ sSock = "none" /\ writes = 0 /\ confirmed[c] = 0 /\ got[c] = <<>>
      /\ cPc[c] = "start" /\ \A w \in Words : up[c][w] = 0
      /\ \A k \in Datagrams : down[c][k] = 0
  BY DEF Init, Alone, Peers
<1> QED
  BY <1>1, DatagramFacts
     DEF SessionInv, Opened, Shaking, Answering, Untried, OneThing, Served, Connecting, Flag

LEMMA SessionIsKept ==
  ASSUME NEW c, Alone(c), TypeOK, SessionInv(c), [Next]_vars PROVE SessionStep(c)
  BY ServerSession, ClientSession, NetworkSession DEF Next, Alone

LEMMA SessionInvariance ==
  ASSUME NEW c, Alone(c) PROVE Spec => [](TypeOK /\ SessionInv(c))
<1>1. Init => TypeOK /\ SessionInv(c)
  BY InitTypeOK, InitSession
<1>2. (TypeOK /\ SessionInv(c)) /\ [Next]_vars => (TypeOK /\ SessionInv(c))'
  BY TypeStep, SessionIsKept DEF SessionStep
<1> QED
  BY <1>1, <1>2, PTL DEF Spec

\* What ReliableSession says but for its fairness, in every session of one client
\* whose network only loses handshakes and packets: the WriteData and the ReadData
\* calls of Socket.h, retransmissions, drops and repeated handshakes and all, are
\* steps of the channel, so the packets are read once each, in order, and a
\* WriteData returns after its own packet was read.
THEOREM TheSessionIsReliable ==
  ASSUME NEW c, Alone(c)
  PROVE  Spec => Channel!Init /\ [][Channel!Next]_Channel!vars
<1>1. Init => Channel!Init
  BY AloneFacts, InitTypeOK DEF Init, Channel!Init, Alone, Peers
<1>2. ASSUME TypeOK, SessionInv(c), [Next]_vars PROVE [Channel!Next]_Channel!vars
  <2>1. TheClient = c /\ ChannelStep(c)
    BY <1>2, AloneFacts, SessionIsKept DEF SessionStep
  <2> QED
    BY <2>1
       DEF ChannelStep, Channel!Next, Channel!Begin, Channel!Deliver, Channel!Confirm, Channel!vars
<1>3. TypeOK /\ SessionInv(c) /\ [Next]_vars => [Channel!Next]_Channel!vars
  BY <1>2
<1> QED
  BY <1>1, <1>3, SessionInvariance, PTL DEF Spec

=============================================================================
