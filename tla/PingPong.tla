------------------------------ MODULE PingPong ------------------------------
(***************************************************************************)
(* The TCP echo benchmark of HW1/part1/client_server: SocketServer.c sends *)
(* its packet size, has it sent back, and then sends NUM_TRIALS packets of *)
(* that size, each of which SocketClient.c reads in full and sends back.   *)
(* read_full and write_full (Generic.h) move a message in as many read and *)
(* write calls as the kernel makes of it.                                  *)
(*                                                                         *)
(* An action is one system call with the code up to the next one.  Message *)
(* 0 is the packet size, message m the packet of trial m; of a byte in     *)
(* flight only the number of its message is kept.                          *)
(***************************************************************************)
EXTENDS Integers, Sequences

CONSTANTS
  Sizes,       \* packet sizes the server may be started with
  Header,      \* sizeof(uint): bytes of the packet size
  LowBytes,    \* LowBytes[s][k]: a uint of 0 into which the first k bytes of s were read
  Trials,      \* NUM_TRIALS
  Cap,         \* bytes the kernel buffers in each direction
  MaxErrors,   \* system calls that may fail
  MaxCrashes   \* processes that may be killed

Procs == {"server", "client"}
Other(p) == IF p = "server" THEN "client" ELSE "server"

ASSUME HeaderAssumption == Header \in Nat \ {0}
ASSUME SizesAssumption ==
  /\ Sizes # {} /\ Sizes \subseteq Nat
  /\ LowBytes \in [Sizes -> [0 .. Header -> Nat]]
  /\ \A s \in Sizes : LowBytes[s][0] = 0 /\ LowBytes[s][Header] = s
ASSUME TrialsAssumption == Trials \in Nat
ASSUME CapAssumption == Cap \in Nat \ {0}
\* After two errors in the handshake the server could read, as the answer to its
\* packet size, bytes of that very number echoed as a packet; the model does not
\* keep the values of bytes and stays below that.
ASSUME FaultsAssumption == MaxErrors \in {0, 1} /\ MaxCrashes \in Nat

VARIABLES
  phase,    \* how far each program is; a server with a client in listen's backlog is at "backlog"
  op,       \* whether each program is in, or comes to, write_full or read_full
  msg,      \* the message that call is for
  left,     \* write_size, read_size: bytes the call has still to move
  psize,    \* packet_size of each program
  stream,   \* bytes on their way to each program
  mixed,    \* history: a read_full took a byte of another message than its own
  errors,   \* system calls that have failed
  crashes   \* processes killed

vars == <<phase, op, msg, left, psize, stream, mixed, errors, crashes>>
callVars == <<op, msg, left>>

\* What main does first and second with a message: the server sends it and
\* reads it back, the client reads it and sends it back.
First(p) == IF p = "server" THEN "write" ELSE "read"
Second(p) == IF p = "server" THEN "read" ELSE "write"

\* The third argument of read_full and write_full.
Width(p, m) == IF m = 0 THEN Header ELSE psize[p]

TypeOK ==
  /\ phase \in [Procs -> {"start", "listening", "backlog", "running", "done", "failed"}]
  /\ op \in [Procs -> {"read", "write"}]
  /\ msg \in [Procs -> 0 .. Trials + 1]
  /\ left \in [Procs -> Nat]
  /\ psize \in [Procs -> Nat] /\ psize["server"] \in Sizes
  /\ stream \in [Procs -> Seq(0 .. Trials)]
  /\ mixed \in BOOLEAN
  /\ errors \in Nat /\ crashes \in Nat
  /\ \A p \in Procs : (msg[p] <= Trials \/ phase[p] \in {"done", "failed"}) /\ left[p] <= Width(p, msg[p])
  /\ phase["client"] \notin {"listening", "backlog"}

Init ==
  /\ phase = [p \in Procs |-> "start"]
  /\ op = [p \in Procs |-> First(p)]
  /\ msg = [p \in Procs |-> 0]
  /\ left = [p \in Procs |-> Header]
  /\ \E s \in Sizes : psize = [p \in Procs |-> IF p = "server" THEN s ELSE 0]
  /\ stream = [p \in Procs |-> <<>>]
  /\ mixed = FALSE
  /\ errors = 0 /\ crashes = 0

Gone(p) == phase[p] \in {"done", "failed"}
Fail(p) == phase' = [phase EXCEPT ![p] = "failed"]

-----------------------------------------------------------------------------
(* Setting up the connection *)

Listen ==
  /\ phase["server"] = "start"
  /\ phase' = [phase EXCEPT !["server"] = "listening"]
  /\ UNCHANGED <<callVars, psize, stream, mixed, errors, crashes>>

\* The kernel completes a connection to a listening port before it is accepted
\* and refuses any other; then the client exits.
Connect ==
  /\ phase["client"] = "start"
  /\ phase' = IF phase["server"] = "listening"
              THEN [server |-> "backlog", client |-> "running"]
              ELSE [phase EXCEPT !["client"] = "failed"]
  /\ UNCHANGED <<callVars, psize, stream, mixed, errors, crashes>>

Accept ==
  /\ phase["server"] = "backlog"
  /\ phase' = [phase EXCEPT !["server"] = "running"]
  /\ UNCHANGED <<callVars, psize, stream, mixed, errors, crashes>>

\* Any error of the set-up ends the program.
SetupError(p) ==
  /\ phase[p] \in {"start", "listening", "backlog"}
  /\ errors < MaxErrors /\ errors' = errors + 1
  /\ Fail(p)
  /\ UNCHANGED <<callVars, psize, stream, mixed, crashes>>

-----------------------------------------------------------------------------
(* read_full and write_full *)

\* Their loops end when one call moves all that is left; without the loops, a
\* short count would end the call.
ReturnsShort(n, rest) == n > 0 \/ rest = 0
Returns(n, rest) == n = rest

\* The test of the server's handshake (the client's answer is what it takes for the packet size).
AnyAnswer == psize["client"] \in Nat
Agreed == psize["client"] = psize["server"]

\* for (i = 0; i < NUM_TRIALS; ++i), in both programs; and with <=.
MoreTrialsByOne(m) == m <= Trials
MoreTrials(m) == m < Trials

\* A call has returned, and main goes on to the next.
Continue(p) ==
  \/ /\ op[p] = First(p)
     /\ op' = [op EXCEPT ![p] = Second(p)]
     /\ left' = [left EXCEPT ![p] = Width(p, msg[p])]
     /\ UNCHANGED <<phase, msg>>
  \/ /\ op[p] = Second(p)
     /\ op' = [op EXCEPT ![p] = First(p)]
     /\ msg' = [msg EXCEPT ![p] = @ + 1]
     /\ left' = [left EXCEPT ![p] = Width(p, msg[p] + 1)]
     /\ phase' = IF MoreTrials(msg[p]) THEN phase ELSE [phase EXCEPT ![p] = "done"]

\* n of the bytes left have been moved.
Moved(p, n) ==
  \/ ~Returns(n, left[p]) /\ left' = [left EXCEPT ![p] = @ - n] /\ UNCHANGED <<phase, op, msg>>
  \/ Returns(n, left[p]) /\ Continue(p)

Calls(p, o) == phase[p] = "running" /\ op[p] = o

\* What a call may move of the avail bytes (or free places) there are.
Counts(p, avail) == {n \in 0 .. left[p] : n <= avail /\ (n = 0 => left[p] = 0)}

Write(p) ==
  /\ Calls(p, "write")
  /\ \E n \in Counts(p, Cap - Len(stream[Other(p)])) :
       /\ stream' = [stream EXCEPT ![Other(p)] = @ \o [j \in 1 .. n |-> msg[p]]]
       /\ Moved(p, n)
  /\ UNCHANGED <<psize, mixed, errors, crashes>>

\* The client's packet_size is 0 and filled from its low byte on.
Learned(k) == LowBytes[psize["server"]][k]

Take(p, n) ==
  /\ stream' = [stream EXCEPT ![p] = SubSeq(@, n + 1, Len(@))]
  /\ mixed' = (mixed \/ \E j \in 1 .. n : stream[p][j] # msg[p])

ClientRead ==
  /\ Calls("client", "read")
  /\ \E n \in Counts("client", Len(stream["client"])) :
       /\ Take("client", n)
       /\ psize' = IF msg["client"] = 0
                   THEN [psize EXCEPT !["client"] = Learned(Header - left["client"] + n)]
                   ELSE psize
       /\ Moved("client", n)
  /\ UNCHANGED <<errors, crashes>>

\* The server exits if the answer in its handshake is not its packet size.
ServerRead ==
  /\ Calls("server", "read")
  /\ \E n \in Counts("server", Len(stream["server"])) :
       /\ Take("server", n)
       /\ \/ /\ msg["server"] = 0 /\ Returns(n, left["server"]) /\ ~Agreed
             /\ Fail("server") /\ UNCHANGED callVars
          \/ (msg["server"] = 0 /\ Returns(n, left["server"]) => Agreed) /\ Moved("server", n)
  /\ UNCHANGED <<psize, errors, crashes>>

\* read returns 0 at the end of the stream, which read_full takes for a short
\* count: its loop never ends.
ReadEof(p) ==
  /\ Calls(p, "read") /\ left[p] > 0
  /\ Gone(Other(p)) /\ stream[p] = <<>>
  /\ UNCHANGED vars

\* A write to a connection that the other end has left kills with SIGPIPE; one
\* of no bytes sends nothing and notices nothing.
WriteBroken(p) ==
  /\ Calls(p, "write") /\ left[p] > 0
  /\ Gone(Other(p))
  /\ Fail(p)
  /\ UNCHANGED <<callVars, psize, stream, mixed, errors, crashes>>

\* An error returns at once.  In its handshake the server exits; in a trial it
\* repeats a read for the whole packet and ignores the error of a write; the
\* client ignores any.
CallError(p) ==
  /\ phase[p] = "running"
  /\ errors < MaxErrors /\ errors' = errors + 1
  /\ \/ p = "server" /\ msg[p] = 0 /\ Fail(p) /\ UNCHANGED callVars
     \/ /\ p = "server" /\ msg[p] > 0 /\ op[p] = "read"
        /\ left' = [left EXCEPT ![p] = psize[p]]
        /\ UNCHANGED <<phase, op, msg>>
     \/ (p = "client" \/ (msg[p] > 0 /\ op[p] = "write")) /\ Continue(p)
  /\ UNCHANGED <<psize, stream, mixed, crashes>>

\* Bytes that a killed process has written may be lost, the last ones first.
Crash(p) ==
  /\ ~Gone(p)
  /\ crashes < MaxCrashes /\ crashes' = crashes + 1
  /\ Fail(p)
  /\ \E k \in 0 .. Len(stream[Other(p)]) :
       stream' = [stream EXCEPT ![Other(p)] = SubSeq(@, 1, k)]
  /\ UNCHANGED <<callVars, psize, mixed, errors>>

-----------------------------------------------------------------------------
Server == Listen \/ Accept \/ Write("server") \/ ServerRead \/ WriteBroken("server")
Client == Connect \/ Write("client") \/ ClientRead \/ WriteBroken("client")

\* Both programs have ended, or the server waits for another client to connect.
Stopped ==
  /\ Gone("client") /\ (Gone("server") \/ phase["server"] = "listening")
  /\ UNCHANGED vars

Next ==
  \/ Server \/ Client \/ Stopped
  \/ \E p \in Procs : ReadEof(p) \/ SetupError(p) \/ CallError(p) \/ Crash(p)

Spec == Init /\ [][Next]_vars

\* Both programs keep running, and TCP moves the bytes.
FairSpec == Spec /\ WF_vars(Server) /\ WF_vars(Client)

-----------------------------------------------------------------------------
\* However read and write split the messages, a read_full that no error has
\* preceded takes the bytes of its own message and of no other: trials do not
\* run into each other, nor the first one into the handshake.
Framing == errors = 0 => ~mixed

\* The server starts its trials only with a client that works with the same
\* packet size, although the client ignores the results of its handshake.
HandshakeAgreed == msg["server"] > 0 => psize["client"] = psize["server"]

\* The server counts a trial only after the client has sent it back, so that the
\* latency is printed only when every packet has been echoed, whatever failed on
\* the way; and without errors the client is at most one message ahead.
Lockstep ==
  psize["server"] > 0 =>
    /\ msg["server"] <= msg["client"]
    /\ errors = 0 => msg["client"] <= msg["server"] + 1

\* Once the client is connected, both programs complete all trials: packets
\* larger than the kernel's buffers do not leave each writing to the other.
BothExit == phase["client"] = "running" ~> \A p \in Procs : phase[p] = "done"

-----------------------------------------------------------------------------
(* What a program has done with a message when it comes to its second call for it. *)
Halfway(p) == IF op[p] = Second(p) THEN 1 ELSE 0

Promise == INSTANCE EchoRounds WITH
  Rounds <- Trials + 1,
  sent <- msg["server"] + Halfway("server"),
  received <- msg["client"] + Halfway("client"),
  echoed <- msg["client"],
  heard <- msg["server"]

\* Byte by byte, with short reads and writes, small buffers and a crash at any
\* moment, the two programs do what EchoRounds promises, unless a call fails or
\* packets have no bytes.
EchoesInRounds == Promise!Spec

=============================================================================
