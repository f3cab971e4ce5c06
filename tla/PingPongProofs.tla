--------------------------- MODULE PingPongProofs ---------------------------
(***************************************************************************)
(* Proofs about PingPong for every set of packet sizes, every header,      *)
(* number of trials and buffer size, and every split of the messages into  *)
(* read and write calls.                                                   *)
(***************************************************************************)
EXTENDS PingPong, SequenceTheorems, TLAPS

Phases == {"start", "listening", "backlog", "running", "done", "failed"}

LEMMA ProcFacts ==
  /\ "server" \in Procs /\ "client" \in Procs
  /\ \A p \in Procs : Other(p) \in Procs
  /\ Other("server") = "client" /\ Other("client") = "server"
  /\ \A p \in Procs : {First(p), Second(p)} = {"read", "write"}
  /\ Header \in Nat \ {0} /\ Cap \in Nat \ {0} /\ Trials \in Nat
  BY HeaderAssumption, CapAssumption, TrialsAssumption DEF Procs, Other, First, Second

-----------------------------------------------------------------------------
(* Streams *)

\* What write appends: n bytes of message m.
LEMMA AppendBytes ==
  ASSUME NEW s \in Seq(0 .. Trials), NEW n \in Nat, NEW m \in 0 .. Trials
  PROVE  LET t == s \o [j \in 1 .. n |-> m] IN
         /\ t \in Seq(0 .. Trials)
         /\ Len(t) = Len(s) + n
         /\ (\A j \in 1 .. Len(s) : s[j] = m) => \A j \in 1 .. Len(t) : t[j] = m
<1> DEFINE b == [j \in 1 .. n |-> m]
<1>1. b \in Seq(0 .. Trials) /\ Len(b) = n /\ \A j \in 1 .. n : b[j] = m
  OBVIOUS
<1> QED
  BY <1>1, ConcatProperties

\* What read and a crash leave: a part of the stream.
LEMMA CutBytes ==
  ASSUME NEW s \in Seq(0 .. Trials), NEW i \in 1 .. Len(s) + 1, NEW k \in 0 .. Len(s), i <= k + 1
  PROVE  LET t == SubSeq(s, i, k) IN
         /\ t \in Seq(0 .. Trials)
         /\ Len(t) = k - i + 1
         /\ \A m : (\A j \in 1 .. Len(s) : s[j] = m) => \A j \in 1 .. Len(t) : t[j] = m
<1>1. Len(s) \in Nat /\ \A j \in 1 .. Len(s) : s[j] \in 0 .. Trials
  BY LenProperties
<1>2. i \in Int /\ k \in Int /\ \A j \in i .. k : s[j] \in 0 .. Trials
  BY <1>1
<1>3. /\ SubSeq(s, i, k) \in Seq(0 .. Trials)
      /\ Len(SubSeq(s, i, k)) = IF i <= k THEN k - i + 1 ELSE 0
      /\ \A j \in 1 .. k - i + 1 : SubSeq(s, i, k)[j] = s[i + j - 1]
  BY <1>2, SubSeqProperties
<1> QED
  BY <1>1, <1>3

\* No bytes, in the terms of the invariants.
LEMMA NoBytes ==
  ASSUME NEW s \in Seq(0 .. Trials)
  PROVE  Len(s) \in Nat /\ (s = <<>> <=> Len(s) = 0)
  BY EmptySeq

-----------------------------------------------------------------------------
(* Calls *)

\* The type invariant of what Continue and Moved change.
CallTypes ==
  /\ phase \in [Procs -> Phases] /\ phase["client"] \notin {"listening", "backlog"}
  /\ op \in [Procs -> {"read", "write"}]
  /\ msg \in [Procs -> 0 .. Trials + 1]
  /\ left \in [Procs -> Nat]
  /\ \A p \in Procs : msg[p] <= Trials \/ phase[p] \in {"done", "failed"}

LEMMA RunningTrial == ASSUME TypeOK, NEW p \in Procs, phase[p] = "running" PROVE msg[p] \in 0 .. Trials
<1>1. msg[p] <= Trials \/ phase[p] \in {"done", "failed"}
  BY DEF TypeOK
<1>2. msg[p] \in 0 .. Trials + 1 /\ msg[p] <= Trials
  BY <1>1 DEF TypeOK
<1> QED
  BY <1>2, TrialsAssumption

LEMMA WidthType == ASSUME TypeOK, NEW p \in Procs, NEW m PROVE Width(p, m) \in Nat
  BY ProcFacts DEF TypeOK, Width

LEMMA ContinueStep ==
  ASSUME TypeOK, NEW p \in Procs, phase[p] = "running", Continue(p)
  PROVE  /\ CallTypes'
         /\ left'[p] = Width(p, msg'[p])
         /\ \A q \in Procs : q # p => msg'[q] = msg[q] /\ left'[q] = left[q] /\ op'[q] = op[q]
         /\ \/ op[p] = First(p) /\ op'[p] = Second(p) /\ msg'[p] = msg[p]
            \/ op[p] = Second(p) /\ op'[p] = First(p) /\ msg'[p] = msg[p] + 1
<1>1. /\ Width(p, msg[p]) \in Nat /\ Width(p, msg[p] + 1) \in Nat
      /\ First(p) \in {"read", "write"} /\ Second(p) \in {"read", "write"}
      /\ msg[p] \in 0 .. Trials /\ msg[p] + 1 \in 0 .. Trials + 1 /\ Trials \in Nat
  <2>1. Width(p, msg[p]) \in Nat /\ Width(p, msg[p] + 1) \in Nat
    BY WidthType
  <2>2. First(p) \in {"read", "write"} /\ Second(p) \in {"read", "write"}
    BY DEF First, Second
  <2>3. msg[p] \in 0 .. Trials /\ Trials \in Nat
    BY RunningTrial, TrialsAssumption
  <2> QED
    BY <2>1, <2>2, <2>3
<1>2. CASE op[p] = First(p) /\ UNCHANGED <<phase, msg>>
           /\ op' = [op EXCEPT ![p] = Second(p)]
           /\ left' = [left EXCEPT ![p] = Width(p, msg[p])]
  BY <1>1, <1>2 DEF TypeOK, CallTypes, Phases
<1>3. CASE /\ op[p] = Second(p)
           /\ op' = [op EXCEPT ![p] = First(p)]
           /\ msg' = [msg EXCEPT ![p] = @ + 1]
           /\ left' = [left EXCEPT ![p] = Width(p, msg[p] + 1)]
           /\ phase' = IF MoreTrials(msg[p]) THEN phase ELSE [phase EXCEPT ![p] = "done"]
  <2>1. /\ op' \in [Procs -> {"read", "write"}] /\ op'[p] = First(p)
        /\ msg' \in [Procs -> 0 .. Trials + 1] /\ msg'[p] = msg[p] + 1
        /\ left' \in [Procs -> Nat] /\ left'[p] = Width(p, msg'[p])
        /\ \A q \in Procs : q # p => msg'[q] = msg[q] /\ left'[q] = left[q] /\ op'[q] = op[q]
    BY <1>1, <1>3 DEF TypeOK
  <2>2. CASE MoreTrials(msg[p])
    <3>1. phase' = phase /\ msg'[p] <= Trials
      BY <1>1, <1>3, <2>1, <2>2 DEF MoreTrials
    <3> QED
      BY <1>3, <2>1, <3>1 DEF TypeOK, CallTypes, Phases
  <2>3. CASE ~MoreTrials(msg[p])
    BY <1>3, <2>1, <2>3 DEF TypeOK, CallTypes, Phases
  <2> QED
    BY <1>3, <2>1, <2>2, <2>3
<1> QED
  BY <1>2, <1>3 DEF Continue

LEMMA MovedStep ==
  ASSUME TypeOK, NEW p \in Procs, phase[p] = "running", NEW n \in 0 .. left[p], Moved(p, n)
  PROVE  /\ CallTypes'
         /\ \A q \in Procs : q # p => msg'[q] = msg[q] /\ left'[q] = left[q] /\ op'[q] = op[q]
         /\ \/ n < left[p] /\ left'[p] = left[p] - n /\ UNCHANGED <<phase, msg, op>>
            \/ n = left[p] /\ Continue(p)
<1>1. CASE ~Returns(n, left[p]) /\ left' = [left EXCEPT ![p] = @ - n] /\ UNCHANGED <<phase, op, msg>>
  <2>1. left \in [Procs -> Nat] /\ left[p] \in Nat /\ n \in Nat /\ n < left[p]
    BY <1>1 DEF TypeOK, Returns
  <2>2. left' \in [Procs -> Nat] /\ left'[p] = left[p] - n
    BY <1>1, <2>1
  <2> QED
    BY <1>1, <2>1, <2>2 DEF TypeOK, CallTypes, Phases
<1>2. CASE Returns(n, left[p]) /\ Continue(p)
  BY <1>2, ContinueStep DEF Returns
<1> QED
  BY <1>1, <1>2 DEF Moved

-----------------------------------------------------------------------------
(* Type correctness *)

\* Every stream stays a sequence of bytes of messages.
LEMMA TakeStep ==
  ASSUME TypeOK, NEW p \in Procs, NEW n \in 0 .. Len(stream[p]), Take(p, n)
  PROVE  /\ stream' \in [Procs -> Seq(0 .. Trials)] /\ mixed' \in BOOLEAN
         /\ Len(stream'[p]) = Len(stream[p]) - n
         /\ \A q \in Procs : q # p => stream'[q] = stream[q]
         /\ \A m : (\A j \in 1 .. Len(stream[p]) : stream[p][j] = m) =>
                      /\ \A j \in 1 .. Len(stream'[p]) : stream'[p][j] = m
                      /\ m = msg[p] => mixed' = mixed
<1> DEFINE s == stream[p]
<1> DEFINE t == SubSeq(s, n + 1, Len(s))
<1>1. stream \in [Procs -> Seq(0 .. Trials)] /\ s \in Seq(0 .. Trials) /\ mixed \in BOOLEAN
  BY DEF TypeOK
<1>2. Len(s) \in Nat
  BY <1>1, NoBytes
<1>3. stream' = [stream EXCEPT ![p] = t]
  BY DEF Take
<1>4. /\ t \in Seq(0 .. Trials) /\ Len(t) = Len(s) - n
      /\ \A m : (\A j \in 1 .. Len(s) : s[j] = m) => \A j \in 1 .. Len(t) : t[j] = m
  <2>1. n + 1 \in 1 .. Len(s) + 1 /\ Len(s) \in 0 .. Len(s) /\ n + 1 <= Len(s) + 1
        /\ Len(s) - (n + 1) + 1 = Len(s) - n
    BY <1>2
  <2> QED
    BY <1>1, <2>1, CutBytes
<1>5. mixed' = (mixed \/ \E j \in 1 .. n : s[j] # msg[p])
  BY DEF Take
<1>6. ASSUME \A j \in 1 .. Len(s) : s[j] = msg[p]
      PROVE  ~ \E j \in 1 .. n : s[j] # msg[p]
  BY <1>2, <1>6
<1>7. mixed' \in BOOLEAN /\ ((\A j \in 1 .. Len(s) : s[j] = msg[p]) => mixed' = mixed)
  BY <1>1, <1>5, <1>6
<1>8. /\ stream' \in [Procs -> Seq(0 .. Trials)] /\ stream'[p] = t
      /\ \A q \in Procs : q # p => stream'[q] = stream[q]
  BY <1>1, <1>3, <1>4
<1> HIDE DEF t
<1> QED
  BY <1>4, <1>7, <1>8

\* Write appends the bytes it moves, all of its own message.
LEMMA WriteStep ==
  ASSUME TypeOK, NEW p \in Procs, phase[p] = "running", NEW n \in Nat,
         stream' = [stream EXCEPT ![Other(p)] = @ \o [j \in 1 .. n |-> msg[p]]]
  PROVE  /\ stream' \in [Procs -> Seq(0 .. Trials)] /\ stream'[p] = stream[p]
         /\ Len(stream'[Other(p)]) = Len(stream[Other(p)]) + n
         /\ (\A j \in 1 .. Len(stream[Other(p)]) : stream[Other(p)][j] = msg[p]) =>
              \A j \in 1 .. Len(stream'[Other(p)]) : stream'[Other(p)][j] = msg[p]
         /\ n = 0 => stream' = stream
<1> DEFINE s == stream[Other(p)]
<1> DEFINE t == s \o [j \in 1 .. n |-> msg[p]]
<1>1. /\ stream \in [Procs -> Seq(0 .. Trials)] /\ s \in Seq(0 .. Trials)
      /\ msg[p] \in 0 .. Trials /\ Other(p) \in Procs /\ Other(p) # p
  BY ProcFacts, RunningTrial DEF TypeOK, Other
<1>2. /\ t \in Seq(0 .. Trials) /\ Len(t) = Len(s) + n
      /\ (\A j \in 1 .. Len(s) : s[j] = msg[p]) => \A j \in 1 .. Len(t) : t[j] = msg[p]
  BY <1>1, AppendBytes
<1>3. stream' = [stream EXCEPT ![Other(p)] = t]
  OBVIOUS
<1>4. n = 0 => t = s
  <2>1. n = 0 => [j \in 1 .. n |-> msg[p]] = <<>>
    OBVIOUS
  <2> QED
    BY <1>1, <2>1, ConcatEmptySeq
<1> HIDE DEF t
<1>5. stream' \in [Procs -> Seq(0 .. Trials)] /\ stream'[p] = stream[p] /\ stream'[Other(p)] = t
  BY <1>1, <1>2, <1>3
<1>6. n = 0 => stream' = stream
  BY <1>1, <1>3, <1>4
<1> QED
  BY <1>2, <1>5, <1>6

\* No call has more to move than it was called for.
Bounded == \A p \in Procs : left[p] <= Width(p, msg[p])

LEMMA ContinueBound ==
  ASSUME TypeOK, NEW p \in Procs, phase[p] = "running", Continue(p),
         \A q \in Procs : psize'[q] = psize[q] \/ (q = p /\ msg'[p] = 0)
  PROVE  Bounded'
<1>1. /\ left'[p] = Width(p, msg'[p])
      /\ \A q \in Procs : q # p => msg'[q] = msg[q] /\ left'[q] = left[q]
  BY ContinueStep
<1>2. ASSUME NEW q \in Procs, q # p PROVE left'[q] <= Width(q, msg[q])'
  BY <1>1, <1>2 DEF TypeOK, Width
<1>3. left'[p] \in Nat /\ left'[p] = Width(p, msg[p])'
  <2>1. left'[p] \in Nat
    BY <1>1, WidthType
  <2>2. Width(p, msg'[p]) = Width(p, msg[p])'
    BY DEF Width
  <2> QED
    BY <1>1, <2>1, <2>2
<1>4. left'[p] <= Width(p, msg[p])'
  BY <1>3
<1> QED
  BY <1>2, <1>4 DEF Bounded

LEMMA MovedBound ==
  ASSUME TypeOK, NEW p \in Procs, phase[p] = "running", NEW n \in 0 .. left[p], Moved(p, n),
         \A q \in Procs : psize'[q] = psize[q] \/ (q = p /\ msg[p] = 0 /\ op[p] = First(p))
  PROVE  Bounded'
<1>1. /\ \A q \in Procs : q # p => msg'[q] = msg[q] /\ left'[q] = left[q]
      /\ \/ n < left[p] /\ left'[p] = left[p] - n /\ UNCHANGED <<phase, msg, op>>
         \/ n = left[p] /\ Continue(p)
  BY MovedStep
<1>2. CASE Continue(p)
  <2>1. op[p] = First(p) => msg'[p] = msg[p]
    BY <1>2, ContinueStep DEF First, Second
  <2> QED
    BY <1>2, <2>1, ContinueBound
<1>3. CASE left'[p] = left[p] - n /\ UNCHANGED <<phase, msg, op>>
  <2>1. ASSUME NEW q \in Procs PROVE left'[q] <= Width(q, msg[q])'
    <3>1. /\ left[q] \in Nat /\ Width(q, msg[q]) \in Nat /\ left[q] <= Width(q, msg[q])
          /\ left[p] \in Nat /\ n \in Nat
      BY WidthType, SMTT(30) DEF TypeOK
    <3>2. left'[q] <= left[q]
      BY <1>1, <1>3, <3>1
    <3>3. left'[q] \in Int
      BY <1>1, <1>3, <3>1
    <3>4. Width(q, msg[q])' = Width(q, msg[q])
      BY <1>3 DEF Width
    <3> QED
      BY <3>1, <3>2, <3>3, <3>4
  <2> QED
    BY <2>1 DEF Bounded
<1> QED
  BY <1>1, <1>2, <1>3

\* What TypeOK says besides CallTypes and Bounded.
LEMMA TypeParts ==
  /\ TypeOK <=> /\ CallTypes /\ Bounded
                /\ psize \in [Procs -> Nat] /\ psize["server"] \in Sizes
                /\ stream \in [Procs -> Seq(0 .. Trials)] /\ mixed \in BOOLEAN
                /\ errors \in Nat /\ crashes \in Nat
  /\ TypeOK' <=> /\ CallTypes' /\ Bounded'
                 /\ psize' \in [Procs -> Nat] /\ psize'["server"] \in Sizes
                 /\ stream' \in [Procs -> Seq(0 .. Trials)] /\ mixed' \in BOOLEAN
                 /\ errors' \in Nat /\ crashes' \in Nat
  BY DEF TypeOK, CallTypes, Bounded, Phases

\* A process that ends, and one that the connection's set-up moves on, keep the types.
LEMMA PhaseStep ==
  ASSUME TypeOK, phase' \in [Procs -> Phases], UNCHANGED callVars, UNCHANGED psize,
         phase'["client"] \notin {"listening", "backlog"},
         \A p \in Procs : phase[p] \in {"done", "failed"} => phase'[p] \in {"done", "failed"}
  PROVE  CallTypes' /\ Bounded'
<1>1. CallTypes /\ Bounded
  BY TypeParts
<1>2. \A p \in Procs : Width(p, msg[p])' = Width(p, msg[p])
  BY DEF callVars, Width
<1>3. \A p \in Procs : msg'[p] <= Trials \/ phase'[p] \in {"done", "failed"}
  BY <1>1, TrialsAssumption DEF callVars, CallTypes
<1>4. CallTypes'
  BY <1>1, <1>3 DEF CallTypes, callVars
<1> QED
  BY <1>1, <1>2, <1>4 DEF Bounded, callVars

LEMMA TypeInit == Init => TypeOK
<1> SUFFICES ASSUME Init PROVE TypeOK
  OBVIOUS
<1>1. PICK s \in Sizes : psize = [p \in Procs |-> IF p = "server" THEN s ELSE 0]
  BY DEF Init
<1>2. psize \in [Procs -> Nat] /\ psize["server"] \in Sizes
  BY <1>1, SizesAssumption, ProcFacts
<1>3. stream \in [Procs -> Seq(0 .. Trials)]
  BY EmptySeq DEF Init
<1>4. CallTypes
  BY ProcFacts DEF Init, CallTypes, Phases, First
<1>5. Bounded
  BY ProcFacts DEF Init, Bounded, Width
<1> QED
  BY <1>2, <1>3, <1>4, <1>5, TypeParts DEF Init

LEMMA TypeStep == TypeOK /\ [Next]_vars => TypeOK'
<1> SUFFICES ASSUME TypeOK, [Next]_vars PROVE TypeOK'
  OBVIOUS
<1>0. /\ CallTypes /\ Bounded
      /\ psize \in [Procs -> Nat] /\ psize["server"] \in Sizes
      /\ stream \in [Procs -> Seq(0 .. Trials)] /\ mixed \in BOOLEAN
      /\ errors \in Nat /\ crashes \in Nat
      /\ phase \in [Procs -> Phases]
  BY TypeParts DEF CallTypes
<1>1. CASE Listen
  <2>1. CallTypes' /\ Bounded'
    BY <1>0, <1>1, PhaseStep, ProcFacts DEF Listen, CallTypes, Phases
  <2> QED
    BY <1>0, <1>1, <2>1, TypeParts DEF Listen
<1>2. CASE Connect
  <2>1. phase' \in [Procs -> Phases] /\ phase'["client"] \in {"running", "failed"}
    BY <1>0, <1>2 DEF Connect, Phases, Procs
  <2>2. \A p \in Procs : phase[p] \in {"done", "failed"} => phase'[p] \in {"done", "failed"}
    BY <1>0, <1>2 DEF Connect, Phases, Procs
  <2>3. CallTypes' /\ Bounded'
    BY <1>2, <2>1, <2>2, PhaseStep DEF Connect
  <2> QED
    BY <1>0, <1>2, <2>3, TypeParts DEF Connect
<1>3. CASE Accept
  <2>1. CallTypes' /\ Bounded'
    BY <1>0, <1>3, PhaseStep, ProcFacts DEF Accept, CallTypes, Phases
  <2> QED
    BY <1>0, <1>3, <2>1, TypeParts DEF Accept
<1>4. ASSUME NEW p \in Procs, Fail(p), UNCHANGED callVars, UNCHANGED psize
      PROVE  CallTypes' /\ Bounded'
  BY <1>0, <1>4, PhaseStep DEF Fail, CallTypes, Phases
<1>5. ASSUME NEW p \in Procs, SetupError(p) PROVE TypeOK'
  BY <1>0, <1>4, <1>5, TypeParts DEF SetupError
<1>6. ASSUME NEW p \in Procs, WriteBroken(p) PROVE TypeOK'
  BY <1>0, <1>4, <1>6, TypeParts DEF WriteBroken
<1>7. ASSUME NEW p \in Procs, Crash(p) PROVE TypeOK'
  <2>1. CallTypes' /\ Bounded'
    BY <1>4, <1>7 DEF Crash
  <2>2. PICK k \in 0 .. Len(stream[Other(p)]) :
          stream' = [stream EXCEPT ![Other(p)] = SubSeq(@, 1, k)]
    BY <1>7 DEF Crash
  <2>3. stream[Other(p)] \in Seq(0 .. Trials) /\ Len(stream[Other(p)]) \in Nat
    BY <1>0, ProcFacts, NoBytes
  <2>4. SubSeq(stream[Other(p)], 1, k) \in Seq(0 .. Trials)
    BY <2>3, CutBytes
  <2>5. stream' \in [Procs -> Seq(0 .. Trials)]
    BY <1>0, <2>2, <2>4
  <2> QED
    BY <1>0, <1>7, <2>1, <2>5, TypeParts DEF Crash
<1>8. ASSUME NEW p \in Procs, Write(p) PROVE TypeOK'
  <2>1. PICK n \in 0 .. left[p] :
          /\ stream' = [stream EXCEPT ![Other(p)] = @ \o [j \in 1 .. n |-> msg[p]]]
          /\ Moved(p, n)
    BY <1>8 DEF Write, Counts
  <2>2. phase[p] = "running" /\ UNCHANGED <<psize, mixed, errors, crashes>> /\ n \in Nat
    BY <1>0, <1>8 DEF Write, Calls, CallTypes
  <2>3. CallTypes' /\ Bounded'
    BY <2>1, <2>2, MovedStep, MovedBound
  <2>4. stream' \in [Procs -> Seq(0 .. Trials)]
    BY <2>1, <2>2, WriteStep
  <2> QED
    BY <1>0, <2>2, <2>3, <2>4, TypeParts
<1>9. CASE ClientRead
  <2>1. PICK n \in Counts("client", Len(stream["client"])) :
          /\ Take("client", n)
          /\ psize' = IF msg["client"] = 0
                      THEN [psize EXCEPT !["client"] = Learned(Header - left["client"] + n)]
                      ELSE psize
          /\ Moved("client", n)
    BY <1>9 DEF ClientRead
  <2>2. /\ phase["client"] = "running" /\ op["client"] = "read"
        /\ UNCHANGED <<errors, crashes>> /\ "client" \in Procs
        /\ n \in 0 .. left["client"]
    BY <1>9, <2>1 DEF ClientRead, Calls, Counts, Procs
  <2>3. left["client"] \in Nat /\ n \in Nat /\ n <= Len(stream["client"])
    BY <1>0, <2>1, <2>2 DEF Counts, CallTypes
  <2>4. psize' \in [Procs -> Nat] /\ \A q \in Procs : q # "client" => psize'[q] = psize[q]
    <3>1. CASE msg["client"] = 0
      <4>1. left["client"] <= Header /\ Header \in Nat
        BY <1>0, <2>2, <3>1, ProcFacts DEF Bounded, Width
      <4>2. Header - left["client"] + n \in 0 .. Header
        BY <2>2, <2>3, <4>1
      <4>3. Learned(Header - left["client"] + n) \in Nat
        BY <1>0, <4>2, SizesAssumption DEF Learned
      <4> QED
        BY <1>0, <2>1, <2>2, <3>1, <4>3
    <3> QED
      BY <1>0, <2>1, <3>1
  <2>5. \A q \in Procs : \/ psize'[q] = psize[q]
                         \/ q = "client" /\ msg["client"] = 0 /\ op["client"] = First("client")
    BY <2>1, <2>2, <2>4 DEF First
  <2>6. CallTypes' /\ Bounded'
    BY <2>1, <2>2, <2>5, MovedStep, MovedBound
  <2>7. stream' \in [Procs -> Seq(0 .. Trials)] /\ mixed' \in BOOLEAN
    <3>1. Len(stream["client"]) \in Nat
      BY <1>0, <2>2, NoBytes
    <3> QED
      BY <2>1, <2>2, <2>3, <3>1, TakeStep
  <2>8. psize'["server"] \in Sizes
    BY <1>0, <2>4, ProcFacts
  <2> QED
    BY <1>0, <2>2, <2>4, <2>6, <2>7, <2>8, TypeParts
<1>10. CASE ServerRead
  <2>1. PICK n \in Counts("server", Len(stream["server"])) :
          /\ Take("server", n)
          /\ \/ Fail("server") /\ UNCHANGED callVars
             \/ Moved("server", n)
    BY <1>10 DEF ServerRead
  <2>2. /\ phase["server"] = "running" /\ UNCHANGED <<psize, errors, crashes>>
        /\ "server" \in Procs /\ n \in 0 .. left["server"]
    BY <1>10, <2>1 DEF ServerRead, Calls, Counts, Procs
  <2>3. n \in 0 .. Len(stream["server"])
    <3>1. Len(stream["server"]) \in Nat /\ left["server"] \in Nat
      BY <1>0, <2>2, NoBytes DEF CallTypes
    <3> QED
      BY <2>1, <2>2, <3>1 DEF Counts
  <2>4. CallTypes' /\ Bounded'
    BY <1>4, <2>1, <2>2, MovedStep, MovedBound
  <2>5. stream' \in [Procs -> Seq(0 .. Trials)] /\ mixed' \in BOOLEAN
    BY <2>1, <2>2, <2>3, TakeStep
  <2> QED
    BY <1>0, <2>2, <2>4, <2>5, TypeParts
<1>11. ASSUME NEW p \in Procs, CallError(p) PROVE TypeOK'
  <2>1. phase[p] = "running" /\ UNCHANGED <<psize, stream, mixed, crashes>> /\ errors' \in Nat
    BY <1>0, <1>11 DEF CallError
  <2>2. CASE Fail(p) /\ UNCHANGED callVars
    BY <1>0, <1>4, <2>1, <2>2, TypeParts
  <2>3. CASE /\ msg[p] > 0
             /\ left' = [left EXCEPT ![p] = psize[p]]
             /\ UNCHANGED <<phase, op, msg>>
    <3>1. left' \in [Procs -> Nat]
      BY <1>0, <2>3 DEF CallTypes
    <3>2. CallTypes'
      BY <1>0, <2>3, <3>1 DEF CallTypes
    <3>3. ASSUME NEW q \in Procs PROVE left'[q] <= Width(q, msg[q])'
      <4>1. Width(q, msg[q])' = Width(q, msg[q])
        BY <2>1, <2>3 DEF Width
      <4>2. CASE q = p
        BY <1>0, <2>1, <2>3, <4>2 DEF Width, CallTypes
      <4>3. CASE q # p
        BY <1>0, <2>3, <4>1, <4>3 DEF Bounded, CallTypes
      <4> QED
        BY <4>2, <4>3
    <3> QED
      BY <1>0, <2>1, <3>2, <3>3, TypeParts DEF Bounded
  <2>4. CASE Continue(p)
    BY <1>0, <2>1, <2>4, ContinueStep, ContinueBound, TypeParts
  <2> QED
    BY <1>11, <2>2, <2>3, <2>4 DEF CallError
<1>12. CASE UNCHANGED vars
  BY <1>12 DEF vars, callVars, TypeOK, Width
<1> QED
  BY <1>1, <1>2, <1>3, <1>5, <1>6, <1>7, <1>8, <1>9, <1>10, <1>11, <1>12, ProcFacts
     DEF Next, Server, Client, Stopped, ReadEof

\* The variables keep their types: among others, no call moves more bytes than
\* it was asked to, and no program passes its last trial.
THEOREM TypeCorrect == Spec => []TypeOK
<1> QED
  BY TypeInit, TypeStep, PTL DEF Spec

-----------------------------------------------------------------------------
(* The handshake *)

ReadingHeader == msg["client"] = 0 /\ op["client"] = "read"

\* While the client reads the packet size, nothing of its answer is on its way,
\* and the server has read nothing of it.
HeaderFirst ==
  ReadingHeader =>
    /\ Len(stream["server"]) = 0 /\ msg["server"] = 0
    /\ op["server"] = "read" => left["server"] = Header

HandshakeInv == HeaderFirst /\ HandshakeAgreed

LEMMA HandshakeInit == Init => HandshakeInv
  BY ProcFacts, EmptySeq DEF Init, HandshakeInv, HeaderFirst, ReadingHeader, HandshakeAgreed, First

LEMMA HandshakeStep == TypeOK /\ HandshakeInv /\ [Next]_vars => HandshakeInv'
<1> SUFFICES ASSUME TypeOK, HandshakeInv, [Next]_vars PROVE HandshakeInv'
  OBVIOUS
<1> USE DEF HandshakeInv, HeaderFirst, ReadingHeader, HandshakeAgreed
<1>0. /\ "server" \in Procs /\ "client" \in Procs /\ Header \in Nat \ {0}
      /\ msg["server"] \in Nat /\ msg["client"] \in Nat /\ left["server"] \in Nat
      /\ Len(stream["server"]) \in Nat
  BY ProcFacts, NoBytes DEF TypeOK
<1>1. CASE UNCHANGED <<callVars, psize, stream>>
  BY <1>1 DEF callVars
<1>2. ASSUME NEW p \in Procs, Crash(p) PROVE HandshakeInv'
  <2>1. UNCHANGED <<callVars, psize>>
    BY <1>2 DEF Crash
  <2>2. PICK k \in 0 .. Len(stream[Other(p)]) :
          stream' = [stream EXCEPT ![Other(p)] = SubSeq(@, 1, k)]
    BY <1>2 DEF Crash
  <2>3. /\ Other(p) \in Procs /\ stream \in [Procs -> Seq(0 .. Trials)]
        /\ Len(stream[Other(p)]) \in Nat
    BY ProcFacts, NoBytes DEF TypeOK
  <2>4. Len(SubSeq(stream[Other(p)], 1, k)) = k
    BY <2>3, CutBytes
  <2>5. Len(stream["server"]) = 0 => Len(stream'["server"]) = 0
    BY <1>0, <2>2, <2>3, <2>4
  <2> QED
    BY <2>1, <2>5 DEF callVars
<1>3. CASE Write("server")
  <2>1. PICK n \in 0 .. left["server"] :
          /\ stream' = [stream EXCEPT !["client"] = @ \o [j \in 1 .. n |-> msg["server"]]]
          /\ Moved("server", n)
    BY <1>3, ProcFacts DEF Write, Counts
  <2>2. /\ phase["server"] = "running" /\ op["server"] = "write" /\ psize' = psize
        /\ stream'["server"] = stream["server"]
    BY <1>0, <1>3, <2>1 DEF Write, Calls, TypeOK
  <2>3. /\ msg'["client"] = msg["client"] /\ op'["client"] = op["client"]
        /\ \/ op'["server"] = op["server"] /\ msg'["server"] = msg["server"]
           \/ Continue("server")
    BY <1>0, <2>1, <2>2, MovedStep
  <2>4. CASE Continue("server")
    <3>1. /\ op'["server"] = "read" /\ msg'["server"] = msg["server"]
          /\ left'["server"] = Width("server", msg["server"])
      BY <1>0, <2>2, <2>4, ContinueStep DEF First, Second
    <3> QED
      BY <2>2, <2>3, <3>1 DEF Width
  <2> QED
    BY <2>2, <2>3, <2>4
<1>4. CASE Write("client")
  <2>1. PICK n \in 0 .. left["client"] : Moved("client", n)
    BY <1>4 DEF Write, Counts
  <2>2. phase["client"] = "running" /\ op["client"] = "write" /\ psize' = psize
    BY <1>4 DEF Write, Calls
  <2>3. /\ msg'["server"] = msg["server"]
        /\ op'["client"] = "write" \/ Continue("client")
    BY <1>0, <2>1, <2>2, MovedStep
  <2>4. CASE Continue("client")
    BY <1>0, <2>2, <2>3, <2>4, ContinueStep DEF First, Second
  <2> QED
    BY <2>2, <2>3, <2>4
<1>5. CASE ClientRead
  <2>1. PICK n \in Counts("client", Len(stream["client"])) :
          /\ Take("client", n)
          /\ msg["client"] # 0 => psize' = psize
          /\ Moved("client", n)
    BY <1>5 DEF ClientRead
  <2>2. phase["client"] = "running" /\ op["client"] = "read" /\ n \in 0 .. left["client"]
    BY <1>5, <2>1 DEF ClientRead, Calls, Counts
  <2>3. stream'["server"] = stream["server"]
    BY <1>0, <2>1 DEF Take, TypeOK
  <2>4. /\ msg'["server"] = msg["server"] /\ op'["server"] = op["server"]
        /\ left'["server"] = left["server"]
        /\ \/ msg'["client"] = msg["client"]
           \/ Continue("client")
    BY <1>0, <2>1, <2>2, MovedStep
  <2>5. Continue("client") => msg'["client"] = msg["client"]
    BY <1>0, <2>2, ContinueStep DEF First, Second
  <2> QED
    BY <2>1, <2>2, <2>3, <2>4, <2>5
<1>6. CASE ServerRead
  <2>1. PICK n \in Counts("server", Len(stream["server"])) :
          /\ \/ Fail("server") /\ UNCHANGED callVars
             \/ /\ msg["server"] = 0 /\ Returns(n, left["server"]) => Agreed
                /\ Moved("server", n)
    BY <1>6 DEF ServerRead
  <2>2. /\ phase["server"] = "running" /\ op["server"] = "read" /\ psize' = psize
        /\ n \in 0 .. left["server"] /\ n <= Len(stream["server"])
        /\ n = 0 => left["server"] = 0
    BY <1>6, <2>1 DEF ServerRead, Calls, Counts
  <2>3. ~ReadingHeader
    <3> SUFFICES ASSUME ReadingHeader PROVE FALSE
      OBVIOUS
    <3>1. Len(stream["server"]) = 0 /\ left["server"] = Header
      BY <2>2
    <3> QED
      BY <1>0, <2>2, <3>1
  <2>4. CASE UNCHANGED callVars
    BY <2>2, <2>3, <2>4 DEF callVars
  <2>5. CASE Moved("server", n) /\ (msg["server"] = 0 /\ Returns(n, left["server"]) => Agreed)
    <3>1. /\ msg'["client"] = msg["client"] /\ op'["client"] = op["client"]
          /\ msg'["server"] = msg["server"] \/ n = left["server"]
      BY <1>0, <2>2, <2>5, MovedStep
    <3> QED
      BY <1>0, <2>2, <2>3, <2>5, <3>1 DEF Returns, Agreed
  <2> QED
    BY <2>1, <2>4, <2>5
<1>7. CASE CallError("server")
  <2>1. phase["server"] = "running" /\ UNCHANGED <<psize, stream>>
    BY <1>7 DEF CallError
  <2>2. CASE UNCHANGED callVars
    BY <1>1, <2>1, <2>2
  <2>3. CASE msg["server"] > 0 /\ UNCHANGED <<op, msg>>
    BY <1>0, <2>1, <2>3
  <2>4. CASE msg["server"] > 0 /\ op["server"] = "write" /\ Continue("server")
    BY <1>0, <2>1, <2>4, ContinueStep DEF First, Second
  <2> QED
    BY <1>7, <2>2, <2>3, <2>4 DEF CallError
<1>8. CASE CallError("client")
  <2>1. phase["client"] = "running" /\ UNCHANGED <<psize, stream>> /\ Continue("client")
    BY <1>8 DEF CallError
  <2>2. msg'["server"] = msg["server"] /\ ~(msg'["client"] = 0 /\ op'["client"] = "read")
    BY <1>0, <2>1, ContinueStep DEF First, Second
  <2> QED
    BY <2>1, <2>2
<1>9. CASE Listen \/ Connect \/ Accept \/ UNCHANGED vars
           \/ \E p \in Procs : SetupError(p) \/ WriteBroken(p) \/ ReadEof(p)
  <2>1. UNCHANGED <<callVars, psize, stream>>
    BY <1>9 DEF Listen, Connect, Accept, vars, callVars, SetupError, WriteBroken, ReadEof
  <2> QED
    BY <1>1, <2>1
<1> QED
  BY <1>2, <1>3, <1>4, <1>5, <1>6, <1>7, <1>8, <1>9
     DEF Next, Server, Client, Stopped, Procs

\* However the header is split, and whichever of the calls the client does not
\* check fails, the trials start only with equal packet sizes.
THEOREM HandshakeAgrees == Spec => []HandshakeAgreed
<1>1. TypeOK /\ HandshakeInv => HandshakeAgreed
  BY DEF HandshakeInv
<1> QED
  BY TypeCorrect, HandshakeInit, HandshakeStep, <1>1, PTL DEF Spec

-----------------------------------------------------------------------------
(* Rounds: who may call what while no call has failed *)

InFlight(p) == Len(stream[p])
Carries(p, m) == \A j \in 1 .. Len(stream[p]) : stream[p][j] = m

\* Message 0 has bytes; the packets have unless the packet size is 0.
Live == msg["client"] = 0 \/ psize["server"] > 0

\* A message with bytes is on its way to the client while the server still
\* writes it, and after that; then on its way back while the client still writes
\* it, and after that.
Sending ==
  /\ op["server"] = "write" /\ op["client"] = "read" /\ msg["client"] = msg["server"]
  /\ InFlight("server") = 0 /\ Carries("client", msg["server"])
  /\ left["server"] > 0 /\ InFlight("client") + left["server"] <= left["client"]
Arriving ==
  /\ op["server"] = "read" /\ op["client"] = "read" /\ msg["client"] = msg["server"]
  /\ InFlight("server") = 0 /\ Carries("client", msg["server"])
  /\ left["client"] > 0 /\ InFlight("client") <= left["client"]
  /\ left["server"] = Width("server", msg["server"])
Echoing ==
  /\ op["server"] = "read" /\ op["client"] = "write" /\ msg["client"] = msg["server"]
  /\ InFlight("client") = 0 /\ Carries("server", msg["server"])
  /\ left["client"] > 0 /\ InFlight("server") + left["client"] <= left["server"]
Returning ==
  /\ op["server"] = "read" /\ op["client"] = "read" /\ msg["client"] = msg["server"] + 1
  /\ InFlight("client") = 0 /\ Carries("server", msg["server"])
  /\ left["server"] > 0 /\ InFlight("server") <= left["server"]
  /\ left["client"] = Width("client", msg["client"])

\* Packets of no bytes: after the handshake neither waits for the other.
Void ==
  /\ psize["server"] = 0 /\ msg["client"] > 0 /\ left["client"] = 0 /\ InFlight("client") = 0
  /\ \/ /\ msg["server"] = 0 /\ op["server"] = "read"
        /\ Carries("server", 0) /\ InFlight("server") <= left["server"]
     \/ msg["server"] > 0 /\ left["server"] = 0 /\ InFlight("server") = 0

InRound == (Live /\ (Sending \/ Arriving \/ Echoing \/ Returning)) \/ Void

SizesAgree == ReadingHeader \/ psize["client"] = psize["server"]

RoundInv == errors = 0 => SizesAgree /\ InRound /\ ~mixed

LEMMA Numbers ==
  ASSUME TypeOK
  PROVE  /\ msg["server"] \in Nat /\ msg["client"] \in Nat
         /\ left["server"] \in Nat /\ left["client"] \in Nat
         /\ psize["server"] \in Nat /\ psize["client"] \in Nat
         /\ InFlight("server") \in Nat /\ InFlight("client") \in Nat
         /\ Width("server", 0) = Header /\ Width("client", 0) = Header /\ Header \in Nat \ {0}
         /\ \A m \in Nat \ {0} : Width("server", m) = psize["server"] /\ Width("client", m) = psize["client"]
  BY ProcFacts, NoBytes DEF TypeOK, InFlight, Width

LEMMA EmptyCarries == ASSUME TypeOK, NEW p \in Procs, InFlight(p) = 0, NEW m PROVE Carries(p, m)
  BY DEF InFlight, Carries

\* A call of p that moves n bytes leaves the other program's calls alone and
\* goes on, or returns.
MovesOn(p, q, n) ==
  /\ msg'[q] = msg[q] /\ left'[q] = left[q] /\ op'[q] = op[q]
  /\ \/ n < left[p] /\ left'[p] = left[p] - n /\ msg'[p] = msg[p] /\ op'[p] = op[p]
     \/ /\ n = left[p] /\ left'[p] = Width(p, msg'[p])
        /\ \/ op[p] = First(p) /\ op'[p] = Second(p) /\ msg'[p] = msg[p]
           \/ op[p] = Second(p) /\ op'[p] = First(p) /\ msg'[p] = msg[p] + 1

LEMMA MovesOnStep ==
  ASSUME TypeOK, NEW p \in Procs, phase[p] = "running", NEW n \in 0 .. left[p], Moved(p, n)
  PROVE  MovesOn(p, Other(p), n)
<1>1. Other(p) \in Procs /\ Other(p) # p
  BY ProcFacts DEF Other
<1>2. CASE Continue(p) /\ n = left[p]
  BY <1>1, <1>2, ContinueStep DEF MovesOn
<1>3. CASE n < left[p] /\ left'[p] = left[p] - n /\ UNCHANGED <<phase, msg, op>>
  BY <1>1, <1>3, MovedStep DEF MovesOn
<1> QED
  BY <1>2, <1>3, MovedStep

\* What a write does, in these terms.
LEMMA WriteCall ==
  ASSUME TypeOK, NEW p \in Procs, NEW q \in Procs, q = Other(p), Write(p)
  PROVE  \E n \in Nat :
           /\ n <= left[p] /\ (n = 0 => left[p] = 0) /\ MovesOn(p, q, n)
           /\ op[p] = "write" /\ psize' = psize /\ mixed' = mixed /\ errors' = errors
           /\ InFlight(p)' = InFlight(p) /\ InFlight(q)' = InFlight(q) + n
           /\ \A m : Carries(p, m) => Carries(p, m)'
           /\ \A m : m = msg[p] /\ Carries(q, m) => Carries(q, m)'
           /\ n = 0 => stream' = stream
<1>1. PICK n \in 0 .. left[p] :
        /\ stream' = [stream EXCEPT ![Other(p)] = @ \o [j \in 1 .. n |-> msg[p]]]
        /\ Moved(p, n) /\ (n = 0 => left[p] = 0)
  BY DEF Write, Counts
<1>2. /\ phase[p] = "running" /\ op[p] = "write" /\ UNCHANGED <<psize, mixed, errors>>
      /\ left[p] \in Nat
  BY DEF Write, Calls, TypeOK
<1>3. n \in Nat /\ n <= left[p]
  BY <1>2
<1>4. MovesOn(p, q, n)
  BY <1>1, <1>2, MovesOnStep
<1>5. /\ stream'[p] = stream[p]
      /\ Len(stream'[q]) = Len(stream[q]) + n
      /\ (\A j \in 1 .. Len(stream[q]) : stream[q][j] = msg[p]) =>
           \A j \in 1 .. Len(stream'[q]) : stream'[q][j] = msg[p]
      /\ n = 0 => stream' = stream
  BY <1>1, <1>2, <1>3, WriteStep
<1> QED
  BY <1>1, <1>2, <1>3, <1>4, <1>5 DEF InFlight, Carries

\* What Take does, in these terms.
LEMMA TakeCall ==
  ASSUME TypeOK, NEW p \in Procs, NEW q \in Procs, q = Other(p),
         NEW n \in Nat, n <= InFlight(p), Take(p, n)
  PROVE  /\ InFlight(p)' = InFlight(p) - n /\ InFlight(q)' = InFlight(q)
         /\ \A m : Carries(q, m) => Carries(q, m)'
         /\ \A m : Carries(p, m) => Carries(p, m)' /\ (m = msg[p] => mixed' = mixed)
<1>1. q # p
  BY ProcFacts DEF Other
<1>2. Len(stream[p]) \in Nat
  BY NoBytes DEF TypeOK
<1>3. n \in 0 .. Len(stream[p])
  BY <1>2 DEF InFlight
<1>4. /\ Len(stream'[p]) = Len(stream[p]) - n
      /\ stream'[q] = stream[q]
      /\ \A m : (\A j \in 1 .. Len(stream[p]) : stream[p][j] = m) =>
                   /\ \A j \in 1 .. Len(stream'[p]) : stream'[p][j] = m
                   /\ m = msg[p] => mixed' = mixed
  BY <1>1, <1>3, TakeStep
<1> QED
  BY <1>4 DEF InFlight, Carries

\* What ClientRead does: the header, once read in full, is the server's packet size.
LEMMA ClientReadCall ==
  ASSUME TypeOK, ClientRead
  PROVE  \E n \in Nat :
           /\ n <= left["client"] /\ n <= InFlight("client") /\ (n = 0 => left["client"] = 0)
           /\ MovesOn("client", "server", n)
           /\ op["client"] = "read" /\ errors' = errors /\ psize'["server"] = psize["server"]
           /\ msg["client"] # 0 => psize' = psize
           /\ msg["client"] = 0 /\ n = left["client"] => psize'["client"] = psize["server"]
           /\ InFlight("client")' = InFlight("client") - n /\ InFlight("server")' = InFlight("server")
           /\ \A m : Carries("server", m) => Carries("server", m)'
           /\ \A m : Carries("client", m) =>
                        Carries("client", m)' /\ (m = msg["client"] => mixed' = mixed)
<1>1. PICK n \in 0 .. left["client"] :
        /\ n <= Len(stream["client"]) /\ (n = 0 => left["client"] = 0)
        /\ Take("client", n)
        /\ psize' = IF msg["client"] = 0
                    THEN [psize EXCEPT !["client"] = Learned(Header - left["client"] + n)]
                    ELSE psize
        /\ Moved("client", n)
  BY DEF ClientRead, Counts
<1>2. /\ phase["client"] = "running" /\ op["client"] = "read" /\ errors' = errors
      /\ left["client"] \in Nat /\ "client" \in Procs /\ "server" \in Procs
      /\ Other("client") = "server"
  BY ProcFacts DEF ClientRead, Calls, TypeOK
<1>3. n \in Nat /\ n <= left["client"] /\ n <= InFlight("client")
  BY <1>1, <1>2 DEF InFlight
<1>4. MovesOn("client", "server", n)
  BY <1>1, <1>2, MovesOnStep
<1>5. /\ psize'["server"] = psize["server"]
      /\ msg["client"] = 0 => psize'["client"] = Learned(Header - left["client"] + n)
  BY <1>1, <1>2 DEF TypeOK
<1>6. n = left["client"] => Learned(Header - left["client"] + n) = psize["server"]
  <2>1. n = left["client"] => Header - left["client"] + n = Header
    BY <1>2, <1>3, ProcFacts
  <2>2. Learned(Header) = psize["server"]
    BY SizesAssumption DEF Learned, TypeOK
  <2> QED
    BY <2>1, <2>2
<1>7. /\ InFlight("client")' = InFlight("client") - n /\ InFlight("server")' = InFlight("server")
      /\ \A m : Carries("server", m) => Carries("server", m)'
      /\ \A m : Carries("client", m) =>
                   Carries("client", m)' /\ (m = msg["client"] => mixed' = mixed)
  BY <1>1, <1>2, <1>3, TakeCall
<1> QED
  BY <1>1, <1>2, <1>3, <1>4, <1>5, <1>6, <1>7

\* What ServerRead does: it ends the server only on a wrong answer.
LEMMA ServerReadCall ==
  ASSUME TypeOK, ServerRead
  PROVE  \E n \in Nat :
           /\ n <= left["server"] /\ n <= InFlight("server") /\ (n = 0 => left["server"] = 0)
           /\ \/ MovesOn("server", "client", n)
              \/ n = left["server"] /\ psize["client"] # psize["server"] /\ UNCHANGED callVars
           /\ op["server"] = "read" /\ errors' = errors /\ psize' = psize
           /\ InFlight("server")' = InFlight("server") - n /\ InFlight("client")' = InFlight("client")
           /\ \A m : Carries("client", m) => Carries("client", m)'
           /\ \A m : Carries("server", m) =>
                        Carries("server", m)' /\ (m = msg["server"] => mixed' = mixed)
<1>1. PICK n \in 0 .. left["server"] :
        /\ n <= Len(stream["server"]) /\ (n = 0 => left["server"] = 0)
        /\ Take("server", n)
        /\ \/ Returns(n, left["server"]) /\ ~Agreed /\ UNCHANGED callVars
           \/ Moved("server", n)
  BY DEF ServerRead, Counts
<1>2. /\ phase["server"] = "running" /\ op["server"] = "read" /\ UNCHANGED <<psize, errors>>
      /\ left["server"] \in Nat /\ "client" \in Procs /\ "server" \in Procs
      /\ Other("server") = "client"
  BY ProcFacts DEF ServerRead, Calls, TypeOK
<1>3. n \in Nat /\ n <= left["server"] /\ n <= InFlight("server")
  BY <1>1, <1>2 DEF InFlight
<1>4. \/ MovesOn("server", "client", n)
      \/ n = left["server"] /\ psize["client"] # psize["server"] /\ UNCHANGED callVars
  BY <1>1, <1>2, MovesOnStep DEF Returns, Agreed
<1>5. /\ InFlight("server")' = InFlight("server") - n /\ InFlight("client")' = InFlight("client")
      /\ \A m : Carries("client", m) => Carries("client", m)'
      /\ \A m : Carries("server", m) =>
                   Carries("server", m)' /\ (m = msg["server"] => mixed' = mixed)
  BY <1>1, <1>2, <1>3, TakeCall
<1> QED
  BY <1>1, <1>2, <1>3, <1>4, <1>5

\* The rounds go on with each of the four calls.
InOrder == SizesAgree /\ InRound /\ ~mixed

LEMMA ServerWriteInOrder ==
  ASSUME TypeOK, TypeOK', InOrder, Write("server")
  PROVE  InOrder'
<1>1. PICK n \in Nat :
        /\ n <= left["server"] /\ (n = 0 => left["server"] = 0) /\ MovesOn("server", "client", n)
        /\ op["server"] = "write" /\ psize' = psize /\ mixed' = mixed
        /\ InFlight("server")' = InFlight("server") /\ InFlight("client")' = InFlight("client") + n
        /\ \A m : m = msg["server"] /\ Carries("client", m) => Carries("client", m)'
  BY WriteCall, ProcFacts
<1>2. /\ msg'["client"] = msg["client"] /\ left'["client"] = left["client"] /\ op'["client"] = op["client"]
      /\ msg'["server"] = msg["server"]
      /\ \/ n < left["server"] /\ left'["server"] = left["server"] - n /\ op'["server"] = "write"
         \/ n = left["server"] /\ left'["server"] = Width("server", msg["server"]) /\ op'["server"] = "read"
  BY <1>1 DEF MovesOn, First, Second
<1>3. Carries("client", msg["server"]) => Carries("client", msg["server"])'
  BY <1>1, <1>2 DEF Carries
<1>4. Width("server", msg["server"])' = Width("server", msg["server"])
  BY <1>1, <1>2 DEF Width
<1>5. SizesAgree' /\ ~mixed' /\ (Live => Live')
  BY <1>1, <1>2 DEF InOrder, SizesAgree, ReadingHeader, Live
<1>6. CASE Live /\ Sending
  <2>1. CASE n < left["server"]
    <3>1. Sending'
      BY <1>1, <1>2, <1>3, <1>6, <2>1, Numbers DEF Sending
    <3> QED
      BY <1>5, <1>6, <3>1 DEF InOrder, InRound
  <2>2. CASE n = left["server"]
    <3>1. Arriving'
      BY <1>1, <1>2, <1>3, <1>4, <1>6, <2>2, Numbers DEF Sending, Arriving
    <3> QED
      BY <1>5, <1>6, <3>1 DEF InOrder, InRound
  <2> QED
    BY <1>2, <2>1, <2>2
<1>7. CASE Void
  <2>1. /\ msg["server"] > 0 /\ left["server"] = 0 /\ InFlight("server") = 0
        /\ n = 0 /\ psize["server"] = 0
    BY <1>1, <1>7, Numbers DEF Void
  <2>2. left'["server"] = 0
    BY <1>2, <2>1, Numbers
  <2>3. Void'
    BY <1>1, <1>2, <1>7, <2>1, <2>2, Numbers DEF Void
  <2> QED
    BY <1>5, <2>3 DEF InOrder, InRound
<1> QED
  BY <1>1, <1>6, <1>7 DEF InOrder, InRound, Arriving, Echoing, Returning

LEMMA ClientWriteInOrder ==
  ASSUME TypeOK, TypeOK', InOrder, Write("client")
  PROVE  InOrder'
<1>1. PICK n \in Nat :
        /\ n <= left["client"] /\ (n = 0 => left["client"] = 0) /\ MovesOn("client", "server", n)
        /\ op["client"] = "write" /\ psize' = psize /\ mixed' = mixed
        /\ InFlight("client")' = InFlight("client") /\ InFlight("server")' = InFlight("server") + n
        /\ \A m : m = msg["client"] /\ Carries("server", m) => Carries("server", m)'
        /\ n = 0 => stream' = stream
  BY WriteCall, ProcFacts
<1>2. /\ msg'["server"] = msg["server"] /\ left'["server"] = left["server"] /\ op'["server"] = op["server"]
      /\ \/ /\ n < left["client"] /\ left'["client"] = left["client"] - n /\ op'["client"] = "write"
            /\ msg'["client"] = msg["client"]
         \/ /\ n = left["client"] /\ left'["client"] = Width("client", msg'["client"])
            /\ op'["client"] = "read" /\ msg'["client"] = msg["client"] + 1
  BY <1>1 DEF MovesOn, First, Second
<1>3. msg["client"] = msg["server"] /\ Carries("server", msg["server"]) => Carries("server", msg["server"])'
  BY <1>1, <1>2 DEF Carries
<1>4. Width("client", msg'["client"]) = Width("client", msg["client"])'
  BY <1>1 DEF Width
<1>5. SizesAgree' /\ ~mixed' /\ psize["client"] = psize["server"]
  BY <1>1, <1>2, Numbers DEF InOrder, SizesAgree, ReadingHeader
<1>6. CASE Live /\ Echoing
  <2>1. CASE n < left["client"]
    <3>1. Echoing' /\ Live'
      BY <1>1, <1>2, <1>3, <1>6, <2>1, Numbers DEF Echoing, Live
    <3> QED
      BY <1>5, <3>1 DEF InOrder, InRound
  <2>2. CASE n = left["client"] /\ psize["server"] > 0
    <3>1. Returning' /\ Live'
      BY <1>1, <1>2, <1>3, <1>4, <1>6, <2>2, Numbers DEF Echoing, Returning, Live
    <3> QED
      BY <1>5, <3>1 DEF InOrder, InRound
  <2>3. CASE n = left["client"] /\ psize["server"] = 0
    <3>1. /\ msg["client"] = 0 /\ msg["server"] = 0 /\ msg'["client"] = 1
      BY <1>2, <1>6, <2>3, Numbers DEF Echoing, Live
    <3>2. left'["client"] = 0
      BY <1>2, <1>5, <2>3, <3>1, Numbers
    <3>3. Carries("server", 0)'
      BY <1>2, <1>3, <1>6, <3>1 DEF Echoing, Carries
    <3>4. Void'
      BY <1>1, <1>2, <1>6, <2>3, <3>1, <3>2, <3>3, Numbers DEF Echoing, Void
    <3> QED
      BY <1>5, <3>4 DEF InOrder, InRound
  <2> QED
    BY <1>2, <2>1, <2>2, <2>3, Numbers
<1>7. CASE Void
  <2>1. n = 0 /\ left["client"] = 0 /\ psize["client"] = 0 /\ stream' = stream
    BY <1>1, <1>5, <1>7, Numbers DEF Void
  <2>2. left'["client"] = 0 /\ msg'["client"] > 0
    BY <1>2, <1>7, <2>1, Numbers DEF Void
  <2>3. Void'
    BY <1>1, <1>2, <1>7, <2>1, <2>2 DEF Void, Carries, InFlight
  <2> QED
    BY <1>5, <2>3 DEF InOrder, InRound
<1> QED
  BY <1>1, <1>6, <1>7 DEF InOrder, InRound, Sending, Arriving, Returning

LEMMA ClientReadInOrder ==
  ASSUME TypeOK, TypeOK', InOrder, ClientRead
  PROVE  InOrder'
<1>1. PICK n \in Nat :
        /\ n <= left["client"] /\ n <= InFlight("client") /\ (n = 0 => left["client"] = 0)
        /\ MovesOn("client", "server", n)
        /\ op["client"] = "read" /\ psize'["server"] = psize["server"]
        /\ msg["client"] # 0 => psize' = psize
        /\ msg["client"] = 0 /\ n = left["client"] => psize'["client"] = psize["server"]
        /\ InFlight("client")' = InFlight("client") - n /\ InFlight("server")' = InFlight("server")
        /\ \A m : Carries("server", m) => Carries("server", m)'
        /\ \A m : Carries("client", m) =>
                     Carries("client", m)' /\ (m = msg["client"] => mixed' = mixed)
  BY ClientReadCall
<1>2. /\ msg'["server"] = msg["server"] /\ left'["server"] = left["server"] /\ op'["server"] = op["server"]
      /\ msg'["client"] = msg["client"]
      /\ \/ n < left["client"] /\ left'["client"] = left["client"] - n /\ op'["client"] = "read"
         \/ n = left["client"] /\ left'["client"] = Width("client", msg["client"]) /\ op'["client"] = "write"
  BY <1>1 DEF MovesOn, First, Second
<1>3. Carries("client", msg["server"]) => Carries("client", msg["server"])'
  BY <1>1, <1>2 DEF Carries
<1>4. Width("server", msg["server"])' = Width("server", msg["server"])
  BY <1>1, <1>2 DEF Width
<1>5. SizesAgree'
  BY <1>1, <1>2, Numbers DEF InOrder, SizesAgree, ReadingHeader
<1>6. Live => Live'
  BY <1>1, <1>2 DEF Live
<1>7. CASE Live /\ Sending
  <2>1. n < left["client"] /\ n > 0
    BY <1>1, <1>7, Numbers DEF Sending
  <2>2. Sending'
    BY <1>1, <1>2, <1>3, <1>7, <2>1, Numbers DEF Sending
  <2>3. mixed' = mixed
    BY <1>1, <1>7 DEF Sending
  <2> QED
    BY <1>5, <1>6, <1>7, <2>2, <2>3 DEF InOrder, InRound
<1>8. CASE Live /\ Arriving
  <2>1. mixed' = mixed
    BY <1>1, <1>8 DEF Arriving
  <2>2. CASE n < left["client"]
    <3>1. Arriving'
      BY <1>1, <1>2, <1>3, <1>4, <1>8, <2>2, Numbers DEF Arriving
    <3> QED
      BY <1>5, <1>6, <1>8, <2>1, <3>1 DEF InOrder, InRound
  <2>3. CASE n = left["client"]
    <3>1. InFlight("client")' = 0 /\ InFlight("server")' = 0
      BY <1>1, <1>8, <2>3, Numbers DEF Arriving
    <3>2. Carries("server", msg["server"])'
      <4>1. \A j \in 1 .. 0 : FALSE
        OBVIOUS
      <4> QED
        BY <3>1, <4>1 DEF InFlight, Carries
    <3>3. Width("client", msg["client"]) > 0 /\ Width("client", msg["client"]) = left["server"]
      <4>1. CASE msg["client"] = 0
        BY <1>8, <4>1, Numbers DEF Arriving
      <4>2. CASE msg["client"] # 0
        <5>1. psize["client"] = psize["server"] /\ psize["server"] > 0
          BY <1>8, <4>2 DEF InOrder, SizesAgree, ReadingHeader, Live
        <5> QED
          BY <1>8, <4>2, <5>1, Numbers DEF Arriving
      <4> QED
        BY <4>1, <4>2
    <3>4. Echoing'
      BY <1>1, <1>2, <1>8, <2>3, <3>1, <3>2, <3>3, Numbers DEF Arriving, Echoing
    <3> QED
      BY <1>5, <1>6, <1>8, <2>1, <3>4 DEF InOrder, InRound
  <2> QED
    BY <1>2, <2>2, <2>3
<1>9. ~(Live /\ Returning)
  <2> SUFFICES ASSUME Live, Returning PROVE FALSE
    OBVIOUS
  <2>1. n = 0 /\ left["client"] = 0 /\ msg["client"] > 0
    BY <1>1, Numbers DEF Returning
  <2>2. psize["client"] = psize["server"] /\ psize["server"] > 0
    BY <2>1, Numbers DEF InOrder, SizesAgree, ReadingHeader, Live
  <2> QED
    BY <2>1, <2>2, Numbers DEF Returning
<1>10. CASE Void
  <2>1. n = 0 /\ left["client"] = 0 /\ msg["client"] > 0 /\ psize' = psize
    <3>1. left["client"] = 0 /\ msg["client"] > 0
      BY <1>10 DEF Void
    <3>2. n = 0
      BY <1>1, <3>1
    <3>3. msg["client"] # 0
      BY <3>1, Numbers
    <3> QED
      BY <1>1, <3>1, <3>2, <3>3
  <2>2. psize["client"] = 0 /\ Carries("client", msg["client"])
    BY <1>10, <2>1, EmptyCarries, ProcFacts, Numbers DEF Void, InOrder, SizesAgree, ReadingHeader
  <2>3. left'["client"] = 0 /\ mixed' = mixed
    BY <1>1, <1>2, <2>1, <2>2, Numbers
  <2>4. InFlight("client")' = 0
    BY <1>1, <1>10, <2>1, Numbers DEF Void
  <2>5. Carries("server", 0) => Carries("server", 0)'
    BY <1>1
  <2>6. Void'
    BY <1>1, <1>2, <1>10, <2>1, <2>3, <2>4, <2>5 DEF Void
  <2> QED
    BY <1>5, <2>3, <2>6 DEF InOrder, InRound
<1> QED
  BY <1>1, <1>7, <1>8, <1>9, <1>10 DEF InOrder, InRound, Echoing

LEMMA ServerReadInOrder ==
  ASSUME TypeOK, TypeOK', InOrder, ServerRead
  PROVE  InOrder'
<1>1. PICK n \in Nat :
        /\ n <= left["server"] /\ n <= InFlight("server") /\ (n = 0 => left["server"] = 0)
        /\ \/ MovesOn("server", "client", n)
           \/ n = left["server"] /\ psize["client"] # psize["server"]
        /\ op["server"] = "read" /\ psize' = psize
        /\ InFlight("server")' = InFlight("server") - n /\ InFlight("client")' = InFlight("client")
        /\ \A m : Carries("client", m) => Carries("client", m)'
        /\ \A m : Carries("server", m) =>
                     Carries("server", m)' /\ (m = msg["server"] => mixed' = mixed)
  BY ServerReadCall
<1>2. ~Arriving \/ ~Live
  <2> SUFFICES ASSUME Arriving, Live PROVE FALSE
    OBVIOUS
  <2>1. left["server"] = 0 /\ left["server"] = Width("server", msg["server"])
    BY <1>1, Numbers DEF Arriving
  <2> QED
    BY <2>1, Numbers DEF Live, Arriving
<1>3. (Live /\ Echoing) \/ (Live /\ Returning) \/ Void
  BY <1>1, <1>2 DEF InOrder, InRound, Sending
<1>4. psize["client"] = psize["server"]
  BY <1>3, Numbers DEF InOrder, SizesAgree, ReadingHeader, Echoing, Returning, Void
<1>5. /\ msg'["client"] = msg["client"] /\ left'["client"] = left["client"] /\ op'["client"] = op["client"]
      /\ \/ /\ n < left["server"] /\ left'["server"] = left["server"] - n /\ op'["server"] = "read"
            /\ msg'["server"] = msg["server"]
         \/ /\ n = left["server"] /\ left'["server"] = Width("server", msg'["server"])
            /\ op'["server"] = "write" /\ msg'["server"] = msg["server"] + 1
  BY <1>1, <1>4 DEF MovesOn, First, Second
<1>6. SizesAgree' /\ (Live => Live')
  BY <1>1, <1>5 DEF InOrder, SizesAgree, ReadingHeader, Live
<1>7. Carries("server", msg["server"])
  BY <1>3, EmptyCarries, ProcFacts DEF Echoing, Returning, Void
<1>8. mixed' = mixed /\ (msg'["server"] = msg["server"] => Carries("server", msg["server"])')
  BY <1>1, <1>7 DEF Carries
<1>9. CASE Live /\ Echoing
  <2>1. n < left["server"] /\ n > 0
    BY <1>1, <1>9, Numbers DEF Echoing
  <2>2. Echoing'
    BY <1>1, <1>5, <1>8, <1>9, <2>1, Numbers DEF Echoing
  <2> QED
    BY <1>6, <1>8, <1>9, <2>2 DEF InOrder, InRound
<1>10. CASE Live /\ Returning
  <2>1. CASE n < left["server"]
    <3>1. Width("client", msg["client"])' = Width("client", msg["client"])
      BY <1>1, <1>5 DEF Width
    <3>2. Returning'
      BY <1>1, <1>5, <1>8, <1>10, <2>1, <3>1, Numbers DEF Returning
    <3> QED
      BY <1>6, <1>8, <1>10, <3>2 DEF InOrder, InRound
  <2>2. CASE n = left["server"]
    <3>1. InFlight("client")' = 0 /\ InFlight("server")' = 0
      BY <1>1, <1>10, <2>2, Numbers DEF Returning
    <3>2. Carries("client", msg["server"])'
      <4>1. \A j \in 1 .. 0 : FALSE
        OBVIOUS
      <4> QED
        BY <3>1, <4>1 DEF InFlight, Carries
    <3>3. msg["client"] > 0 /\ psize["server"] > 0 /\ left["client"] = psize["server"]
      BY <1>4, <1>10, Numbers DEF Returning, Live
    <3>4. left'["server"] = psize["server"]
      BY <1>5, <2>2, Numbers
    <3>5. Sending'
      BY <1>1, <1>5, <1>10, <2>2, <3>1, <3>2, <3>3, <3>4, Numbers DEF Returning, Sending
    <3> QED
      BY <1>6, <1>8, <1>10, <3>5 DEF InOrder, InRound
  <2> QED
    BY <1>5, <2>1, <2>2
<1>11. CASE Void
  <2>1. InFlight("client")' = 0
    BY <1>1, <1>11 DEF Void
  <2>2. CASE msg["server"] > 0
    <3>1. n = 0 /\ left["server"] = 0 /\ InFlight("server")' = 0
      BY <1>1, <1>11, <2>2, Numbers DEF Void
    <3>2. left'["server"] = 0 /\ msg'["server"] > 0
      BY <1>5, <1>11, <2>2, <3>1, Numbers DEF Void
    <3>3. Void'
      BY <1>1, <1>5, <1>11, <2>1, <3>1, <3>2 DEF Void
    <3> QED
      BY <1>6, <1>8, <3>3 DEF InOrder, InRound
  <2>3. CASE msg["server"] = 0 /\ n < left["server"]
    <3>1. InFlight("server")' <= left'["server"]
      BY <1>1, <1>5, <1>11, <2>3, Numbers DEF Void
    <3>2. Carries("server", 0)'
      BY <1>1, <1>7, <2>3
    <3>3. Void'
      BY <1>1, <1>5, <1>11, <2>1, <2>3, <3>1, <3>2, Numbers DEF Void
    <3> QED
      BY <1>6, <1>8, <3>3 DEF InOrder, InRound
  <2>4. CASE msg["server"] = 0 /\ n = left["server"]
    <3>1. InFlight("server")' = 0
      BY <1>1, <1>11, <2>4, Numbers DEF Void
    <3>2. left'["server"] = 0 /\ msg'["server"] > 0
      BY <1>5, <1>11, <2>4, Numbers DEF Void
    <3>3. Void'
      BY <1>1, <1>5, <1>11, <2>1, <3>1, <3>2 DEF Void
    <3> QED
      BY <1>6, <1>8, <3>3 DEF InOrder, InRound
  <2> QED
    BY <1>5, <2>2, <2>3, <2>4, Numbers
<1> QED
  BY <1>3, <1>9, <1>10, <1>11

\* A crash may lose bytes of a message, which only keeps its reader waiting.
LEMMA CrashInOrder ==
  ASSUME TypeOK, TypeOK', InOrder, NEW p \in Procs, Crash(p)
  PROVE  InOrder'
<1> DEFINE q == Other(p)
<1>1. PICK k \in 0 .. Len(stream[q]) : stream' = [stream EXCEPT ![q] = SubSeq(@, 1, k)]
  BY DEF Crash
<1>2. /\ q \in Procs /\ stream \in [Procs -> Seq(0 .. Trials)] /\ stream[q] \in Seq(0 .. Trials)
      /\ Len(stream[q]) \in Nat
  BY ProcFacts, NoBytes DEF TypeOK
<1>3. /\ Len(SubSeq(stream[q], 1, k)) = k
      /\ \A m : (\A j \in 1 .. Len(stream[q]) : stream[q][j] = m) =>
                  \A j \in 1 .. Len(SubSeq(stream[q], 1, k)) : SubSeq(stream[q], 1, k)[j] = m
  <2>1. 1 \in 1 .. Len(stream[q]) + 1 /\ 1 <= k + 1 /\ k - 1 + 1 = k
    BY <1>2
  <2> QED
    BY <1>2, <2>1, CutBytes
<1>4. stream'[q] = SubSeq(stream[q], 1, k) /\ \A r \in Procs : r # q => stream'[r] = stream[r]
  BY <1>1, <1>2
<1>5. ASSUME NEW r \in Procs
      PROVE  InFlight(r)' <= InFlight(r) /\ \A m : Carries(r, m) => Carries(r, m)'
  <2>1. Len(stream[r]) \in Nat
    BY NoBytes DEF TypeOK
  <2>2. CASE r = q
    BY <1>2, <1>3, <1>4, <2>2 DEF InFlight, Carries
  <2>3. CASE r # q
    BY <1>4, <2>1, <2>3 DEF InFlight, Carries
  <2> QED
    BY <2>2, <2>3
<1>6. /\ op' = op /\ msg' = msg /\ left' = left /\ psize' = psize /\ mixed' = mixed
      /\ InFlight("server")' <= InFlight("server") /\ InFlight("client")' <= InFlight("client")
      /\ \A m : Carries("server", m) => Carries("server", m)'
      /\ \A m : Carries("client", m) => Carries("client", m)'
  BY <1>5, ProcFacts DEF Crash, callVars
<1>7. /\ InFlight("server")' \in Nat /\ InFlight("client")' \in Nat
      /\ InFlight("server") \in Nat /\ InFlight("client") \in Nat
      /\ left["server"] \in Nat /\ left["client"] \in Nat
  BY ProcFacts, NoBytes DEF TypeOK, InFlight
<1>8. SizesAgree' /\ ~mixed' /\ (Live => Live')
  BY <1>6 DEF InOrder, SizesAgree, ReadingHeader, Live
<1>9. /\ Carries("client", msg["server"]) => Carries("client", msg["server"])'
      /\ Carries("server", msg["server"]) => Carries("server", msg["server"])'
      /\ Carries("server", 0) => Carries("server", 0)'
  BY <1>6 DEF Carries
<1>10. Sending => Sending'
  BY <1>6, <1>7, <1>9 DEF Sending
<1>11. Arriving => Arriving'
  <2>1. Width("server", msg["server"])' = Width("server", msg["server"])
    BY <1>6 DEF Width
  <2> QED
    BY <1>6, <1>7, <1>9, <2>1 DEF Arriving
<1>12. Echoing => Echoing'
  BY <1>6, <1>7, <1>9 DEF Echoing
<1>13. Returning => Returning'
  <2>1. Width("client", msg["client"])' = Width("client", msg["client"])
    BY <1>6 DEF Width
  <2> QED
    BY <1>6, <1>7, <1>9, <2>1 DEF Returning
<1>14. Void => Void'
  BY <1>6, <1>7, <1>9 DEF Void
<1> QED
  BY <1>8, <1>10, <1>11, <1>12, <1>13, <1>14 DEF InOrder, InRound

LEMMA RoundInit == Init => RoundInv
<1> SUFFICES ASSUME Init PROVE RoundInv
  OBVIOUS
<1>1. /\ InFlight("server") = 0 /\ InFlight("client") = 0 /\ Header \in Nat \ {0}
      /\ left["server"] = Header /\ left["client"] = Header
      /\ op["server"] = "write" /\ op["client"] = "read"
      /\ msg["server"] = 0 /\ msg["client"] = 0
  BY ProcFacts, EmptySeq DEF Init, InFlight, First
<1>2. Carries("client", 0)
  BY TypeInit, EmptyCarries, ProcFacts, <1>1
<1>3. Live /\ Sending
  BY <1>1, <1>2 DEF Live, Sending
<1> QED
  BY <1>1, <1>3 DEF Init, RoundInv, SizesAgree, ReadingHeader, InRound

LEMMA RoundStep == TypeOK /\ TypeOK' /\ RoundInv /\ [Next]_vars => RoundInv'
<1> SUFFICES ASSUME TypeOK, TypeOK', RoundInv, [Next]_vars, errors' = 0 PROVE InOrder'
  BY DEF RoundInv, InOrder
<1>1. CASE UNCHANGED <<callVars, psize, stream, mixed>> /\ errors = 0
  BY <1>1 DEF RoundInv, InOrder, callVars, SizesAgree, ReadingHeader, InRound, Live, Sending,
              Arriving, Echoing, Returning, Void, InFlight, Carries, Width
<1>2. CASE /\ errors' = errors
           /\ \/ Write("server") \/ Write("client") \/ ClientRead \/ ServerRead
              \/ \E p \in Procs : Crash(p)
  BY <1>2, ServerWriteInOrder, ClientWriteInOrder, ClientReadInOrder, ServerReadInOrder,
     CrashInOrder DEF RoundInv, InOrder
<1>3. CASE \E p \in Procs : SetupError(p) \/ CallError(p)
  <2>1. errors' = errors + 1 /\ errors \in Nat
    BY <1>3 DEF SetupError, CallError, TypeOK
  <2> QED
    BY <2>1
<1>4. CASE Listen \/ Connect \/ Accept \/ UNCHANGED vars
           \/ \E p \in Procs : WriteBroken(p) \/ ReadEof(p)
  <2>1. UNCHANGED <<callVars, psize, stream, mixed>> /\ errors' = errors
    BY <1>4 DEF Listen, Connect, Accept, vars, callVars, WriteBroken, ReadEof
  <2> QED
    BY <1>1, <2>1
<1>5. /\ Write("server") \/ Write("client") \/ ClientRead \/ ServerRead => errors' = errors
      /\ \A p \in Procs : Crash(p) => errors' = errors
  BY DEF Write, ClientRead, ServerRead, Crash
<1> QED
  BY <1>2, <1>3, <1>4, <1>5, ProcFacts DEF Next, Server, Client, Stopped

\* Whatever the packet size and the buffers, and however the kernel splits the
\* calls, no read_full takes a byte of another message while no call has failed.
THEOREM MessagesAreFramed == Spec => []Framing
<1>1. RoundInv => Framing
  BY DEF RoundInv, Framing
<1> QED
  BY TypeCorrect, RoundInit, RoundStep, <1>1, PTL DEF Spec

-----------------------------------------------------------------------------
(* The server does not overtake the client, even when a call fails *)

\* The bytes of the messages before m, those of message m that were echoed, and
\* all that the server has read, or the client written, by its own account: an
\* error makes the server forget some and the client believe in more.
Before(p, m) == IF m = 0 THEN 0 ELSE Header + (m - 1) * psize[p]
Part(p) == IF op[p] = Second(p) THEN Width(p, msg[p]) - left[p] ELSE 0
Echoed(p) == Before(p, msg[p]) + Part(p)
EchoInv == /\ Echoed("server") + InFlight("server") <= Echoed("client")
           /\ Width("client", msg["client"]) > 0 => left["client"] > 0

LEMMA BeforeNext ==
  ASSUME TypeOK, NEW p \in Procs, NEW m \in Nat
  PROVE  /\ Before(p, m) \in Nat /\ Width(p, m) \in Nat
         /\ Before(p, m + 1) = Before(p, m) + Width(p, m)
<1>1. psize[p] \in Nat /\ Header \in Nat
  BY ProcFacts DEF TypeOK
<1>2. CASE m = 0
  <2>1. (m + 1) - 1 = 0 /\ 0 * psize[p] = 0
    BY <1>1, <1>2
  <2> QED
    BY <1>1, <1>2, <2>1 DEF Before, Width
<1>3. CASE m # 0
  <2> DEFINE k == m - 1
  <2>1. k \in Nat /\ m + 1 # 0 /\ (m + 1) - 1 = k + 1
    BY <1>3
  <2>2. (k + 1) * psize[p] = k * psize[p] + psize[p] /\ k * psize[p] \in Nat
    BY <1>1, <2>1
  <2>3. Before(p, m + 1) = Header + (k + 1) * psize[p] /\ Before(p, m) = Header + k * psize[p]
    BY <1>3, <2>1 DEF Before
  <2> QED
    BY <1>1, <1>3, <2>2, <2>3 DEF Width
<1> QED
  BY <1>2, <1>3

\* Bytes of a message that comes later are behind those of all before it.
LEMMA BeforeGrows ==
  ASSUME TypeOK, NEW p \in Procs, NEW m \in Nat, NEW k \in Nat, m < k
  PROVE  Before(p, m) + Width(p, m) <= Before(p, k)
<1>1. psize[p] \in Nat /\ Header \in Nat
  BY ProcFacts DEF TypeOK
<1>2. CASE m = 0
  <2>1. k - 1 \in Nat
    BY <1>2
  <2>2. (k - 1) * psize[p] \in Nat
    BY <1>1, <2>1
  <2>3. Before(p, k) = Header + (k - 1) * psize[p]
    BY <1>2 DEF Before
  <2> QED
    BY <1>1, <1>2, <2>2, <2>3 DEF Before, Width
<1>3. CASE m # 0
  <2>1. PICK d \in Nat : k - 1 = m + d
    <3>1. k - 1 - m \in Nat /\ k - 1 = m + (k - 1 - m)
      OBVIOUS
    <3> QED
      BY <3>1
  <2>2. (m + d) * psize[p] = m * psize[p] + d * psize[p] /\ d * psize[p] \in Nat
        /\ m * psize[p] \in Nat
    BY <1>1
  <2>3. Before(p, k) = Header + (m + d) * psize[p]
    BY <1>3, <2>1 DEF Before
  <2>4. Before(p, m + 1) = Header + m * psize[p]
    BY <1>3 DEF Before
  <2>5. Before(p, m + 1) = Before(p, m) + Width(p, m)
    BY BeforeNext
  <2> QED
    BY <1>1, <2>2, <2>3, <2>4, <2>5
<1> QED
  BY <1>2, <1>3

LEMMA EchoNumbers ==
  ASSUME TypeOK, NEW p \in Procs
  PROVE  /\ Before(p, msg[p]) \in Nat /\ Width(p, msg[p]) \in Nat /\ msg[p] \in Nat
         /\ left[p] \in Nat /\ left[p] <= Width(p, msg[p])
         /\ Part(p) \in Nat /\ Part(p) <= Width(p, msg[p]) /\ Echoed(p) \in Nat
<1>1. msg[p] \in Nat /\ left[p] \in Nat /\ left[p] <= Width(p, msg[p])
  BY ProcFacts DEF TypeOK
<1>2. Before(p, msg[p]) \in Nat /\ Width(p, msg[p]) \in Nat
  BY <1>1, BeforeNext
<1> QED
  BY <1>1, <1>2 DEF Part, Echoed

\* The account of a program whose calls do not move, of one that reads or writes
\* n bytes on, and of one that does so in its second call.
LEMMA EchoedRests ==
  ASSUME TypeOK, NEW p \in Procs, msg'[p] = msg[p], op'[p] = op[p], left'[p] = left[p],
         psize'[p] = psize[p] \/ msg[p] = 0
  PROVE  Echoed(p)' = Echoed(p) /\ Width(p, msg[p])' = Width(p, msg[p])
<1>1. Width(p, msg[p])' = Width(p, msg[p])
  BY DEF Width
<1>2. Before(p, msg[p])' = Before(p, msg[p])
  BY DEF Before
<1> QED
  BY <1>1, <1>2 DEF Echoed, Part

LEMMA EchoedMoves ==
  ASSUME TypeOK, NEW p \in Procs, NEW q \in Procs, q = Other(p), NEW n \in Nat, n <= left[p],
         MovesOn(p, q, n), psize'[p] = psize[p] \/ (msg[p] = 0 /\ op[p] = First(p)),
         psize'[q] = psize[q]
  PROVE  /\ Echoed(q)' = Echoed(q)
         /\ op[p] = First(p) => Echoed(p)' = Echoed(p)
         /\ op[p] = Second(p) => Echoed(p)' = Echoed(p) + n
         /\ Width(p, msg[p])' > 0 => left'[p] > 0
<1>1. First(p) # Second(p) /\ q # p
  BY ProcFacts DEF First, Second, Other
<1>2. /\ Before(p, msg[p]) \in Nat /\ Width(p, msg[p]) \in Nat /\ msg[p] \in Nat
      /\ left[p] \in Nat /\ left[p] <= Width(p, msg[p])
  BY EchoNumbers
<1>3. Echoed(q)' = Echoed(q)
  BY EchoedRests DEF MovesOn
<1>4. CASE n < left[p] /\ left'[p] = left[p] - n /\ msg'[p] = msg[p] /\ op'[p] = op[p]
  <2>1. Width(p, msg[p])' = Width(p, msg[p]) /\ Before(p, msg[p])' = Before(p, msg[p])
    BY <1>4 DEF Width, Before
  <2>2. left'[p] > 0 /\ Part(p)' = IF op[p] = Second(p) THEN Part(p) + n ELSE Part(p)
    BY <1>2, <1>4, <2>1 DEF Part
  <2>3. Part(p) \in Nat
    BY EchoNumbers
  <2> QED
    BY <1>1, <1>2, <1>3, <2>1, <2>2, <2>3 DEF Echoed
<1>5. CASE /\ n = left[p] /\ left'[p] = Width(p, msg'[p])
           /\ op[p] = First(p) /\ op'[p] = Second(p) /\ msg'[p] = msg[p]
  <2>1. Width(p, msg[p])' = Width(p, msg[p]) /\ Before(p, msg[p])' = Before(p, msg[p])
    BY <1>5 DEF Width, Before
  <2>2. left'[p] = Width(p, msg[p])' /\ Part(p) = 0 /\ Part(p)' = 0
    BY <1>1, <1>2, <1>5, <2>1 DEF Part
  <2> QED
    BY <1>1, <1>3, <1>5, <2>1, <2>2 DEF Echoed
<1>6. CASE /\ n = left[p] /\ left'[p] = Width(p, msg'[p])
           /\ op[p] = Second(p) /\ op'[p] = First(p) /\ msg'[p] = msg[p] + 1
  <2>1. psize'[p] = psize[p]
    BY <1>1, <1>6
  <2>2. Width(p, msg[p])' = Width(p, msg[p] + 1) /\ Before(p, msg[p])' = Before(p, msg[p] + 1)
    BY <1>6, <2>1 DEF Width, Before
  <2>3. Before(p, msg[p] + 1) = Before(p, msg[p]) + Width(p, msg[p])
    BY <1>2, BeforeNext
  <2>4. Part(p) + n = Width(p, msg[p]) /\ Part(p)' = 0 /\ Part(p) \in Nat
    BY <1>1, <1>2, <1>6, EchoNumbers DEF Part
  <2>5. left'[p] = Width(p, msg[p])'
    BY <1>6, <2>2
  <2>6. Echoed(p)' = Before(p, msg[p]) + Width(p, msg[p])
    BY <1>2, <2>2, <2>3, <2>4 DEF Echoed
  <2>7. Echoed(p) + n = Before(p, msg[p]) + Width(p, msg[p])
    BY <1>2, <2>4 DEF Echoed
  <2> QED
    BY <1>1, <1>3, <1>6, <2>5, <2>6, <2>7
<1> QED
  BY <1>4, <1>5, <1>6 DEF MovesOn

\* No step lets the server account for more than was sent to it.
LEMMA EchoInvStep == TypeOK /\ TypeOK' /\ EchoInv /\ [Next]_vars => EchoInv'
<1> SUFFICES ASSUME TypeOK, TypeOK', EchoInv, [Next]_vars PROVE EchoInv'
  OBVIOUS
<1>1. /\ "server" \in Procs /\ "client" \in Procs
      /\ Other("server") = "client" /\ Other("client") = "server"
      /\ First("server") = "write" /\ Second("server") = "read"
      /\ First("client") = "read" /\ Second("client") = "write"
  BY ProcFacts DEF First, Second
<1>2. /\ Echoed("server") \in Nat /\ Echoed("client") \in Nat
      /\ InFlight("server") \in Nat
      /\ left["server"] \in Nat /\ left["client"] \in Nat
  BY <1>1, EchoNumbers, Numbers
<1>3. InFlight("server")' \in Nat
  BY NoBytes DEF TypeOK, InFlight, Procs
<1>4. ASSUME Echoed("server")' <= Echoed("server"), Echoed("client")' = Echoed("client"),
             Echoed("server")' \in Nat, InFlight("server")' <= InFlight("server"),
             Width("client", msg["client"])' > 0 => left'["client"] > 0
      PROVE  EchoInv'
  BY <1>2, <1>3, <1>4 DEF EchoInv
<1>5. CASE UNCHANGED <<callVars, psize>> /\ InFlight("server")' <= InFlight("server")
  <2>1. /\ Echoed("server")' = Echoed("server") /\ Echoed("client")' = Echoed("client")
        /\ Width("client", msg["client"])' = Width("client", msg["client"])
    BY <1>1, <1>5, EchoedRests DEF callVars
  <2> QED
    BY <1>2, <1>4, <1>5, <2>1 DEF EchoInv, callVars
<1>6. CASE Write("server")
  <2>1. PICK n \in Nat :
          /\ n <= left["server"] /\ MovesOn("server", "client", n)
          /\ op["server"] = "write" /\ psize' = psize
          /\ InFlight("server")' = InFlight("server")
    BY <1>1, <1>6, WriteCall
  <2>2. Echoed("client")' = Echoed("client") /\ Echoed("server")' = Echoed("server")
    BY <1>1, <2>1, EchoedMoves
  <2>3. Width("client", msg["client"])' = Width("client", msg["client"])
    BY <1>1, <2>1, EchoedRests DEF MovesOn
  <2>4. left'["client"] = left["client"]
    BY <2>1 DEF MovesOn
  <2> QED
    BY <1>2, <1>4, <2>1, <2>2, <2>3, <2>4 DEF EchoInv
<1>7. CASE Write("client")
  <2>1. PICK n \in Nat :
          /\ n <= left["client"] /\ MovesOn("client", "server", n)
          /\ op["client"] = "write" /\ psize' = psize
          /\ InFlight("server")' = InFlight("server") + n
    BY <1>1, <1>7, WriteCall
  <2>2. /\ Echoed("server")' = Echoed("server") /\ Echoed("client")' = Echoed("client") + n
        /\ Width("client", msg["client"])' > 0 => left'["client"] > 0
    BY <1>1, <2>1, EchoedMoves
  <2> QED
    BY <1>2, <2>1, <2>2 DEF EchoInv
<1>8. CASE ClientRead
  <2>1. PICK n \in Nat :
          /\ n <= left["client"] /\ MovesOn("client", "server", n)
          /\ op["client"] = "read" /\ psize'["server"] = psize["server"]
          /\ msg["client"] # 0 => psize' = psize
          /\ InFlight("server")' = InFlight("server")
    BY <1>8, ClientReadCall
  <2>2. /\ Echoed("server")' = Echoed("server") /\ Echoed("client")' = Echoed("client")
        /\ Width("client", msg["client"])' > 0 => left'["client"] > 0
    BY <1>1, <2>1, EchoedMoves
  <2> QED
    BY <1>2, <1>4, <2>1, <2>2
<1>9. CASE ServerRead
  <2>1. PICK n \in Nat :
          /\ n <= left["server"] /\ n <= InFlight("server")
          /\ \/ MovesOn("server", "client", n)
             \/ UNCHANGED callVars
          /\ op["server"] = "read" /\ psize' = psize
          /\ InFlight("server")' = InFlight("server") - n
    BY <1>9, ServerReadCall
  <2>2. CASE UNCHANGED callVars
    BY <1>2, <1>5, <2>1, <2>2
  <2>3. CASE MovesOn("server", "client", n)
    <3>1. Echoed("client")' = Echoed("client") /\ Echoed("server")' = Echoed("server") + n
      BY <1>1, <2>1, <2>3, EchoedMoves
    <3>2. Width("client", msg["client"])' = Width("client", msg["client"])
          /\ left'["client"] = left["client"]
      BY <1>1, <2>1, <2>3, EchoedRests DEF MovesOn
    <3> QED
      BY <1>2, <2>1, <3>1, <3>2 DEF EchoInv
  <2> QED
    BY <2>1, <2>2, <2>3
<1>10. CASE CallError("server")
  <2>1. psize' = psize /\ InFlight("server")' = InFlight("server") /\ phase["server"] = "running"
    BY <1>10 DEF CallError, InFlight
  <2>2. CASE UNCHANGED callVars
    BY <1>2, <1>5, <2>1, <2>2
  <2>3. CASE /\ msg["server"] > 0 /\ op["server"] = "read"
             /\ left' = [left EXCEPT !["server"] = psize["server"]] /\ UNCHANGED <<op, msg>>
    <3>1. /\ left'["server"] = psize["server"] /\ left'["client"] = left["client"]
          /\ Width("server", msg["server"])' = psize["server"] /\ psize["server"] \in Nat
      BY <1>1, <2>1, <2>3 DEF TypeOK, Width
    <3>2. Part("server")' = 0 /\ Part("server") \in Nat /\ Before("server", msg["server"]) \in Nat
      BY <1>1, <2>3, <3>1, EchoNumbers DEF Part
    <3>3. Before("server", msg["server"])' = Before("server", msg["server"])
      BY <2>1, <2>3 DEF Before
    <3>4. /\ Echoed("client")' = Echoed("client")
          /\ Width("client", msg["client"])' = Width("client", msg["client"])
      BY <1>1, <2>1, <2>3, <3>1, EchoedRests
    <3>5. Echoed("server")' <= Echoed("server") /\ Echoed("server")' \in Nat
      BY <3>2, <3>3 DEF Echoed
    <3> QED
      BY <1>2, <1>4, <2>1, <3>1, <3>4, <3>5 DEF EchoInv
  <2>4. CASE op["server"] = "write" /\ Continue("server")
    <3>1. MovesOn("server", "client", left["server"])
      BY <1>1, <2>1, <2>4, ContinueStep DEF MovesOn, Other
    <3>2. Echoed("client")' = Echoed("client") /\ Echoed("server")' = Echoed("server")
      BY <1>1, <1>2, <2>1, <2>4, <3>1, EchoedMoves
    <3>3. Width("client", msg["client"])' = Width("client", msg["client"])
          /\ left'["client"] = left["client"]
      BY <1>1, <2>1, <3>1, EchoedRests DEF MovesOn
    <3> QED
      BY <1>2, <1>4, <2>1, <3>2, <3>3 DEF EchoInv
  <2> QED
    BY <1>10, <2>2, <2>3, <2>4 DEF CallError
<1>11. CASE CallError("client")
  <2>1. /\ psize' = psize /\ InFlight("server")' = InFlight("server") /\ phase["client"] = "running"
        /\ Continue("client")
    BY <1>11 DEF CallError, InFlight
  <2>2. MovesOn("client", "server", left["client"])
    BY <1>1, <2>1, ContinueStep DEF MovesOn
  <2>3. op["client"] \in {"read", "write"}
    BY <1>1 DEF TypeOK
  <2>4. /\ Echoed("server")' = Echoed("server")
        /\ \/ Echoed("client")' = Echoed("client")
           \/ Echoed("client")' = Echoed("client") + left["client"]
        /\ Width("client", msg["client"])' > 0 => left'["client"] > 0
    BY <1>1, <1>2, <2>1, <2>2, <2>3, EchoedMoves
  <2> QED
    BY <1>2, <2>1, <2>4 DEF EchoInv
<1>12. ASSUME NEW p \in Procs, Crash(p) PROVE EchoInv'
  <2>1. PICK k \in 0 .. Len(stream[Other(p)]) :
          stream' = [stream EXCEPT ![Other(p)] = SubSeq(@, 1, k)]
    BY <1>12 DEF Crash
  <2>2. stream \in [Procs -> Seq(0 .. Trials)] /\ Other(p) \in Procs
        /\ Len(stream[Other(p)]) \in Nat
    BY ProcFacts, NoBytes DEF TypeOK
  <2>3. Len(SubSeq(stream[Other(p)], 1, k)) = k
    <3>1. 1 \in 1 .. Len(stream[Other(p)]) + 1 /\ 1 <= k + 1 /\ k - 1 + 1 = k
      BY <2>2
    <3>2. stream[Other(p)] \in Seq(0 .. Trials)
      BY <2>2
    <3> QED
      BY <2>2, <3>1, <3>2, CutBytes
  <2>4. InFlight("server")' <= InFlight("server")
    BY <1>2, <2>1, <2>2, <2>3 DEF InFlight, Procs
  <2> QED
    BY <1>5, <1>12, <2>4 DEF Crash
<1>13. CASE UNCHANGED <<callVars, psize, stream>>
  BY <1>2, <1>5, <1>13 DEF InFlight
<1>14. CASE Listen \/ Connect \/ Accept \/ UNCHANGED vars
            \/ \E p \in Procs : SetupError(p) \/ WriteBroken(p) \/ ReadEof(p)
  BY <1>13, <1>14 DEF Listen, Connect, Accept, vars, callVars, SetupError, WriteBroken, ReadEof
<1> QED
  BY <1>6, <1>7, <1>8, <1>9, <1>10, <1>11, <1>12, <1>14, ProcFacts
     DEF Next, Server, Client, Stopped, Procs

LEMMA EchoInvInit == Init => EchoInv
<1> SUFFICES ASSUME Init PROVE EchoInv
  OBVIOUS
<1>1. /\ InFlight("server") = 0 /\ Header \in Nat \ {0}
      /\ left["server"] = Header /\ left["client"] = Header
      /\ op["server"] = "write" /\ op["client"] = "read"
      /\ msg["server"] = 0 /\ msg["client"] = 0
  BY ProcFacts, EmptySeq DEF Init, InFlight, First
<1> QED
  BY <1>1 DEF EchoInv, Echoed, Before, Part, Second, Width

\* The server counts no trial that the client has not sent back, whatever call
\* has failed and whoever was killed, and without failures the client is at most
\* one message ahead.
THEOREM TrialsAreEchoed == Spec => []Lockstep
<1>1. TypeOK /\ HandshakeInv /\ EchoInv /\ RoundInv => Lockstep
  <2> SUFFICES ASSUME TypeOK, HandshakeInv, EchoInv, RoundInv, psize["server"] > 0
               PROVE  /\ msg["server"] <= msg["client"]
                      /\ errors = 0 => msg["client"] <= msg["server"] + 1
    BY DEF Lockstep
  <2>1. msg["server"] <= msg["client"]
    <3> SUFFICES ASSUME msg["client"] < msg["server"] PROVE FALSE
      BY Numbers
    <3>1. psize["client"] = psize["server"]
      BY Numbers DEF HandshakeInv, HandshakeAgreed
    <3>2. Width("client", msg["client"]) > 0
      BY <3>1, Numbers DEF Width
    <3>3. left["client"] > 0
      BY <3>2 DEF EchoInv
    <3>4. Echoed("client") < Before("client", msg["client"]) + Width("client", msg["client"])
      BY <3>2, <3>3, EchoNumbers, ProcFacts DEF Echoed, Part
    <3>5. Before("client", msg["client"]) + Width("client", msg["client"])
            <= Before("client", msg["server"])
      BY BeforeGrows, Numbers, ProcFacts
    <3>6. Before("client", msg["server"]) = Before("server", msg["server"])
      BY <3>1 DEF Before
    <3>7. Before("server", msg["server"]) <= Echoed("server")
      BY EchoNumbers, ProcFacts DEF Echoed
    <3>8. Echoed("server") <= Echoed("client")
      BY EchoNumbers, ProcFacts, Numbers DEF EchoInv
    <3>9. /\ Echoed("client") \in Nat /\ Echoed("server") \in Nat
          /\ Before("client", msg["client"]) \in Nat /\ Width("client", msg["client"]) \in Nat
          /\ Before("server", msg["server"]) \in Nat
      BY EchoNumbers, ProcFacts
    <3> QED
      BY <3>4, <3>5, <3>6, <3>7, <3>8, <3>9
  <2>2. errors = 0 => msg["client"] <= msg["server"] + 1
    BY Numbers DEF RoundInv, InRound, Sending, Arriving, Echoing, Returning, Void
  <2> QED
    BY <2>1, <2>2
<1> QED
  BY TypeCorrect, HandshakeInit, HandshakeStep, RoundInit, RoundStep, EchoInvInit, EchoInvStep,
     <1>1, PTL DEF Spec

-----------------------------------------------------------------------------
(* The refinement of EchoRounds *)

\* No more calls fail than may.
ErrorBudget == errors <= MaxErrors

LEMMA BudgetInit == Init => ErrorBudget
  BY FaultsAssumption DEF Init, ErrorBudget

LEMMA BudgetStep == TypeOK /\ ErrorBudget /\ [Next]_vars => ErrorBudget'
<1> SUFFICES ASSUME TypeOK, ErrorBudget, [Next]_vars PROVE ErrorBudget'
  OBVIOUS
<1>1. \/ errors' = errors
      \/ errors < MaxErrors /\ errors' = errors + 1
  BY DEF Next, Server, Client, Stopped, Listen, Connect, Accept, Write, ClientRead, ServerRead,
         WriteBroken, ReadEof, SetupError, CallError, Crash, vars
<1>2. errors \in Int /\ MaxErrors \in Int
  BY FaultsAssumption DEF TypeOK
<1> QED
  BY <1>1, <1>2 DEF ErrorBudget

\* The state functions that EchoRounds sees, and how each call moves them.
Points == <<msg["server"] + Halfway("server"), msg["client"] + Halfway("client"),
            msg["client"], msg["server"]>>

LEMMA EchoStep ==
  ASSUME TypeOK, TypeOK', InOrder, psize["server"] > 0, [Next]_vars,
         ~ \E p \in Procs : SetupError(p) \/ CallError(p)
  PROVE  Promise!Next \/ UNCHANGED Points
<1>0. /\ Live /\ (Sending \/ Arriving \/ Echoing \/ Returning)
      /\ "server" \in Procs /\ "client" \in Procs /\ Trials \in Nat
  BY Numbers, ProcFacts DEF InOrder, InRound, Void, Live
<1> USE DEF Points, Promise!Next, Promise!Send, Promise!Receive, Promise!Echo, Promise!Hear
<1>1. CASE UNCHANGED callVars
  BY <1>1 DEF callVars, Halfway
<1>2. CASE Write("server")
  <2>1. /\ msg'["server"] = msg["server"] /\ msg'["client"] = msg["client"]
        /\ op["server"] = "write" /\ op'["client"] = op["client"]
        /\ op'["server"] \in {"write", "read"}
    BY <1>2, WriteCall, ProcFacts DEF MovesOn, First, Second
  <2>2. msg["server"] \in 0 .. Trials
    BY <1>0, <1>2, RunningTrial DEF Write, Calls
  <2>3. Halfway("server") = 0 /\ Halfway("client")' = Halfway("client")
    BY <2>1 DEF Halfway, First, Second
  <2>4. CASE op'["server"] = "write"
    BY <2>1, <2>3, <2>4 DEF Halfway, Second
  <2>5. CASE op'["server"] = "read"
    <3>1. Halfway("server")' = 1
      BY <2>5 DEF Halfway, Second
    <3> QED
      BY <1>0, <2>1, <2>2, <2>3, <3>1
  <2> QED
    BY <2>1, <2>4, <2>5
<1>3. CASE ClientRead
  <2>1. PICK n \in Nat :
          /\ n <= InFlight("client") /\ (n = 0 => left["client"] = 0)
          /\ MovesOn("client", "server", n) /\ op["client"] = "read"
    BY <1>3, ClientReadCall
  <2>2. /\ msg'["server"] = msg["server"] /\ msg'["client"] = msg["client"]
        /\ op'["server"] = op["server"]
        /\ op'["client"] = "read" \/ (op'["client"] = "write" /\ n = left["client"])
    BY <2>1 DEF MovesOn, First, Second
  <2>3. Halfway("client") = 0 /\ Halfway("server")' = Halfway("server")
    BY <2>1, <2>2 DEF Halfway, Second
  <2>4. CASE op'["client"] = "read"
    BY <2>2, <2>3, <2>4 DEF Halfway, Second
  <2>5. CASE op'["client"] = "write" /\ n = left["client"]
    <3>1. Halfway("client")' = 1
      BY <2>5 DEF Halfway, Second
    <3>2. ~Sending
      BY <2>1, <2>5, Numbers DEF Sending
    <3>3. ~Returning
      <4> SUFFICES ASSUME Returning PROVE FALSE
        OBVIOUS
      <4>1. left["client"] = 0 /\ msg["client"] > 0
        BY <2>1, <2>5, Numbers DEF Returning
      <4>2. psize["client"] = psize["server"]
        BY <4>1, Numbers DEF InOrder, SizesAgree, ReadingHeader
      <4> QED
        BY <4>1, <4>2, Numbers DEF Returning
    <3>4. Arriving
      BY <1>0, <2>1, <3>2, <3>3 DEF Echoing
    <3>5. Halfway("server") = 1 /\ msg["client"] = msg["server"]
      BY <3>4 DEF Arriving, Halfway, Second
    <3> QED
      BY <2>2, <2>3, <3>1, <3>5, Numbers
  <2> QED
    BY <2>2, <2>4, <2>5
<1>4. CASE Write("client")
  <2>1. /\ msg'["server"] = msg["server"] /\ op'["server"] = op["server"] /\ op["client"] = "write"
        /\ \/ op'["client"] = "write" /\ msg'["client"] = msg["client"]
           \/ op'["client"] = "read" /\ msg'["client"] = msg["client"] + 1
    BY <1>4, WriteCall, ProcFacts DEF MovesOn, First, Second
  <2>2. Halfway("client") = 1 /\ Halfway("server")' = Halfway("server")
    BY <2>1 DEF Halfway, Second
  <2>3. CASE op'["client"] = "write" /\ msg'["client"] = msg["client"]
    BY <2>1, <2>2, <2>3 DEF Halfway, Second
  <2>4. CASE op'["client"] = "read" /\ msg'["client"] = msg["client"] + 1
    <3>1. Halfway("client")' = 0
      BY <2>4 DEF Halfway, Second
    <3> QED
      BY <2>1, <2>2, <2>4, <3>1, Numbers
  <2> QED
    BY <2>1, <2>3, <2>4
<1>5. CASE ServerRead
  <2>1. PICK n \in Nat :
          /\ n <= InFlight("server") /\ (n = 0 => left["server"] = 0)
          /\ \/ MovesOn("server", "client", n)
             \/ n = left["server"] /\ psize["client"] # psize["server"]
          /\ op["server"] = "read"
    BY <1>5, ServerReadCall
  <2>2. Live /\ (Echoing \/ Returning)
    <3>1. ~Arriving
      <4> SUFFICES ASSUME Arriving PROVE FALSE
        OBVIOUS
      <4>1. left["server"] = 0 /\ left["server"] = Width("server", msg["server"])
        BY <2>1, Numbers DEF Arriving
      <4> QED
        BY <4>1, Numbers
    <3> QED
      BY <1>0, <2>1, <3>1 DEF Sending
  <2>3. psize["client"] = psize["server"]
    BY <2>2, Numbers DEF InOrder, SizesAgree, ReadingHeader, Echoing, Returning
  <2>4. /\ msg'["client"] = msg["client"] /\ op'["client"] = op["client"]
        /\ \/ op'["server"] = "read" /\ msg'["server"] = msg["server"]
           \/ op'["server"] = "write" /\ msg'["server"] = msg["server"] + 1 /\ n = left["server"]
    BY <2>1, <2>3 DEF MovesOn, First, Second
  <2>5. Halfway("server") = 1 /\ Halfway("client")' = Halfway("client")
    BY <2>1, <2>4 DEF Halfway, Second
  <2>6. CASE op'["server"] = "read" /\ msg'["server"] = msg["server"]
    BY <2>4, <2>5, <2>6 DEF Halfway, Second
  <2>7. CASE op'["server"] = "write" /\ msg'["server"] = msg["server"] + 1 /\ n = left["server"]
    <3>1. Halfway("server")' = 0
      BY <2>7 DEF Halfway, Second
    <3>2. Returning
      BY <2>1, <2>2, <2>7, Numbers DEF Echoing
    <3>3. msg["client"] = msg["server"] + 1
      BY <3>2 DEF Returning
    <3> QED
      BY <2>4, <2>5, <2>7, <3>1, <3>3, Numbers
  <2> QED
    BY <2>4, <2>6, <2>7
<1>6. CASE Listen \/ Connect \/ Accept \/ UNCHANGED vars
           \/ \E p \in Procs : WriteBroken(p) \/ ReadEof(p) \/ Crash(p)
  <2>1. UNCHANGED callVars
    BY <1>6 DEF Listen, Connect, Accept, vars, callVars, WriteBroken, ReadEof, Crash
  <2> QED
    BY <1>1, <2>1
<1> QED
  BY <1>2, <1>3, <1>4, <1>5, <1>6, ProcFacts DEF Next, Server, Client, Stopped

\* While no call fails, and packets have bytes, the two programs implement
\* EchoRounds, however the bytes move and whoever is killed.
THEOREM RefinesEchoRounds ==
  ASSUME MaxErrors = 0, 0 \notin Sizes
  PROVE  Spec => EchoesInRounds
<1>1. Init => Promise!Init
  BY ProcFacts DEF Init, Promise!Init, Halfway, First, Second
<1>2. TypeOK /\ TypeOK' /\ RoundInv /\ ErrorBudget /\ ErrorBudget' /\ [Next]_vars
        => [Promise!Next]_Promise!rounds
  <2> SUFFICES ASSUME TypeOK, TypeOK', RoundInv, ErrorBudget, ErrorBudget', [Next]_vars
               PROVE  [Promise!Next]_Promise!rounds
    OBVIOUS
  <2>1. errors = 0 /\ errors' = 0
    BY DEF ErrorBudget, TypeOK
  <2>2. InOrder
    BY <2>1 DEF RoundInv, InOrder
  <2>3. psize["server"] > 0
    <3>1. psize["server"] \in Sizes /\ psize["server"] # 0
      BY DEF TypeOK
    <3>2. psize["server"] \in Nat
      BY Numbers
    <3> QED
      BY <3>1, <3>2
  <2>4. ~ \E p \in Procs : SetupError(p) \/ CallError(p)
    BY <2>1 DEF SetupError, CallError
  <2>5. Promise!Next \/ UNCHANGED Points
    BY <2>2, <2>3, <2>4, EchoStep
  <2> QED
    BY <2>5 DEF Points, Promise!rounds
<1> QED
  BY TypeCorrect, BudgetInit, BudgetStep, RoundInit, RoundStep, <1>1, <1>2, PTL
     DEF Spec, EchoesInRounds, Promise!Spec

=============================================================================
