------------------------ MODULE DecompressionProofs ------------------------
(***************************************************************************)
(* The parts of the decompressor, whatever the stream: IncrementalCopy     *)
(* stores nothing outside the buffer and leaves what a copy byte by byte   *)
(* leaves, and the calls that uncompress a whole buffer read one length    *)
(* twice alike, store nothing behind the destination, and succeed for the  *)
(* legal streams.                                                          *)
(***************************************************************************)
EXTENDS MCDecompression, WriterProofs, TLAPS

(***************************************************************************)
(* IncrementalCopy.                                                        *)
(***************************************************************************)
\* A step that stores n bytes taken "distance" bytes before op, of a memory that
\* has the period up to op, leaves one that has it up to op + n: the distance is
\* a multiple of the period, and no byte is taken from among the n.
LEMMA PeriodGrows ==
  ASSUME NEW m, NEW next, NEW first \in Nat, NEW at \in Nat, NEW p \in Nat \ {0},
         NEW d \in Nat, NEW n \in Nat,
         p <= first, first <= at,
         d \in {p, 2 * p, 4 * p, 8 * p}, n <= d, first <= at - d + p,
         \A i \in first .. at - 1 : m[i] = m[i - p],
         \A i \in 0 .. at - 1 : next[i] = m[i],
         \A i \in at .. at + n - 1 : next[i] = m[i - d]
  PROVE  \A i \in first .. at + n - 1 : next[i] = next[i - p]
<1> TAKE i \in first .. at + n - 1
<1>0. i \in Int /\ first <= i /\ i <= at + n - 1
  OBVIOUS
<1>1. CASE i < at
  <2>1. next[i] = m[i]
    BY <1>0, <1>1
  <2>2. m[i] = m[i - p]
    BY <1>0, <1>1
  <2>3. i - p \in 0 .. at - 1
    BY <1>0, <1>1
  <2>4. next[i - p] = m[i - p]
    BY <2>3
  <2> QED
    BY <2>1, <2>2, <2>4
<1>2. CASE i >= at
  <2>1. next[i] = m[i - d]
    BY <1>0, <1>2
  <2>2. \A j \in Int : first <= j /\ j < at => m[j] = m[j - p]
    OBVIOUS
  <2>3. CASE i - p >= at
    <3>1. next[i - p] = m[i - p - d]
      BY <1>0, <2>3
    <3>2. first <= i - d /\ i - d < at
      BY <1>0, <2>3
    <3>3. m[i - d] = m[i - d - p]
      BY <2>2, <3>2
    <3>4. i - p - d = i - d - p
      BY <1>0
    <3> QED
      BY <2>1, <3>1, <3>3, <3>4
  <2>4. CASE i - p < at
    <3>1. next[i - p] = m[i - p]
      BY <1>0, <1>2, <2>4
    <3>2. CASE d = p
      BY <2>1, <3>1, <3>2
    <3>3. CASE d = 2 * p
      <4>1. first <= i - p
        BY <1>0, <1>2, <3>3
      <4>2. m[i - p] = m[i - p - p]
        BY <2>2, <4>1, <2>4, <1>0
      <4>3. i - p - p = i - d
        BY <1>0, <3>3
      <4> QED
        BY <2>1, <3>1, <4>2, <4>3
    <3>4. CASE d = 4 * p
      <4>1. first <= i - p /\ first <= i - 2 * p /\ first <= i - 3 * p
        BY <1>0, <1>2, <3>4
      <4>2. /\ m[i - p] = m[i - p - p]
            /\ m[i - 2 * p] = m[i - 2 * p - p]
            /\ m[i - 3 * p] = m[i - 3 * p - p]
        BY <2>2, <4>1, <2>4, <1>0
      <4>3. /\ i - p - p = i - 2 * p /\ i - 2 * p - p = i - 3 * p
            /\ i - 3 * p - p = i - d
        BY <1>0, <3>4
      <4> QED
        BY <2>1, <3>1, <4>2, <4>3
    <3>5. CASE d = 8 * p
      <4>1. /\ first <= i - p /\ first <= i - 2 * p /\ first <= i - 3 * p
            /\ first <= i - 4 * p /\ first <= i - 5 * p /\ first <= i - 6 * p
            /\ first <= i - 7 * p
        BY <1>0, <1>2, <3>5
      <4>2. /\ m[i - p] = m[i - p - p] /\ m[i - 2 * p] = m[i - 2 * p - p]
            /\ m[i - 3 * p] = m[i - 3 * p - p] /\ m[i - 4 * p] = m[i - 4 * p - p]
            /\ m[i - 5 * p] = m[i - 5 * p - p] /\ m[i - 6 * p] = m[i - 6 * p - p]
            /\ m[i - 7 * p] = m[i - 7 * p - p]
        BY <2>2, <4>1, <2>4, <1>0
      <4>3. /\ i - p - p = i - 2 * p /\ i - 2 * p - p = i - 3 * p
            /\ i - 3 * p - p = i - 4 * p /\ i - 4 * p - p = i - 5 * p
            /\ i - 5 * p - p = i - 6 * p /\ i - 6 * p - p = i - 7 * p
            /\ i - 7 * p - p = i - d
        BY <1>0, <3>5
      <4> QED
        BY <2>1, <3>1, <4>2, <4>3
    <3> QED
      BY <3>2, <3>3, <3>4, <3>5
  <2> QED
    BY <2>3, <2>4, <1>0
<1> QED
  BY <1>0, <1>1, <1>2

\* UnalignedCopy64 within a memory of "size" bytes.
LEMMA Copy64Stores ==
  ASSUME NEW m, NEW size \in Nat, DOMAIN m = 0 .. size - 1,
         NEW source \in Nat, NEW to \in Nat, to + 8 <= size
  PROVE  /\ DOMAIN Copy64(m, source, to) = 0 .. size - 1
         /\ \A i \in 0 .. to - 1 : Copy64(m, source, to)[i] = m[i]
         /\ \A i \in to .. to + 7 : Copy64(m, source, to)[i] = m[i - (to - source)]
<1>1. (0 .. size - 1) \cup (to .. to + 7) = 0 .. size - 1
  OBVIOUS
<1>2. \A i \in to .. to + 7 : source + (i - to) = i - (to - source)
  OBVIOUS
<1> QED
  BY <1>1, <1>2 DEF Copy64

\* What the invariant says of a memory m that is copied up to "at".
Holds(m, size, first, at, p) == /\ DOMAIN m = 0 .. size - 1
                                /\ \A i \in 0 .. first - 1 : m[i] = i
                                /\ \A i \in first .. at - 1 : m[i] = m[i - p]

\* A step that stores 8 bytes at "at" and counts n of them.
LEMMA Copy64Keeps ==
  ASSUME NEW m, NEW size \in Nat, NEW first \in Nat, NEW at \in Nat, NEW p \in Nat \ {0},
         NEW d \in Nat, NEW n \in 0 .. 8,
         p <= first, first <= at, at + 8 <= size,
         d \in {p, 2 * p, 4 * p, 8 * p}, n <= d, d <= at, first <= at - d + p,
         Holds(m, size, first, at, p)
  PROVE  Holds(Copy64(m, at - d, at), size, first, at + n, p)
<1> DEFINE next == Copy64(m, at - d, at)
<1>1. at - d \in Nat
  OBVIOUS
<1>0. /\ DOMAIN m = 0 .. size - 1
      /\ \A i \in 0 .. first - 1 : m[i] = i
      /\ \A i \in first .. at - 1 : m[i] = m[i - p]
  BY DEF Holds
<1>2. /\ DOMAIN next = 0 .. size - 1
      /\ \A i \in 0 .. at - 1 : next[i] = m[i]
      /\ \A i \in at .. at + 7 : next[i] = m[i - (at - (at - d))]
  BY <1>0, <1>1, Copy64Stores, SMTT(30)
<1>3. \A i \in at .. at + n - 1 : next[i] = m[i - d]
  <2> TAKE i \in at .. at + n - 1
  <2>1. i \in at .. at + 7 /\ i - (at - (at - d)) = i - d
    OBVIOUS
  <2> QED
    BY <1>2, <2>1
<1>4. n \in Nat
  OBVIOUS
<1>5. \A i \in 0 .. first - 1 : i \in 0 .. at - 1
  OBVIOUS
<1> HIDE DEF next
<1>6. \A i \in first .. at + n - 1 : next[i] = next[i - p]
  <2>1. \A i \in first .. at - 1 : m[i] = m[i - p]
    BY <1>0
  <2>2. \A i \in 0 .. at - 1 : next[i] = m[i]
    BY <1>2
  <2> QED
    BY <2>1, <2>2, <1>3, <1>4, PeriodGrows
<1>7. \A i \in 0 .. first - 1 : next[i] = i
  BY <1>0, <1>2, <1>5
<1> QED
  BY <1>2, <1>6, <1>7 DEF next, Holds

\* The two parts of IInv that Holds stands for.
LEMMA HoldsIs == /\ InsideBuffer /\ PatternSoFar <=> Holds(mem, bufLimit, start, op, period)
                 /\ InsideBuffer' /\ PatternSoFar'
                      <=> Holds(mem', bufLimit', start', op', period')
  BY DEF InsideBuffer, PatternSoFar, Holds

LEMMA InitHolds == CopyInit => IInv
<1> SUFFICES ASSUME CopyInit PROVE IInv
  OBVIOUS
<1>1. PICK count \in Lengths, slop \in Slops :
        opLimit = start + count /\ bufLimit = start + count + slop
  BY DEF CopyInit
<1>2. /\ count \in Nat /\ slop \in Nat /\ src \in Nat /\ period \in Nat \ {0}
      /\ start = src + period /\ op = start /\ pattern = period
  BY CopiesAssumption DEF CopyInit
<1>3. DOMAIN mem = 0 .. bufLimit - 1 /\ \A i \in 0 .. bufLimit - 1 : mem[i] = i
  BY DEF CopyInit
<1>4. CopyTypeOK
  BY <1>1, <1>2, <1>3 DEF CopyTypeOK, CopyInit
<1>5. InsideBuffer
  BY <1>1, <1>2, <1>3 DEF InsideBuffer
<1>6. Distance /\ Room
  BY <1>1, <1>2 DEF Distance, Room, CopyInit
<1>7. PatternSoFar
  BY <1>2 DEF PatternSoFar
<1> QED
  BY <1>4, <1>5, <1>6, <1>7 DEF IInv

LEMMA StepHolds == IInv /\ [CopyNext]_copyVars => IInv'
<1> SUFFICES ASSUME IInv, [CopyNext]_copyVars PROVE IInv'
  OBVIOUS
<1>i. CopyTypeOK /\ InsideBuffer /\ Distance /\ Room /\ PatternSoFar
  BY DEF IInv
<1>m. Holds(mem, bufLimit, start, op, period)
  BY <1>i, HoldsIs
<1>t. /\ src \in Nat /\ op \in Nat /\ opLimit \in Nat /\ bufLimit \in Nat
      /\ start \in Nat /\ period \in Nat \ {0} /\ pattern \in Nat \ {0}
  BY <1>i DEF CopyTypeOK
<1>d. PICK d \in Nat : /\ d = op - src /\ d \in {period, 2 * period, 4 * period, 8 * period}
                       /\ src = op - d /\ d <= op /\ start <= op - d + period
                       /\ period <= start /\ start <= op
  <2>1. op - src \in Nat
    BY <1>i, <1>t DEF Distance
  <2> QED
    BY <1>i, <2>1, <1>t DEF Distance, Room
<1>1. CASE Begin
  <2>1. CopyTypeOK' /\ InsideBuffer' /\ PatternSoFar'
    BY <1>i, <1>1, <1>t DEF Begin, limits, CopyTypeOK, InsideBuffer, PatternSoFar
  <2>2. Distance'
    BY <1>i, <1>1, <1>t DEF Begin, limits, Distance, CopyTypeOK
  <2>3. Room'
    BY <1>i, <1>1, <1>t DEF Begin, limits, Room, Distance
  <2> QED
    BY <2>1, <2>2, <2>3 DEF IInv
<1>2. CASE Expand
  <2>1. /\ step = "expand" /\ pattern < 8 /\ pattern = d /\ src + period = start
        /\ start <= bufLimit - 14 /\ opLimit <= bufLimit
    BY <1>i, <1>2, <1>d DEF Expand, limits, Distance, Room
  <2>2. /\ mem' = Copy64(mem, op - d, op) /\ op' = op + d /\ pattern' = d * 2 /\ src' = src
        /\ UNCHANGED <<step, opLimit, bufLimit, start, period>>
    BY <1>i, <1>2, <1>d, <2>1 DEF Expand, limits
  <2>3. op + 8 <= bufLimit /\ d \in 0 .. 8 /\ op + d <= bufLimit
    BY <2>1, <1>t, <1>d
  <2>4. Holds(mem', bufLimit', start', op', period')
    <3>1. d <= d /\ op + 8 <= bufLimit
      BY <2>3
    <3>2. Holds(Copy64(mem, op - d, op), bufLimit, start, op + d, period)
      BY <2>3, <3>1, <1>t, <1>d, <1>m, Copy64Keeps
    <3> QED
      BY <3>2, <2>2
  <2>5. InsideBuffer' /\ PatternSoFar'
    BY <2>4, HoldsIs
  <2>6. CopyTypeOK'
    <3>1. pattern' \in 1 .. 14 /\ op' \in Nat
      BY <2>1, <2>2, <1>t, <1>d
    <3> QED
      BY <2>1, <2>2, <2>5, <3>1, <1>t DEF CopyTypeOK, InsideBuffer
  <2>7. d \in {period, 2 * period, 4 * period}
    BY <2>1, <1>d, <1>t
  <2>8. Distance'
    BY <2>1, <2>2, <2>7, <1>d, <1>t DEF Distance
  <2>9. Room'
    BY <2>1, <2>2, <2>3, <1>d, <1>t DEF Room
  <2> QED
    BY <2>5, <2>6, <2>8, <2>9 DEF IInv
<1>3. CASE Expanded
  <2>1. CopyTypeOK' /\ InsideBuffer' /\ PatternSoFar'
    BY <1>i, <1>3, <1>t DEF Expanded, limits, CopyTypeOK, InsideBuffer, PatternSoFar
  <2>2. Distance' /\ Room'
    BY <1>i, <1>3, <1>t DEF Expanded, limits, Distance, Room
  <2> QED
    BY <2>1, <2>2 DEF IInv
<1>4. CASE TwoCopies
  <2>1. /\ step = "blocks" /\ op + 16 <= bufLimit /\ d >= 8 /\ opLimit <= bufLimit
    BY <1>i, <1>4, <1>d, <1>t DEF TwoCopies, limits, Distance, Room
  <2>2. /\ mem' = Copy64(Copy64(mem, op - d, op), src + 8, op + 8)
        /\ op' = op + 16 /\ src' = src + 16 /\ pattern' = pattern
        /\ step' \in {"blocks", "done"} /\ (step' = "done" => op' >= opLimit)
        /\ UNCHANGED <<opLimit, bufLimit, start, period>>
    BY <1>i, <1>4, <1>d DEF TwoCopies, limits
  <2> DEFINE once == Copy64(mem, op - d, op)
  <2>3. op + 8 <= bufLimit /\ 8 \in 0 .. 8 /\ 8 <= d
    BY <2>1, <1>t, <1>d
  <2>4. Holds(once, bufLimit, start, op + 8, period)
    BY <2>3, <1>t, <1>d, <1>m, Copy64Keeps
  <2> HIDE DEF once
  <2> DEFINE at == op + 8
  <2>5. /\ at \in Nat /\ start <= at /\ at + 8 <= bufLimit /\ d <= at
        /\ start <= at - d + period /\ src + 8 = at - d /\ at + 8 = op'
    BY <2>1, <2>2, <1>t, <1>d
  <2>6. mem' = Copy64(once, at - d, at) /\ Holds(once, bufLimit, start, at, period)
    BY <2>2, <2>4, <2>5 DEF once
  <2> HIDE DEF at
  <2>7. Holds(mem', bufLimit', start', op', period')
    <3>1. Holds(mem', bufLimit, start, at + 8, period)
      BY <2>3, <2>5, <2>6, <1>t, <1>d, Copy64Keeps
    <3> QED
      BY <3>1, <2>2, <2>5
  <2>8. InsideBuffer' /\ PatternSoFar'
    BY <2>7, HoldsIs
  <2>9. CopyTypeOK'
    BY <2>2, <2>8, <1>i, <1>t DEF CopyTypeOK, InsideBuffer
  <2>10. src' \in Nat /\ op' - src' = op - src /\ op' = op + 16 /\ op' <= bufLimit
    BY <2>1, <2>2, <1>t
  <2>11. Distance'
    BY <2>1, <2>2, <2>10, <1>i, <1>d, <1>t DEF Distance
  <2>12. Room'
    BY <2>1, <2>2, <2>10, <1>d, <1>t DEF Room
  <2> QED
    BY <2>8, <2>9, <2>11, <2>12 DEF IInv
<1>5. CASE LastCopy
  <2>1. CASE op <= bufLimit - 8
    <3>1. /\ step = "blocks" /\ d >= 8 /\ opLimit <= bufLimit /\ op + 8 <= bufLimit
      BY <1>i, <1>5, <2>1, <1>d, <1>t DEF LastCopy, limits, Distance, Room
    <3>2. /\ mem' = Copy64(mem, op - d, op) /\ op' = op + 8 /\ src' = src + 8
          /\ pattern' = pattern /\ step' = "bytes"
          /\ UNCHANGED <<opLimit, bufLimit, start, period>>
      BY <1>i, <1>5, <2>1, <1>d DEF LastCopy, limits
    <3>3. 8 \in 0 .. 8 /\ 8 <= d
      BY <3>1
    <3>4. Holds(mem', bufLimit', start', op', period')
      BY <3>1, <3>2, <3>3, <1>t, <1>d, <1>m, Copy64Keeps
    <3>5. InsideBuffer' /\ PatternSoFar'
      BY <3>4, HoldsIs
    <3>6. CopyTypeOK'
      BY <3>2, <3>5, <1>i, <1>t DEF CopyTypeOK, InsideBuffer
    <3>7. src' \in Nat /\ op' - src' = op - src /\ op' <= bufLimit
      BY <3>1, <3>2, <1>t
    <3>8. Distance'
      BY <3>2, <3>7, <1>i, <1>d, <1>t DEF Distance
    <3>9. Room'
      BY <3>1, <3>2, <3>7, <1>d, <1>t DEF Room
    <3> QED
      BY <3>5, <3>6, <3>8, <3>9 DEF IInv
  <2>2. CASE ~(op <= bufLimit - 8)
    <3>1. CopyTypeOK' /\ InsideBuffer' /\ PatternSoFar'
      BY <1>i, <1>5, <2>2, <1>t DEF LastCopy, limits, CopyTypeOK, InsideBuffer, PatternSoFar
    <3>2. Distance' /\ Room'
      BY <1>i, <1>5, <2>2, <1>t DEF LastCopy, limits, Distance, Room
    <3> QED
      BY <3>1, <3>2 DEF IInv
  <2> QED
    BY <2>1, <2>2 DEF IInv
<1>6. CASE CopyByte
  <2>1. step = "bytes" /\ op < opLimit /\ opLimit <= bufLimit
    BY <1>i, <1>6 DEF CopyByte, limits, Room
  <2>2. /\ mem' = [mem EXCEPT ![op] = mem[src]] /\ op' = op + 1 /\ src' = src + 1
        /\ pattern' = pattern /\ step' = "bytes"
        /\ UNCHANGED <<opLimit, bufLimit, start, period>>
    BY <1>i, <1>6 DEF CopyByte, limits
  <2>3. op \in DOMAIN mem /\ DOMAIN mem' = 0 .. bufLimit - 1 /\ src = op - d
    BY <2>1, <2>2, <1>i, <1>t, <1>d DEF InsideBuffer
  <2>4. \A i \in 0 .. op - 1 : mem'[i] = mem[i]
    BY <2>1, <2>2, <1>i, <1>t DEF InsideBuffer
  <2>5. \A i \in op .. op + 1 - 1 : mem'[i] = mem[i - d]
    <3>1. mem'[op] = mem[op - d]
      BY <2>2, <2>3
    <3>2. \A i \in op .. op + 1 - 1 : i = op
      BY <1>t
    <3> QED
      BY <3>1, <3>2
  <2>6. \A i \in start .. op + 1 - 1 : mem'[i] = mem'[i - period]
    <3>1. 1 \in Nat /\ 1 <= d
      BY <1>d, <1>t
    <3>2. \A i \in start .. op - 1 : mem[i] = mem[i - period]
      BY <1>i DEF PatternSoFar
    <3> QED
      BY <2>4, <2>5, <3>1, <3>2, <1>t, <1>d, PeriodGrows
  <2>7. \A i \in 0 .. start - 1 : mem'[i] = i
    BY <2>4, <1>i, <1>t, <1>d DEF InsideBuffer
  <2>8. InsideBuffer' /\ PatternSoFar'
    BY <2>2, <2>3, <2>6, <2>7 DEF InsideBuffer, PatternSoFar
  <2>9. CopyTypeOK'
    BY <2>2, <2>8, <1>i, <1>t DEF CopyTypeOK, InsideBuffer
  <2>10. src' \in Nat /\ op' - src' = op - src /\ op' <= bufLimit
    BY <2>1, <2>2, <1>t
  <2>11. Distance'
    BY <2>2, <2>10, <1>i, <1>d, <1>t DEF Distance
  <2>12. Room'
    BY <2>1, <2>2, <2>10, <1>d, <1>t DEF Room
  <2> QED
    BY <2>8, <2>9, <2>11, <2>12 DEF IInv
<1>7. CASE CopyEnd
  <2>1. CopyTypeOK' /\ InsideBuffer' /\ PatternSoFar'
    BY <1>i, <1>7, <1>t DEF CopyEnd, limits, CopyTypeOK, InsideBuffer, PatternSoFar
  <2>2. Distance' /\ Room'
    BY <1>i, <1>7, <1>t DEF CopyEnd, limits, Distance, Room
  <2> QED
    BY <2>1, <2>2 DEF IInv
<1>8. CASE UNCHANGED copyVars
  BY <1>i, <1>8 DEF IInv, limits, copyVars, CopyTypeOK, InsideBuffer, Distance, Room, PatternSoFar
<1> QED
  BY <1>1, <1>2, <1>3, <1>4, <1>5, <1>6, <1>7, <1>8 DEF CopyNext, CopyOver, IInv

\* IInv holds in every state.
THEOREM Invariance == CopySpec => []IInv
  BY InitHolds, StepHolds, PTL DEF CopySpec

\* CopyTypeOK, for all patterns, lengths and slops.
THEOREM TypeCorrect == CopySpec => []CopyTypeOK
<1>1. IInv => CopyTypeOK
  BY DEF IInv
<1> QED
  BY <1>1, Invariance, PTL

\* No store of IncrementalCopy leaves the buffer or reaches before the copy.
THEOREM StaysInside == CopySpec => []InsideBuffer
<1>1. IInv => InsideBuffer
  BY DEF IInv
<1> QED
  BY <1>1, Invariance, PTL

LEMMA CopyEnds == IInv => ResultIsPattern
BY DEF IInv, CopyTypeOK, Room, PatternSoFar, ResultIsPattern

\* IncrementalCopy gives what IncrementalCopySlow would.
THEOREM CopiesPattern == CopySpec => []ResultIsPattern
BY CopyEnds, Invariance, PTL

(***************************************************************************)
(* IncrementalCopy gets on: every step moves op on towards the end of the  *)
(* buffer or goes on to a later part of the function.                      *)
(***************************************************************************)
CopyRank == IF step = "begin" THEN 4
            ELSE IF step = "expand" THEN 3
            ELSE IF step = "blocks" THEN 2
            ELSE IF step = "bytes" THEN 1 ELSE 0
CopyToDo == (bufLimit - op) + CopyRank

LEMMA CopyToDoIs == IInv => CopyToDo \in Nat
<1> SUFFICES ASSUME IInv PROVE CopyToDo \in Nat
  OBVIOUS
<1>1. bufLimit \in Nat /\ op \in Nat /\ op <= bufLimit
  BY DEF IInv, CopyTypeOK, Room
<1>2. CopyRank \in 0 .. 4
  BY DEF CopyRank
<1> QED
  BY <1>1, <1>2 DEF CopyToDo

LEMMA FurtherOn ==
  \A b, o, p, r, q \in Int :
    (o <= p /\ q < r) \/ (o < p /\ q <= r) => (b - p) + q < (b - o) + r
OBVIOUS

LEMMA CopyLowers == IInv /\ [CopyNext]_copyVars => [CopyToDo' < CopyToDo]_copyVars
<1> SUFFICES ASSUME IInv, [CopyNext]_copyVars PROVE [CopyToDo' < CopyToDo]_copyVars
  OBVIOUS
<1>0. CopyToDo = (bufLimit - op) + CopyRank /\ CopyToDo' = (bufLimit' - op') + CopyRank'
  BY DEF CopyToDo
<1>1. /\ bufLimit \in Nat /\ op \in Nat /\ opLimit \in Nat /\ pattern \in Nat \ {0}
      /\ CopyRank \in 0 .. 4
  BY DEF IInv, CopyTypeOK, CopyRank
<1>2. ASSUME bufLimit' = bufLimit, op' = op, CopyRank' \in Nat, CopyRank' < CopyRank
      PROVE  CopyToDo' < CopyToDo
  <2>1. bufLimit \in Int /\ op \in Int /\ op <= op /\ CopyRank \in Int /\ CopyRank' \in Int
    BY <1>1, <1>2
  <2> QED
    BY <1>0, <1>2, <2>1, FurtherOn, Zenon
<1>3. ASSUME bufLimit' = bufLimit, op' \in Nat, op' > op, CopyRank' \in Nat, CopyRank' <= CopyRank
      PROVE  CopyToDo' < CopyToDo
  <2>1. /\ bufLimit \in Int /\ op \in Int /\ op' \in Int /\ op < op'
        /\ CopyRank \in Int /\ CopyRank' \in Int
    BY <1>1, <1>3
  <2> QED
    BY <1>0, <1>3, <2>1, FurtherOn, Zenon
<1>4. CASE Begin
  BY <1>2, <1>4 DEF Begin, limits, CopyRank
<1>5. CASE Expand
  <2>1. op' = op + pattern /\ bufLimit' = bufLimit /\ step = "expand" /\ step' = "expand"
    BY <1>5 DEF Expand, limits
  <2>2. CopyRank' = 3 /\ CopyRank = 3
    BY <2>1 DEF CopyRank
  <2> QED
    BY <1>1, <1>3, <2>1, <2>2
<1>6. CASE Expanded
  BY <1>2, <1>6 DEF Expanded, limits, CopyRank
<1>7. CASE TwoCopies
  <2>1. op' = op + 16 /\ bufLimit' = bufLimit /\ step = "blocks" /\ step' \in {"done", "blocks"}
    BY <1>7 DEF TwoCopies, limits
  <2>2. CopyRank' \in {0, 2} /\ CopyRank = 2
    BY <2>1 DEF CopyRank
  <2> QED
    BY <1>1, <1>3, <2>1, <2>2
<1>8. CASE LastCopy
  <2>1. op' \in {op, op + 8} /\ bufLimit' = bufLimit /\ step = "blocks" /\ step' = "bytes"
    BY <1>8 DEF LastCopy, limits
  <2>2. CopyRank' = 1 /\ CopyRank = 2
    BY <2>1 DEF CopyRank
  <2> QED
    BY <1>1, <1>2, <1>3, <2>1, <2>2
<1>9. CASE CopyByte
  <2>1. op' = op + 1 /\ bufLimit' = bufLimit /\ step = "bytes" /\ step' = "bytes"
    BY <1>9 DEF CopyByte, limits
  <2>2. CopyRank' = 1 /\ CopyRank = 1
    BY <2>1 DEF CopyRank
  <2> QED
    BY <1>1, <1>3, <2>1, <2>2
<1>10. CASE CopyEnd
  BY <1>2, <1>10 DEF CopyEnd, limits, CopyRank
<1>11. CASE UNCHANGED copyVars
  BY <1>11
<1> QED
  BY <1>4, <1>5, <1>6, <1>7, <1>8, <1>9, <1>10, <1>11 DEF CopyNext, CopyOver

\* IncrementalCopy cannot go on for ever: its first step has what is behind op
\* in the buffer and 4 to do, and every step makes that less, a pattern that is
\* doubled and blocks that are stored past the end of the copy included.
THEOREM TheCopyIsUsedUp == CopySpec => /\ CopyToDo = (bufLimit - op) + 4
                                       /\ [](CopyToDo \in Nat)
                                       /\ [][CopyToDo' < CopyToDo]_copyVars
<1>1. CopyInit => CopyToDo = (bufLimit - op) + 4
  BY DEF CopyInit, CopyToDo, CopyRank
<1> QED
  BY <1>1, InitHolds, StepHolds, CopyToDoIs, CopyLowers, PTL DEF CopySpec

-----------------------------------------------------------------------------
(***************************************************************************)
(* The inductive invariant.  While the length is read, what was read is    *)
(* the beginning of the header and every byte of it goes on; afterwards it *)
(* is the whole length.  The room was compared with the length that the    *)
(* other reader found.                                                     *)
(***************************************************************************)
GoesOn(n) == \A i \in 1 .. n : header[i] >= 128
IsRead(n) == \A i \in 1 .. n : result[i] = header[i] % 128
ReadPart == /\ pos = Len(result) /\ GoesOn(pos) /\ IsRead(pos)
ReadWhole == /\ pos = Len(result) /\ pos \in 1 .. 5 /\ header[pos] < 128
             /\ GoesOn(pos - 1) /\ IsRead(pos)
             /\ pos = 5 => header[5] < 16

CallBytes == /\ header \in Headers /\ header \in Seq(Byte) /\ body \in Bodies(header)
         /\ result \in Seq(Nat)
         /\ pos \in Nat /\ pos <= 5 /\ pos <= Len(header)
         /\ api \in Calls /\ room \in Nat
RoomIsEnough == /\ length = Parse(header)
                /\ room >= Value(length)
Before == {"length", "room", "read", "writer"}
Places == {"length", "room", "read", "writer", "tags", "end", "done"}
Rest(p) == p \in {"writer", "tags", "end"}

Reading == pc \in {"length", "room", "read"} => ReadPart
Chosen == /\ pc \in Before => writer = "none" /\ produced = 0
          /\ pc \in {"tags", "end"} => writer # "none"
Written == Rest(pc) => ReadWhole
Checked == api \in {"c", "string"} /\ pc \in {"read", "writer"} => RoomIsEnough
Refusing == pc = "done" /\ writer = "none" /\ status = "invalid" =>
              Parse(header) = None \/ api = "string"
Found == pc = "room" => length = Parse(header) /\ length # None

Inv == /\ CallBytes /\ pc \in Places
       /\ Reading /\ Chosen /\ Written /\ Checked /\ Found /\ Refusing
       /\ NeverOverrun

-----------------------------------------------------------------------------
LEMMA ByteType ==
  ASSUME NEW s \in Seq(Byte), NEW i \in 1 .. Len(s)
  PROVE  s[i] \in Int /\ s[i] >= 0
<1>1. \A b \in Byte : b \in Int /\ b >= 0
  BY DEF Byte
<1>2. QED
  BY <1>1

\* The first byte below 128 is the only end of a length.
LEMMA OneEnd ==
  ASSUME NEW s \in Seq(Byte), NEW j \in Ends(s), NEW k \in Ends(s)
  PROVE  j = k
<1>0. j \in 1 .. Len(s) /\ k \in 1 .. Len(s)
  BY DEF Ends
<1>1. /\ j \in Nat /\ k \in Nat /\ s[j] < 128 /\ s[k] < 128 /\ j >= 1 /\ k >= 1
      /\ \A i \in 1 .. j - 1 : s[i] >= 128
      /\ \A i \in 1 .. k - 1 : s[i] >= 128
  BY DEF Ends
<1>a. s[j] \in Int /\ s[k] \in Int
  BY <1>0, ByteType
<1>2. ~(j < k)
  <2> SUFFICES ASSUME j < k PROVE FALSE
    OBVIOUS
  <2>1. j \in 1 .. k - 1
    BY <1>1
  <2>2. s[j] >= 128
    BY <1>1, <2>1
  <2>3. QED
    BY <1>1, <1>a, <2>2
<1>3. ~(k < j)
  <2> SUFFICES ASSUME k < j PROVE FALSE
    OBVIOUS
  <2>1. k \in 1 .. j - 1
    BY <1>1
  <2>2. s[k] >= 128
    BY <1>1, <2>1
  <2>3. QED
    BY <1>1, <1>a, <2>2
<1>4. QED
  BY <1>1, <1>2, <1>3

\* Parse32WithLimit finds the digits up to a legal end.
LEMMA ParseIs ==
  ASSUME NEW s \in Seq(Byte), NEW k \in Ends(s), k < 5 \/ (k = 5 /\ s[5] < 16)
  PROVE  Parse(s) = [i \in 1 .. 5 |-> IF i <= k THEN s[i] % 128 ELSE 0]
<1>1. Fits32(s)
  BY DEF Fits32
<1>2. (CHOOSE j \in Ends(s) : TRUE) = k
  BY OneEnd
<1>3. QED
  BY <1>1, <1>2 DEF Parse

\* It finds none if five bytes go on, if there is no end, or if the fifth byte
\* is too large.
LEMMA ParseNot ==
  ASSUME NEW s \in Seq(Byte),
         \A k \in Ends(s) : ~(k < 5 \/ (k = 5 /\ s[5] < 16))
  PROVE  Parse(s) = None
BY DEF Parse, Fits32

\* What was read to its end is what Parse32WithLimit finds.
LEMMA ReadersAgree ==
  ASSUME CallBytes, ReadWhole
  PROVE  Parse(header) = Digits /\ pos \in Ends(header)
<1>1. pos \in 1 .. Len(header)
  BY DEF CallBytes, ReadWhole
<1>2. pos \in Ends(header)
  BY <1>1 DEF Ends, ReadWhole, GoesOn
<1>3. pos < 5 \/ (pos = 5 /\ header[5] < 16)
  BY DEF ReadWhole
<1>4. header \in Seq(Byte)
  BY DEF CallBytes
<1>5. Parse(header) = [i \in 1 .. 5 |-> IF i <= pos THEN header[i] % 128 ELSE 0]
  BY <1>2, <1>3, <1>4, ParseIs
<1>6. Digits = [i \in 1 .. 5 |-> IF i <= pos THEN header[i] % 128 ELSE 0]
  <2>1. pos = Len(result) /\ IsRead(pos) /\ pos \in Nat
    BY DEF ReadWhole, CallBytes
  <2>2. \A i \in 1 .. 5 : i <= pos => result[i] = header[i] % 128
    BY <2>1 DEF IsRead
  <2>3. QED
    BY <2>1, <2>2 DEF Digits
<1>7. QED
  BY <1>2, <1>5, <1>6

LEMMA InitInv == Init => Inv
<1> SUFFICES ASSUME Init PROVE Inv
  OBVIOUS
<1>1. header \in Seq(Byte)
  BY HeadersAssumption DEF Init
<1>2. CallBytes /\ pc \in Places
  BY <1>1, RoomsAssumption DEF Init, CallBytes, Places
<1>3. ReadPart
  BY DEF Init, ReadPart, GoesOn, IsRead
<1>4. Reading /\ Chosen /\ Written /\ Checked /\ Found /\ Refusing /\ NeverOverrun
  BY <1>3 DEF Init, Reading, Chosen, Written, Checked, Found, Refusing, NeverOverrun, Rest, Calls,
                  Before
<1>5. QED
  BY <1>2, <1>4 DEF Inv

LEMMA ValueType ==
  ASSUME NEW d, d[1] \in Nat, d[2] \in Nat, d[3] \in Nat, d[4] \in Nat, d[5] \in Nat
  PROVE  Value(d) \in Nat
<1> DEFINE a == 128 * d[2]
           b == 16384 * d[3]
           c == 2097152 * d[4]
           e == 268435456 * d[5]
<1>1. a \in Nat /\ b \in Nat /\ c \in Nat /\ e \in Nat
  BY SMT
<1>2. d[1] + a + b + c + e \in Nat
  <2> HIDE DEF a, b, c, e
  <2>1. QED
    BY <1>1, SMT
<1>3. Huge \in Nat
  BY SMT DEF Huge
<1>4. QED
  BY <1>2, <1>3, SMT DEF Value

\* The length that is found is a number.
LEMMA ParseType ==
  ASSUME NEW s \in Seq(Byte), Parse(s) # None
  PROVE  Value(Parse(s)) \in Nat /\ Fits32(s)
<1>1. Fits32(s)
  BY DEF Parse
<1>2. PICK k \in Ends(s) : k < 5 \/ (k = 5 /\ s[5] < 16)
  BY <1>1 DEF Fits32
<1>3. Parse(s) = [i \in 1 .. 5 |-> IF i <= k THEN s[i] % 128 ELSE 0]
  BY <1>2, ParseIs
<1>4. k \in Nat /\ k <= Len(s) /\ Len(s) \in Nat
  BY DEF Ends
<1>5. ASSUME NEW i \in 1 .. 5 PROVE Parse(s)[i] \in Nat
  <2>1. CASE i <= k
    <3>1. i \in 1 .. Len(s)
      BY <1>4, <2>1
    <3>2. s[i] \in Nat
      BY <3>1, ByteType
    <3>3. QED
      BY <1>3, <2>1, <3>2
  <2>2. CASE ~(i <= k)
    BY <1>3, <2>2
  <2>3. QED
    BY <2>1, <2>2
<1>6. /\ Parse(s)[1] \in Nat /\ Parse(s)[2] \in Nat /\ Parse(s)[3] \in Nat
      /\ Parse(s)[4] \in Nat /\ Parse(s)[5] \in Nat
  BY <1>5
<1>7. QED
  BY <1>1, <1>6, ValueType

-----------------------------------------------------------------------------
(* The steps, one lemma for each action. *)

\* Whatever does not move the header or the place in it keeps both facts.
Still == UNCHANGED <<header, pos, result>>
LEMMA StillReads ==
  ASSUME Still
  PROVE  (ReadPart => ReadPart') /\ (ReadWhole => ReadWhole') /\ Digits' = Digits
BY DEF Still, ReadPart, ReadWhole, GoesOn, IsRead, Digits

LEMMA LengthStep ==
  ASSUME Inv, GetUncompressedLength
  PROVE  Inv'
<1>1. Still /\ UNCHANGED <<body, api, room, writer, produced>>
  BY DEF GetUncompressedLength, Still, call
<1>2. CallBytes' /\ pc' \in Places
  BY <1>1 DEF Inv, CallBytes, Still, Places, GetUncompressedLength, Return
<1>3. ReadPart'
  BY <1>1, StillReads DEF Inv, Reading, GetUncompressedLength
<1>4. /\ writer' = "none" /\ produced' = 0 /\ ~Rest(pc')
      /\ pc' \in {"room", "done"}
      /\ length' = Parse(header) /\ (pc' = "room" => length' # None)
      /\ pc' = "done" => Parse(header) = None
  BY <1>1 DEF Inv, Chosen, Before, GetUncompressedLength, Return, Rest
<1>5. Reading' /\ Chosen' /\ Written' /\ Checked' /\ NeverOverrun'
  BY <1>3, <1>4 DEF Reading, Chosen, Written, Checked, NeverOverrun
<1>6. Found' /\ Refusing'
  BY <1>1, <1>4 DEF Found, Refusing, Still
<1>7. QED
  BY <1>2, <1>5, <1>6 DEF Inv

LEMMA RoomStep ==
  ASSUME Inv, CheckRoom
  PROVE  Inv'
<1>1. Still /\ UNCHANGED <<body, api, length, writer, produced>>
  BY DEF CheckRoom, Still, call
<1>2. length = Parse(header) /\ length # None
  BY DEF Inv, Found, CheckRoom
<1>3. ReadPart'
  BY <1>1, StillReads DEF Inv, Reading, CheckRoom
<1>4. Value(length) \in Nat
  <2>1. header \in Seq(Byte)
    BY DEF Inv, CallBytes
  <2>2. QED
    BY <1>2, <2>1, ParseType
<1>5. CallBytes' /\ pc' \in Places
  <2>1. room' \in Nat /\ pc' \in Places
    BY <1>4 DEF Inv, CallBytes, Places, CheckRoom, Return
  <2>2. QED
    BY <1>1, <2>1 DEF Inv, CallBytes, Still
<1>6. /\ writer' = "none" /\ produced' = 0 /\ ~Rest(pc')
      /\ pc' \in {"read", "done"}
      /\ pc' = "done" => status' = "too_small" \/ api = "string"
  BY <1>1 DEF Inv, Chosen, Before, CheckRoom, Return, Rest
<1>7. ASSUME pc' = "read", api \in {"c", "string"}
      PROVE  RoomIsEnough'
  <2>1. room' >= Value(length)
    <3>1. CASE api = "c"
      BY <1>7, <3>1 DEF CheckRoom, Return
    <3>2. CASE api = "string"
      <4>1. room' = Value(length)
        BY <1>7, <3>2 DEF CheckRoom, Return
      <4>2. QED
        BY <4>1, <1>4
    <3>3. QED
      BY <1>7, <3>1, <3>2
  <2>2. QED
    BY <1>1, <1>2, <2>1 DEF RoomIsEnough, Still
<1>8. Checked'
  BY <1>1, <1>6, <1>7 DEF Checked
<1>9. Reading' /\ Chosen' /\ Written' /\ Found' /\ NeverOverrun'
  BY <1>3, <1>6 DEF Reading, Chosen, Written, Found, NeverOverrun
<1>10. Refusing'
  BY <1>1, <1>6 DEF Refusing
<1>11. QED
  BY <1>5, <1>8, <1>9, <1>10 DEF Inv

\* The bytes of a length that was refused are no length for Parse32WithLimit
\* either: five that go on, none that ends it, or a fifth one that is too large.
LEMMA RefusedByBoth ==
  ASSUME Inv, ReadPart,
         \/ Len(result) = 5
         \/ pos = Len(header)
         \/ Len(result) = 4 /\ header[5] % 128 >= 16 /\ pos < Len(header)
  PROVE  Parse(header) = None
<1>1. header \in Seq(Byte) /\ pos \in Nat /\ pos <= Len(header) /\ Len(header) \in Nat
  BY DEF Inv, CallBytes
<1>2. pos = Len(result) /\ \A i \in 1 .. pos : header[i] >= 128
  BY DEF ReadPart, GoesOn
<1>3. ASSUME NEW k \in Ends(header), k < 5 \/ (k = 5 /\ header[5] < 16)
      PROVE  FALSE
  <2>1. k \in Nat /\ k >= 1 /\ k <= Len(header) /\ header[k] < 128
    BY DEF Ends
  <2>2. k \in 1 .. Len(header)
    BY DEF Ends
  <2>3. header[k] \in Int
    BY <1>1, <2>2, ByteType
  <2>4. ~(k <= pos)
    <3>1. SUFFICES ASSUME k <= pos PROVE FALSE
      OBVIOUS
    <3>2. header[k] >= 128
      BY <1>1, <1>2, <2>1, <3>1
    <3>3. QED
      BY <2>1, <2>3, <3>2
  <2>5. CASE Len(result) = 5
    BY <1>2, <1>3, <2>1, <2>4, <2>5
  <2>6. CASE pos = Len(header)
    BY <1>1, <2>1, <2>4, <2>6
  <2>7. CASE Len(result) = 4 /\ header[5] % 128 >= 16
    <3>1. k = 5
      BY <1>2, <1>3, <2>1, <2>4, <2>7
    <3>2. header[5] \in Int /\ header[5] >= 0 /\ header[5] < 16
      BY <1>1, <1>3, <2>2, <2>3, <3>1, ByteType
    <3>3. header[5] % 128 < 16
      BY <3>2
    <3>4. QED
      BY <2>7, <3>2, <3>3
  <2>8. QED
    BY <2>5, <2>6, <2>7
<1>4. \A k \in Ends(header) : ~(k < 5 \/ (k = 5 /\ header[5] < 16))
  BY <1>3
<1>5. QED
  BY <1>1, <1>4, ParseNot

LEMMA ReadStep ==
  ASSUME Inv, ReadByte
  PROVE  Inv'
<1>1. /\ UNCHANGED <<header, body, api, room, length, writer, produced>>
      /\ pc = "read"
  BY DEF ReadByte, call
<1>2. /\ header \in Seq(Byte) /\ pos \in Nat /\ pos <= 5 /\ pos <= Len(header)
      /\ Len(header) \in Nat /\ result \in Seq(Nat)
  BY DEF Inv, CallBytes
<1>3. ReadPart /\ pos = Len(result)
  BY <1>1 DEF Inv, Reading, ReadPart
<1>4. writer' = "none" /\ produced' = 0
  BY <1>1 DEF Inv, Chosen, Before
<1>5. CASE TooLong \/ pos = Len(header)
  <2>1. pc' = "done" /\ UNCHANGED <<pos, result>>
    BY <1>5 DEF ReadByte, Return
  <2>2. Parse(header) = None
    BY <1>3, <1>5, RefusedByBoth DEF TooLong
  <2>3. CallBytes' /\ pc' \in Places
    BY <1>1, <2>1 DEF Inv, CallBytes, Places
  <2>4. Reading' /\ Chosen' /\ Written' /\ Checked' /\ Found' /\ NeverOverrun'
    BY <1>4, <2>1 DEF Reading, Chosen, Written, Checked, Found, NeverOverrun, Rest, Before
  <2>5. Refusing'
    BY <1>1, <2>2 DEF Refusing
  <2>6. QED
    BY <2>3, <2>4, <2>5 DEF Inv
<1>6. CASE ~TooLong /\ pos # Len(header)
  <2> DEFINE c == header[pos + 1]
  <2>1. /\ pos < Len(header) /\ pos < 5 /\ pos' = pos + 1
        /\ pos + 1 \in 1 .. Len(header)
    <3>1. pos < Len(header) /\ pos < 5
      BY <1>2, <1>3, <1>6, SMTT(30) DEF TooLong
    <3>2. pos' = pos + 1
      BY <1>6 DEF ReadByte
    <3>3. QED
      BY <1>2, <3>1, <3>2
  <2>2. c \in Int /\ c >= 0 /\ c % 128 \in Nat
    <3>1. c \in Int /\ c >= 0
      BY <1>2, <2>1, ByteType
    <3>2. QED
      BY <3>1
  <2>3. CASE Len(result) = 4 /\ c % 128 >= 16
    <3>1. pc' = "done" /\ UNCHANGED result
      BY <1>6, <2>3 DEF ReadByte, Return
    <3>2. Parse(header) = None
      <4>1. header[5] % 128 >= 16
        BY <1>3, <2>3
      <4>2. QED
        BY <1>3, <2>1, <2>3, <4>1, RefusedByBoth
    <3>3. CallBytes' /\ pc' \in Places
      BY <1>1, <1>2, <2>1, <3>1 DEF Inv, CallBytes, Places
    <3>4. Reading' /\ Chosen' /\ Written' /\ Checked' /\ Found' /\ NeverOverrun'
      BY <1>4, <3>1 DEF Reading, Chosen, Written, Checked, Found, NeverOverrun, Rest, Before
    <3>5. Refusing'
      BY <1>1, <3>2 DEF Refusing
    <3>6. QED
      BY <3>3, <3>4, <3>5 DEF Inv
  <2>4. CASE ~(Len(result) = 4 /\ c % 128 >= 16)
    <3>1. /\ result' = Append(result, c % 128)
          /\ pc' = IF c < 128 THEN "writer" ELSE "read"
      BY <1>6, <2>4 DEF ReadByte
    <3>2. /\ result' \in Seq(Nat) /\ Len(result') = Len(result) + 1
          /\ \A i \in 1 .. Len(result) : result'[i] = result[i]
          /\ result'[Len(result) + 1] = c % 128
      BY <1>2, <2>2, <3>1
    <3>3. \A i \in 1 .. pos' : result'[i] = header'[i] % 128
      <4>1. \A i \in 1 .. pos : result[i] = header[i] % 128
        BY <1>3 DEF ReadPart, IsRead
      <4>2. \A i \in 1 .. pos + 1 : result'[i] = header'[i] % 128
        BY <1>1, <1>2, <1>3, <3>2, <4>1, SMTT(30)
      <4>3. QED
        BY <2>1, <4>2
    <3>4. pos' = Len(result')
      BY <1>3, <2>1, <3>2
    <3>5. \A i \in 1 .. pos : header'[i] >= 128
      BY <1>1, <1>3 DEF ReadPart, GoesOn
    <3>6. CallBytes' /\ pc' \in Places
      BY <1>1, <1>2, <2>1, <3>1, <3>2 DEF Inv, CallBytes, Places
    <3>7. pc' = "read" => ReadPart'
      <4>1. SUFFICES ASSUME pc' = "read" PROVE ReadPart'
        OBVIOUS
      <4>2. header'[pos + 1] >= 128
        BY <1>1, <2>2, <3>1, <4>1
      <4>3. \A i \in 1 .. pos + 1 : header'[i] >= 128
        BY <1>2, <3>5, <4>2
      <4>4. \A i \in 1 .. pos' : header'[i] >= 128
        BY <2>1, <4>3
      <4>5. QED
        BY <3>3, <3>4, <4>4 DEF ReadPart, GoesOn, IsRead
    <3>8. pc' = "writer" => ReadWhole'
      <4>1. SUFFICES ASSUME pc' = "writer" PROVE ReadWhole'
        OBVIOUS
      <4>2. header'[pos'] < 128
        BY <1>1, <2>1, <2>2, <3>1, <4>1
      <4>3. \A i \in 1 .. pos' - 1 : header'[i] >= 128
        <5>1. pos' - 1 = pos
          BY <1>2, <2>1
        <5>2. QED
          BY <3>5, <5>1
      <4>4. pos' \in 1 .. 5
        BY <1>2, <2>1
      <4>5. pos' = 5 => header'[5] < 16
        <5>1. SUFFICES ASSUME pos' = 5 PROVE header'[5] < 16
          OBVIOUS
        <5>2. pos = 4 /\ Len(result) = 4
          BY <1>2, <1>3, <2>1, <5>1
        <5>3. c % 128 < 16 /\ c < 128
          BY <1>1, <2>1, <2>2, <2>4, <4>2, <5>2
        <5>4. c < 16
          BY <2>2, <5>3
        <5>5. QED
          BY <1>1, <5>2, <5>4
      <4>6. QED
        BY <3>3, <3>4, <4>2, <4>3, <4>4, <4>5 DEF ReadWhole, GoesOn, IsRead
    <3>9. pc' \in {"read", "writer"}
      BY <3>1
    <3>10. Reading' /\ Written' /\ Chosen' /\ Found' /\ Refusing' /\ NeverOverrun'
      BY <1>4, <3>7, <3>8, <3>9
      DEF Reading, Written, Chosen, Found, Refusing, NeverOverrun, Rest
    <3>11. Checked'
      <4>1. api \in {"c", "string"} => RoomIsEnough
        BY <1>1 DEF Inv, Checked
      <4>2. QED
        BY <1>1, <4>1 DEF Checked, RoomIsEnough
    <3>12. QED
      BY <3>6, <3>10, <3>11 DEF Inv
  <2>5. QED
    BY <2>3, <2>4
<1>7. QED
  BY <1>5, <1>6

\* The length was read to its end: it is the one that Parse32WithLimit finds.
LEMMA ExpectedIs ==
  ASSUME Inv, Rest(pc)
  PROVE  /\ Parse(header) = Digits /\ pos \in Ends(header)
         /\ Expected \in Nat /\ Fits32(header)
<1>1. CallBytes /\ ReadWhole /\ header \in Seq(Byte)
  BY DEF Inv, Written, CallBytes
<1>2. Parse(header) = Digits /\ pos \in Ends(header)
  BY <1>1, ReadersAgree
<1>3. Digits # None
  <2>1. DOMAIN Digits = 1 .. 5 /\ DOMAIN None = {}
    BY DEF Digits, None
  <2>2. 1 \in 1 .. 5
    OBVIOUS
  <2>3. QED
    BY <2>1, <2>2
<1>4. QED
  BY <1>1, <1>2, <1>3, ParseType DEF Expected

LEMMA ChooseStep ==
  ASSUME Inv, ChooseWriter
  PROVE  Inv'
<1>1. /\ Still /\ UNCHANGED <<body, api, room, length, produced, Digits>>
      /\ pc = "writer" /\ pc' = "tags" /\ api # "sink"
      /\ writer' = IF api = "validate" THEN "validator" ELSE "array"
  BY DEF ChooseWriter, Still, call, Digits
<1>2. CallBytes' /\ pc' \in Places
  BY <1>1 DEF Inv, CallBytes, Still, Places
<1>3. ReadWhole'
  BY <1>1, StillReads DEF Inv, Written, Rest
<1>4. NeverOverrun'
  <2>1. SUFFICES ASSUME writer' = "array" PROVE Expected' <= room' /\ produced' <= room'
    BY DEF NeverOverrun
  <2>2. api \in {"c", "string"}
    BY <1>1, <2>1 DEF Inv, CallBytes, Calls
  <2>3. length = Parse(header) /\ room >= Value(length)
    BY <1>1, <2>2 DEF Inv, Checked, RoomIsEnough
  <2>4. Parse(header) = Digits /\ Expected \in Nat
    BY <1>1, ExpectedIs DEF Rest
  <2>5. Value(length) = Expected
    BY <2>3, <2>4 DEF Expected
  <2>6. Expected <= room /\ produced = 0
    BY <1>1, <2>3, <2>5 DEF Inv, Chosen, Before
  <2>7. Expected' = Expected
    BY <1>1 DEF Expected
  <2>8. room \in Nat
    BY DEF Inv, CallBytes
  <2>9. QED
    BY <1>1, <2>6, <2>7, <2>8
<1>5. Reading' /\ Chosen' /\ Written' /\ Checked' /\ Found' /\ Refusing'
  BY <1>1, <1>3 DEF Reading, Chosen, Written, Checked, Found, Refusing, Before
<1>6. QED
  BY <1>2, <1>4, <1>5 DEF Inv

LEMMA BufferStep ==
  ASSUME Inv, GetAppendBufferVariable
  PROVE  Inv'
<1>1. /\ Still /\ UNCHANGED <<body, api, length, produced, Digits>>
      /\ pc = "writer" /\ pc' = "tags" /\ api = "sink" /\ room' = allocated'
      /\ allocated' \in {1, Expected}
      /\ writer' = IF allocated' >= Expected THEN "array" ELSE "scattered"
  BY DEF GetAppendBufferVariable, Still, call, Digits
<1>2. Expected \in Nat /\ Expected' = Expected
  <2>1. Expected \in Nat
    BY <1>1, ExpectedIs DEF Rest
  <2>2. QED
    BY <1>1, <2>1 DEF Expected
<1>3. CallBytes' /\ pc' \in Places
  BY <1>1, <1>2 DEF Inv, CallBytes, Still, Places
<1>4. ReadWhole'
  BY <1>1, StillReads DEF Inv, Written, Rest
<1>5. NeverOverrun'
  <2>1. produced' = 0 /\ room' \in Nat
    BY <1>1, <1>2 DEF Inv, Chosen, Before
  <2>2. writer' = "array" => Expected' <= room'
    BY <1>1, <1>2
  <2>3. QED
    BY <2>1, <2>2 DEF NeverOverrun
<1>6. Reading' /\ Chosen' /\ Written' /\ Checked' /\ Found' /\ Refusing'
  BY <1>1, <1>4 DEF Reading, Chosen, Written, Checked, Found, Refusing, Before
<1>7. QED
  BY <1>3, <1>5, <1>6 DEF Inv

LEMMA TagsStep ==
  ASSUME Inv, DecompressTags
  PROVE  Inv'
<1>1. /\ Still /\ UNCHANGED <<body, api, length, room, writer, Digits>>
      /\ pc = "tags" /\ pc' = "end"
      /\ produced' = IF body.yields <= Expected \/ writer = "validator"
                     THEN body.yields ELSE Refused
  BY DEF DecompressTags, Still, call, Digits
<1>2. Parse(header) = Digits /\ Expected \in Nat /\ Fits32(header)
  BY <1>1, ExpectedIs DEF Rest
<1>3. Expected' = Expected /\ Value(Parse(header)) = Expected
  BY <1>1, <1>2 DEF Expected
<1>4. CallBytes' /\ pc' \in Places
  BY <1>1 DEF Inv, CallBytes, Still, Places
<1>5. ReadWhole'
  BY <1>1, StillReads DEF Inv, Written, Rest
<1>6. NeverOverrun'
  <2>1. SUFFICES ASSUME writer = "array" PROVE Expected <= room /\ produced' <= room
    BY <1>1, <1>3 DEF NeverOverrun
  <2>2. Expected <= room /\ room \in Nat
    BY <2>1 DEF Inv, NeverOverrun, CallBytes
  <2>3. /\ body.yields \in Nat
        /\ body.yields > Expected => body.yields - body.last <= Expected
    <3>1. header \in Headers /\ body \in Bodies(header)
      BY DEF Inv, CallBytes
    <3>2. QED
      BY <1>2, <1>3, <3>1, BodiesAssumption
  <2>4. CASE body.yields <= Expected
    <3>1. produced' = body.yields
      BY <1>1, <2>4
    <3>2. QED
      BY <1>2, <2>2, <2>3, <2>4, <3>1
  <2>5. CASE ~(body.yields <= Expected)
    <3>1. produced' = body.yields - body.last
      BY <1>1, <2>1, <2>5 DEF Refused
    <3>2. body.last \in 0 .. body.yields
      BY BodiesAssumption DEF Inv, CallBytes
    <3>3. QED
      BY <1>2, <2>2, <2>3, <2>5, <3>1, <3>2
  <2>6. QED
    BY <2>4, <2>5
<1>7. Reading' /\ Chosen' /\ Written' /\ Checked' /\ Found' /\ Refusing'
  BY <1>1, <1>5 DEF Inv, Reading, Chosen, Written, Checked, Found, Refusing, Before
<1>8. QED
  BY <1>4, <1>6, <1>7 DEF Inv

LEMMA HandBackStep ==
  ASSUME Inv, HandBack
  PROVE  Inv'
<1>1. /\ Still /\ UNCHANGED <<body, api, length, room, writer, status, produced, Digits>>
      /\ pc = "end" /\ pc' = "done"
  BY DEF HandBack, Still, call, Digits
<1>2. CallBytes' /\ pc' \in Places
  BY <1>1 DEF Inv, CallBytes, Still, Places
<1>3. NeverOverrun'
  BY <1>1 DEF Inv, NeverOverrun, Expected
<1>4. Refusing'
  BY <1>1 DEF Inv, Chosen, Refusing
<1>5. Reading' /\ Chosen' /\ Written' /\ Checked' /\ Found'
  BY <1>1 DEF Reading, Chosen, Written, Checked, Found, Rest, Before
<1>6. QED
  BY <1>2, <1>3, <1>4, <1>5 DEF Inv

LEMMA StutterStep ==
  ASSUME Inv, UNCHANGED vars
  PROVE  Inv'
<1>1. /\ Still /\ UNCHANGED <<body, api, length, room, writer, status, produced, pc, Digits>>
  BY DEF vars, call, Still, Digits
<1>2. CallBytes' /\ pc' \in Places
  BY <1>1 DEF Inv, CallBytes, Still
<1>3. Reading' /\ Written'
  BY <1>1, StillReads DEF Inv, Reading, Written, Rest
<1>4. Chosen' /\ Checked' /\ Found' /\ Refusing' /\ NeverOverrun'
  BY <1>1 DEF Inv, Chosen, Checked, RoomIsEnough, Found, Refusing, NeverOverrun,
              Expected, Still
<1>5. QED
  BY <1>2, <1>3, <1>4 DEF Inv

-----------------------------------------------------------------------------
LEMMA NextInv == Inv /\ [Next]_vars => Inv'
<1> SUFFICES ASSUME Inv, [Next]_vars PROVE Inv'
  OBVIOUS
<1>1. CASE GetUncompressedLength BY <1>1, LengthStep
<1>2. CASE CheckRoom BY <1>2, RoomStep
<1>3. CASE ReadByte BY <1>3, ReadStep
<1>4. CASE ChooseWriter BY <1>4, ChooseStep
<1>5. CASE GetAppendBufferVariable BY <1>5, BufferStep
<1>6. CASE DecompressTags BY <1>6, TagsStep
<1>7. CASE HandBack BY <1>7, HandBackStep
<1>8. CASE UNCHANGED vars BY <1>8, StutterStep
<1>9. QED
  BY <1>1, <1>2, <1>3, <1>4, <1>5, <1>6, <1>7, <1>8 DEF Next, Returned

LEMMA SpecInv == Spec => []Inv
BY InitInv, NextInv, PTL DEF Spec

LEMMA InvAgrees == Inv => LengthsAgree
<1> SUFFICES ASSUME Inv PROVE LengthsAgree
  OBVIOUS
<1>1. pc \in {"writer", "tags", "end"} => Parse(header) = Digits /\ pos \in Ends(header)
  BY ExpectedIs DEF Rest
<1> QED
  BY <1>1 DEF Inv, Refusing, LengthsAgree

\* Parse32WithLimit and SnappyDecompressor::ReadUncompressedLength accept the
\* same headers, find the same number in them and end at the same byte, whatever
\* the bytes are: what the room was compared with is what bounds the writer.
THEOREM ReadersOfTheLengthAgree == Spec => []LengthsAgree
BY InvAgrees, SpecInv, PTL

\* SnappyArrayWriter never stores behind the caller's buffer, the resized string
\* or the buffer of the sink, for all headers, streams and sizes of the buffer.
THEOREM DestinationIsNotOverrun == Spec => []NeverOverrun
<1>1. Inv => NeverOverrun
  BY DEF Inv
<1>2. QED
  BY <1>1, SpecInv, PTL

-----------------------------------------------------------------------------
(* What a call hands back *)

(***************************************************************************)
(* The inductive invariant, beside Inv: the writer's part, which nothing   *)
(* but the body decides; the room, which was looked at before; what has    *)
(* gone out; and the verdict.                                              *)
(***************************************************************************)
Fits == /\ api \in {"c", "string"} /\ pc \in {"read", "writer", "tags", "end"} =>
             length = Parse(header) /\ Legal /\ ~NoRoom
        /\ pc = "done" /\ writer = "none" => ~Legal \/ NoRoom
ForCall == pc \in {"tags", "end"} =>
             writer \in (IF api = "sink" THEN {"array", "scattered"}
                         ELSE IF api = "validate" THEN {"validator"} ELSE {"array"})
Quiet == pc \notin {"end", "done"} => status = "none" /\ sunk = 0
NotReported == api = "c" /\ status # "ok" => reported = room
Verdict == pc = "end" => /\ status = IF Whole THEN "ok" ELSE "invalid"
                         /\ status = "ok" => produced = Value(Parse(header))
                         /\ writer = "scattered" /\ status = "ok" => sunk = produced
                         /\ produced \in Nat /\ (writer # "validator" => produced <= Expected)
HandedBack == pc = "done" /\ status = "ok" =>
                /\ produced = Value(Parse(header))
                /\ api = "sink" => sunk = produced
                /\ api = "c" => reported = produced

CallInv == /\ Inv /\ Fits /\ ForCall /\ Quiet /\ NotReported /\ Verdict /\ HandedBack
           /\ StatusIsRight /\ sunk \in Nat /\ sunk <= Expected

LEMMA DigitsType ==
  ASSUME NEW r \in Seq(Nat)
  PROVE  Value([i \in 1 .. 5 |-> IF i <= Len(r) THEN r[i] ELSE 0]) \in Nat
<1> DEFINE d == [i \in 1 .. 5 |-> IF i <= Len(r) THEN r[i] ELSE 0]
<1>1. \A i \in 1 .. 5 : d[i] \in Nat
  OBVIOUS
<1> HIDE DEF d
<1>2. Value(d) \in Nat
  BY <1>1, ValueType
<1> QED
  BY <1>2 DEF d

LEMMA ExpectedType == (Inv => Expected \in Nat) /\ (Inv' => Expected' \in Nat)
BY DigitsType DEF Inv, CallBytes, Expected, Digits

\* The room that a C caller offers is not changed.
LEMMA SameCall ==
  ASSUME UNCHANGED <<header, body, api>>, api = "c" => room' = room
  PROVE  Legal' = Legal /\ Whole' = Whole /\ NoRoom' = NoRoom
BY DEF Legal, Whole, NoRoom

LEMMA CallInitInv == Init => CallInv
<1> SUFFICES ASSUME Init PROVE CallInv
  OBVIOUS
<1>1. Inv /\ Expected \in Nat
  BY InitInv, ExpectedType
<1>2. /\ pc \in {"length", "read"} /\ (api \in {"c", "string"} => pc = "length")
      /\ status = "none" /\ sunk = 0 /\ reported = room
  BY DEF Init, Calls
<1> QED
  BY <1>1, <1>2 DEF CallInv, Fits, ForCall, Quiet, NotReported, Verdict, HandedBack, StatusIsRight

LEMMA LengthCall ==
  ASSUME CallInv, GetUncompressedLength, Inv'
  PROVE  CallInv'
<1>1. /\ UNCHANGED <<header, body, api, room, result, writer, produced, sunk, reported>>
      /\ pc = "length" /\ length' = Parse(header)
      /\ pc' \in {"room", "done"}
      /\ pc' = "room" => status' = status
      /\ pc' = "done" => length' = None /\ status' = "invalid"
  BY DEF GetUncompressedLength, call, Return
<1>2. status = "none" /\ sunk = 0 /\ (api = "c" => reported = room)
  BY <1>1 DEF CallInv, Quiet, NotReported
<1>3. Legal' = Legal /\ Whole' = Whole /\ NoRoom' = NoRoom
  BY <1>1, SameCall
<1>4. pc' = "done" => ~Legal /\ ~Whole
  BY <1>1 DEF Legal, Whole
<1>5. Fits' /\ ForCall' /\ Quiet' /\ NotReported' /\ Verdict' /\ HandedBack'
  BY <1>1, <1>2, <1>3, <1>4 DEF Fits, ForCall, Quiet, NotReported, Verdict, HandedBack
<1>6. StatusIsRight'
  BY <1>1, <1>3, <1>4 DEF StatusIsRight
<1> Expected' \in Nat
  BY ExpectedType
<1> QED
  BY <1>1, <1>2, <1>5, <1>6 DEF CallInv

LEMMA RoomCall ==
  ASSUME CallInv, CheckRoom, Inv'
  PROVE  CallInv'
<1>1. /\ UNCHANGED <<header, body, api, length, result, writer, produced, sunk, reported>>
      /\ pc = "room" /\ (api = "c" => room' = room)
      /\ pc' \in {"read", "done"}
  BY DEF CheckRoom, call, Return
<1>2. status = "none" /\ sunk = 0 /\ (api = "c" => reported = room)
  BY <1>1 DEF CallInv, Quiet, NotReported
<1>3. Legal' = Legal /\ Whole' = Whole /\ NoRoom' = NoRoom
  BY <1>1, SameCall
<1>4. length = Parse(header) /\ Legal
  BY <1>1 DEF CallInv, Inv, Found, Legal
<1>5. /\ pc' = "read" => status' = "none" /\ ~NoRoom
      /\ pc' = "done" => NoRoom /\ status' = IF api = "c" THEN "too_small" ELSE "invalid"
  <2>1. Value(length) \in Nat
    BY <1>4, ParseType DEF CallInv, Inv, CallBytes, Legal
  <2>2. room \in Nat /\ MaxString \in Nat
    BY MaxStringAssumption DEF CallInv, Inv, CallBytes
  <2>3. CASE api = "c"
    BY <1>2, <1>4, <2>1, <2>2, <2>3 DEF CheckRoom, Return, NoRoom
  <2>4. CASE api = "string"
    BY <1>2, <1>4, <2>1, <2>2, <2>4 DEF CheckRoom, Return, NoRoom
  <2>5. CASE api \notin {"c", "string"}
    BY <1>2, <2>5 DEF CheckRoom, Return, NoRoom
  <2> QED
    BY <2>3, <2>4, <2>5
<1>6. Fits' /\ ForCall' /\ Quiet' /\ NotReported' /\ Verdict' /\ HandedBack'
  BY <1>1, <1>2, <1>3, <1>4, <1>5 DEF Fits, ForCall, Quiet, NotReported, Verdict, HandedBack
<1>7. StatusIsRight'
  BY <1>1, <1>3, <1>4, <1>5 DEF StatusIsRight
<1> Expected' \in Nat
  BY ExpectedType
<1> QED
  BY <1>1, <1>2, <1>6, <1>7 DEF CallInv

LEMMA ReadCall ==
  ASSUME CallInv, ReadByte, Inv'
  PROVE  CallInv'
<1>1. /\ UNCHANGED <<header, body, api, room, length, writer, produced, sunk, reported>>
      /\ pc = "read" /\ pc' \in {"read", "writer", "done"}
      /\ pc' # "done" => status' = status
      /\ pc' = "done" => status' = "invalid"
  BY DEF ReadByte, call, Return
<1>2. status = "none" /\ sunk = 0 /\ (api = "c" => reported = room)
  BY <1>1 DEF CallInv, Quiet, NotReported
<1>3. Legal' = Legal /\ Whole' = Whole /\ NoRoom' = NoRoom
  BY <1>1, SameCall
<1>4. pc' = "done" => ~Legal /\ ~Whole
  <2> SUFFICES ASSUME pc' = "done" PROVE Parse(header) = None
    BY DEF Legal, Whole
  <2>1. Inv /\ ReadPart /\ pos = Len(result) /\ pos \in Nat /\ pos <= Len(header) /\ Len(header) \in Nat
    BY <1>1 DEF CallInv, Inv, CallBytes, Reading, ReadPart
  <2>2. \/ TooLong \/ pos = Len(header)
        \/ Len(result) = 4 /\ header[pos + 1] % 128 >= 16 /\ pos # Len(header)
    BY DEF ReadByte
  <2>3. \/ Len(result) = 5 \/ pos = Len(header)
        \/ Len(result) = 4 /\ header[5] % 128 >= 16 /\ pos < Len(header)
    <3>1. Len(result) = 4 => pos + 1 = 5
      BY <2>1
    <3>2. pos # Len(header) => pos < Len(header)
      BY <2>1
    <3> QED
      BY <2>2, <3>1, <3>2 DEF TooLong
  <2> QED
    BY <2>1, <2>3, RefusedByBoth
<1>5. Fits' /\ ForCall' /\ Quiet' /\ NotReported' /\ Verdict' /\ HandedBack'
  BY <1>1, <1>2, <1>3, <1>4
     DEF CallInv, Fits, ForCall, Quiet, NotReported, Verdict, HandedBack
<1>6. StatusIsRight'
  BY <1>1, <1>3, <1>4 DEF StatusIsRight
<1> Expected' \in Nat
  BY ExpectedType
<1> QED
  BY <1>1, <1>2, <1>5, <1>6 DEF CallInv

LEMMA WriterCall ==
  ASSUME CallInv, ChooseWriter \/ GetAppendBufferVariable, Inv'
  PROVE  CallInv'
<1>1. /\ UNCHANGED <<header, body, api, length, result, produced, sunk, reported, status>>
      /\ pc = "writer" /\ pc' = "tags" /\ (api = "c" => room' = room)
      /\ writer' \in (IF api = "sink" THEN {"array", "scattered"}
                      ELSE IF api = "validate" THEN {"validator"} ELSE {"array"})
  BY DEF ChooseWriter, GetAppendBufferVariable, call
<1>2. status = "none" /\ sunk = 0 /\ (api = "c" => reported = room)
  BY <1>1 DEF CallInv, Quiet, NotReported
<1>3. Legal' = Legal /\ Whole' = Whole /\ NoRoom' = NoRoom
  BY <1>1, SameCall
<1>4. Fits' /\ ForCall' /\ Quiet' /\ NotReported' /\ Verdict' /\ HandedBack' /\ StatusIsRight'
  BY <1>1, <1>2, <1>3
     DEF CallInv, Fits, ForCall, Quiet, NotReported, Verdict, HandedBack, StatusIsRight
<1> Expected' \in Nat
  BY ExpectedType
<1> QED
  BY <1>1, <1>2, <1>4 DEF CallInv

LEMMA TagsCall ==
  ASSUME CallInv, DecompressTags, Inv'
  PROVE  CallInv'
<1>1. /\ UNCHANGED <<header, body, api, room, length, result, writer, reported>>
      /\ pc = "tags" /\ pc' = "end"
      /\ produced' = IF body.yields <= Expected \/ writer = "validator"
                     THEN body.yields ELSE body.yields - body.last
      /\ status' = IF body.clean /\ body.yields = Expected THEN "ok" ELSE "invalid"
      /\ \/ writer = "scattered" /\ sunk' = produced'
         \/ writer = "scattered" /\ body.yields > Expected /\ sunk' = Expected
         \/ writer # "scattered" /\ sunk' = sunk
  BY DEF DecompressTags, call, Refused
<1>2. status = "none" /\ sunk = 0 /\ (api = "c" => reported = room)
  BY <1>1 DEF CallInv, Quiet, NotReported
<1>3. Legal' = Legal /\ Whole' = Whole /\ NoRoom' = NoRoom /\ Expected' = Expected
  BY <1>1, SameCall DEF Expected, Digits
<1>4. Parse(header) = Digits /\ Expected \in Nat /\ Fits32(header)
  BY <1>1, ExpectedIs DEF CallInv, Rest
<1>5. Value(Parse(header)) = Expected /\ Legal
  <2>1. Digits # None
    <3>1. DOMAIN Digits = 1 .. 5 /\ DOMAIN None = {} /\ 1 \in 1 .. 5
      BY DEF Digits, None
    <3> QED
      BY <3>1
  <2> QED
    BY <1>4, <2>1 DEF Expected, Legal
<1>6. /\ body.yields \in Nat /\ body.last \in 0 .. body.yields
      /\ body.yields > Expected => body.yields - body.last <= Expected
  BY <1>4, <1>5, BodiesAssumption DEF CallInv, Inv, CallBytes
<1>7. produced' \in Nat /\ (writer # "validator" => produced' <= Expected)
  BY <1>1, <1>4, <1>6
<1>8. sunk' \in Nat /\ sunk' <= Expected
  BY <1>1, <1>2, <1>4, <1>7
<1>9. /\ status' = IF Whole THEN "ok" ELSE "invalid"
      /\ status' = "ok" => produced' = Expected /\ (writer = "scattered" => sunk' = produced')
  BY <1>1, <1>4, <1>5, <1>6 DEF Whole
<1>10. Fits' /\ ForCall' /\ Quiet' /\ NotReported' /\ HandedBack' /\ StatusIsRight'
  BY <1>1, <1>2, <1>3
     DEF CallInv, Fits, ForCall, Quiet, NotReported, HandedBack, StatusIsRight
<1>11. Verdict'
  BY <1>1, <1>3, <1>5, <1>7, <1>9 DEF Verdict
<1> QED
  BY <1>3, <1>8, <1>10, <1>11 DEF CallInv

LEMMA HandBackCall ==
  ASSUME CallInv, HandBack, Inv'
  PROVE  CallInv'
<1>1. /\ UNCHANGED <<header, body, api, room, length, result, writer, produced, status>>
      /\ pc = "end" /\ pc' = "done"
      /\ reported' = IF api = "c" /\ status = "ok" THEN Value(length) ELSE reported
      /\ sunk' = IF api = "sink" /\ writer = "array" THEN produced ELSE sunk
  BY DEF HandBack, call
<1>2. Legal' = Legal /\ Whole' = Whole /\ NoRoom' = NoRoom /\ Expected' = Expected
  BY <1>1, SameCall DEF Expected, Digits
<1>3. /\ status = IF Whole THEN "ok" ELSE "invalid"
      /\ status = "ok" => produced = Value(Parse(header))
      /\ writer = "scattered" /\ status = "ok" => sunk = produced
      /\ produced \in Nat /\ (writer # "validator" => produced <= Expected)
  BY <1>1 DEF CallInv, Verdict
<1>4. api \in {"c", "string"} => length = Parse(header) /\ ~NoRoom
  BY <1>1 DEF CallInv, Fits
<1>5. ~NoRoom
  BY <1>4 DEF NoRoom
<1>6. /\ writer # "none"
      /\ api = "sink" => writer \in {"array", "scattered"}
  BY <1>1 DEF CallInv, Inv, Chosen, ForCall
<1>7. sunk' \in Nat /\ sunk' <= Expected
  BY <1>1, <1>3 DEF CallInv
<1>8. HandedBack'
  BY <1>1, <1>3, <1>4, <1>6 DEF HandedBack
<1>9. StatusIsRight'
  BY <1>1, <1>2, <1>3, <1>5 DEF StatusIsRight
<1>10. Fits' /\ ForCall' /\ Quiet' /\ NotReported' /\ Verdict'
  BY <1>1, <1>2, <1>6 DEF CallInv, Fits, ForCall, Quiet, NotReported, Verdict
<1> QED
  BY <1>2, <1>7, <1>8, <1>9, <1>10 DEF CallInv

LEMMA CallNextInv == CallInv /\ [Next]_vars => CallInv'
<1> SUFFICES ASSUME CallInv, [Next]_vars PROVE CallInv'
  OBVIOUS
<1>1. Inv'
  BY NextInv DEF CallInv
<1>2. CASE UNCHANGED vars
  <2>1. /\ UNCHANGED <<pc, api, header, body, room, length, writer, produced, sunk, reported, status>>
        /\ Expected' = Expected
    BY <1>2 DEF vars, call, Expected, Digits
  <2>2. Legal' = Legal /\ Whole' = Whole /\ NoRoom' = NoRoom
    BY <2>1, SameCall
  <2>3. Fits' /\ ForCall' /\ Quiet' /\ NotReported'
    BY <2>1, <2>2 DEF CallInv, Fits, ForCall, Quiet, NotReported
  <2>4. Verdict' /\ HandedBack' /\ StatusIsRight'
    BY <2>1, <2>2 DEF CallInv, Verdict, HandedBack, StatusIsRight
  <2> QED
    BY <1>1, <2>1, <2>3, <2>4 DEF CallInv
<1> QED
  BY <1>1, <1>2, LengthCall, RoomCall, ReadCall, WriterCall, TagsCall, HandBackCall DEF Next, Returned

\* What Varint::Encode32 writes is what Parse32WithLimit reads.
LEMMA EncodedParses ==
  ASSUME NEW d \in [1 .. 5 -> 0 .. 127], d[5] < 16
  PROVE  Parse(Encode(d)) = d /\ d # None
<1> DEFINE P(k) == (k > 1 => d[k] > 0) /\ \A j \in k + 1 .. 5 : d[j] = 0
           last == CHOOSE k \in 1 .. 5 : P(k)
           s == Encode(d)
<1>1. \A i \in 1 .. 5 : d[i] \in Nat /\ d[i] < 128
  OBVIOUS
<1>2. \E k \in 1 .. 5 : P(k)
  <2>1. /\ d[1] \in Nat /\ d[2] \in Nat /\ d[3] \in Nat /\ d[4] \in Nat /\ d[5] \in Nat
    BY <1>1
  <2>2. CASE d[5] > 0
    <3>1. P(5)
      BY <2>2
    <3> QED
      BY <3>1
  <2>3. CASE d[5] = 0 /\ d[4] > 0
    <3>1. P(4)
      BY <2>3
    <3> QED
      BY <3>1
  <2>4. CASE d[5] = 0 /\ d[4] = 0 /\ d[3] > 0
    <3>1. P(3)
      BY <2>4
    <3> QED
      BY <3>1
  <2>5. CASE d[5] = 0 /\ d[4] = 0 /\ d[3] = 0 /\ d[2] > 0
    <3>1. P(2)
      BY <2>5
    <3> QED
      BY <3>1
  <2>6. CASE d[5] = 0 /\ d[4] = 0 /\ d[3] = 0 /\ d[2] = 0
    <3>1. P(1)
      BY <2>6
    <3> QED
      BY <3>1
  <2> QED
    BY <2>1, <2>2, <2>3, <2>4, <2>5, <2>6
<1>3. last \in 1 .. 5 /\ P(last)
  BY <1>2
<1>4. s = [i \in 1 .. last |-> IF i < last THEN d[i] + 128 ELSE d[i]]
  BY DEF Encode
<1> HIDE DEF last, s
<1>5. s \in Seq(Byte) /\ Len(s) = last
  <2>1. ASSUME NEW i \in 1 .. last PROVE s[i] \in 0 .. 255
    <3>1. d[i] \in Nat /\ d[i] < 128
      BY <1>1, <1>3
    <3>2. d[i] \in 0 .. 255 /\ d[i] + 128 \in 0 .. 255
      BY <3>1
    <3> QED
      BY <1>4, <3>2
  <2> QED
    BY <1>3, <1>4, <2>1 DEF Byte
<1>6. last \in Ends(s)
  <2>1. s[last] < 128 /\ \A j \in 1 .. last - 1 : s[j] >= 128
    BY <1>1, <1>3, <1>4
  <2> QED
    BY <1>3, <1>5, <2>1 DEF Ends
<1>7. last < 5 \/ (last = 5 /\ s[5] < 16)
  BY <1>3, <1>4
<1>8. Parse(s) = [i \in 1 .. 5 |-> IF i <= last THEN s[i] % 128 ELSE 0]
  BY <1>5, <1>6, <1>7, ParseIs
<1>9. ASSUME NEW i \in 1 .. 5 PROVE Parse(s)[i] = d[i]
  <2>1. CASE i < last
    <3>1. s[i] = d[i] + 128 /\ d[i] \in Nat /\ d[i] < 128
      BY <1>1, <1>3, <1>4, <2>1
    <3>2. s[i] % 128 = d[i]
      BY <3>1
    <3> QED
      BY <1>3, <1>8, <2>1, <3>2
  <2>2. CASE i = last
    <3>1. s[i] = d[i] /\ d[i] \in Nat /\ d[i] < 128
      BY <1>1, <1>3, <1>4, <2>2
    <3>2. s[i] % 128 = d[i]
      BY <3>1
    <3> QED
      BY <1>3, <1>8, <2>2, <3>2
  <2>3. CASE i > last
    <3>1. d[i] = 0
      BY <1>3, <2>3
    <3> QED
      BY <1>3, <1>8, <2>3, <3>1
  <2> QED
    BY <1>3, <2>1, <2>2, <2>3
<1>10. Parse(s) = d
  BY <1>8, <1>9
<1>11. d # None
  <2>1. DOMAIN d = 1 .. 5 /\ DOMAIN None = {} /\ 1 \in 1 .. 5
    BY DEF None
  <2> QED
    BY <2>1
<1> QED
  BY <1>10, <1>11 DEF s

LEMMA CallSays == CallInv => CallsAreExact
<1> SUFFICES ASSUME CallInv PROVE CallsAreExact
  OBVIOUS
<1>1. OutputExact
  BY DEF CallInv, OutputExact, HandedBack, NotReported
<1>2. EncodedIsRead
  <2> SUFFICES ASSUME NEW d \in Numbers, header = Encode(d)
               PROVE  /\ pc \in {"tags", "end"} => Digits = d
                      /\ pc = "done" /\ writer = "none" => NoRoom
    BY DEF EncodedIsRead
  <2>1. Parse(header) = d /\ Legal
    BY NumbersAssumption, EncodedParses DEF Legal
  <2>2. pc \in {"tags", "end"} => Parse(header) = Digits
    BY ExpectedIs DEF CallInv, Rest
  <2> QED
    BY <2>1, <2>2 DEF CallInv, Fits
<1> QED
  BY <1>1, <1>2 DEF CallInv, CallsAreExact

\* For all headers, streams, rooms and sinks: a call succeeds for just the legal
\* streams, hands over just their bytes, and reads the length that was written.
THEOREM TheCallsAreExact == Spec => []CallsAreExact
BY CallSays, CallInitInv, CallNextInv, PTL DEF Spec
-----------------------------------------------------------------------------
(* The types of a call *)

\* The digits that are found are digits of a 32-bit number.
LEMMA ParseDigits ==
  ASSUME NEW s \in Seq(Byte), Parse(s) # None
  PROVE  Parse(s) \in [1 .. 5 -> 0 .. 127] /\ Parse(s)[5] < 16
<1>1. PICK k \in Ends(s) : k < 5 \/ (k = 5 /\ s[5] < 16)
  BY ParseType DEF Fits32
<1>2. Parse(s) = [i \in 1 .. 5 |-> IF i <= k THEN s[i] % 128 ELSE 0]
  BY <1>1, ParseIs
<1>3. k \in Nat /\ k <= Len(s) /\ Len(s) \in Nat
  BY <1>1 DEF Ends
<1>4. ASSUME NEW i \in 1 .. 5, i <= k PROVE s[i] \in Nat /\ s[i] % 128 \in 0 .. 127
  <2>1. i \in 1 .. Len(s)
    BY <1>3, <1>4
  <2>2. s[i] \in Nat
    BY <2>1, ByteType
  <2>3. \A n \in Nat : n % 128 \in 0 .. 127
    OBVIOUS
  <2> QED
    BY <2>2, <2>3
<1>5. ASSUME NEW i \in 1 .. 5 PROVE (IF i <= k THEN s[i] % 128 ELSE 0) \in 0 .. 127
  <2>1. CASE i <= k
    BY <1>4, <2>1
  <2>2. CASE ~(i <= k)
    BY <2>2
  <2> QED
    BY <2>1, <2>2
<1>6. (IF 5 <= k THEN s[5] % 128 ELSE 0) < 16
  <2>1. CASE 5 <= k
    <3>1. s[5] < 16
      BY <1>1, <1>3, <2>1
    <3>2. s[5] \in Nat
      BY <1>4, <2>1
    <3>3. s[5] % 128 = s[5]
      BY <3>1, <3>2
    <3> QED
      BY <2>1, <3>1, <3>3
  <2>2. CASE ~(5 <= k)
    BY <2>2
  <2> QED
    BY <2>1, <2>2
<1> QED
  BY <1>2, <1>5, <1>6

\* No number is beyond the one that stands for the large ones.
LEMMA ValueBound ==
  ASSUME NEW d, \A i \in 1 .. 5 : d[i] \in 0 .. 127
  PROVE  Value(d) <= Huge
<1> DEFINE a == d[1]
           b == d[2]
           c == d[3]
           e == d[4]
           f == d[5]
<1>1. a \in 0 .. 127 /\ b \in 0 .. 127 /\ c \in 0 .. 127 /\ e \in 0 .. 127 /\ f \in 0 .. 127
  OBVIOUS
<1>2. Value(d) = IF f >= 4 THEN Huge ELSE a + 128 * b + 16384 * c + 2097152 * e + 268435456 * f
  BY SMT DEF Value
<1> HIDE DEF a, b, c, e, f
<1>3. f < 4 => a + 128 * b + 16384 * c + 2097152 * e + 268435456 * f <= 1073741824
  BY <1>1, SMT
<1> QED
  BY <1>1, <1>2, <1>3, SMT DEF Huge

\* The inductive invariant, beside CallInv.
TypesInv == /\ CallInv
            /\ length = None \/ length = Parse(header)
            /\ Len(result) <= 5 /\ \A i \in 1 .. Len(result) : result[i] < 128
            /\ writer \in {"none", "array", "scattered", "validator"}
            /\ status \in {"none", "ok", "invalid", "too_small"}
            /\ allocated \in Nat /\ produced \in Nat /\ reported \in Nat

LEMMA TypesInit == Init => TypesInv
<1> SUFFICES ASSUME Init PROVE TypesInv
  OBVIOUS
<1>1. CallInv
  BY CallInitInv
<1>2. room \in Nat
  BY <1>1 DEF CallInv, Inv, CallBytes
<1>3. /\ length = None /\ result = <<>> /\ writer = "none" /\ status = "none"
      /\ allocated = 0 /\ produced = 0 /\ reported = room
  BY DEF Init
<1> QED
  BY <1>1, <1>2, <1>3 DEF TypesInv

LEMMA TypesNext == TypesInv /\ [Next]_vars => TypesInv'
<1> SUFFICES ASSUME TypesInv, [Next]_vars PROVE TypesInv'
  OBVIOUS
<1>1. CallInv' /\ CallInv
  BY CallNextInv DEF TypesInv
<1>2. /\ header \in Seq(Byte) /\ result \in Seq(Nat) /\ pos \in Nat /\ pos <= Len(header)
      /\ Len(header) \in Nat /\ Len(result) \in Nat /\ body \in Bodies(header) /\ header \in Headers
  BY <1>1 DEF CallInv, Inv, CallBytes
<1>3. CASE GetUncompressedLength
  BY <1>1, <1>3 DEF TypesInv, GetUncompressedLength, call, Return
<1>4. CASE CheckRoom
  BY <1>1, <1>4 DEF TypesInv, CheckRoom, call, Return
<1>5. CASE ReadByte
  <2>1. /\ UNCHANGED <<header, length, writer, allocated, produced, reported>>
        /\ status' \in {status, "invalid"}
        /\ \/ result' = result
           \/ /\ ~(TooLong \/ pos = Len(header))
              /\ result' = Append(result, header[pos + 1] % 128)
    BY <1>5 DEF ReadByte, call, Return
  <2>2. Len(result') <= 5 /\ \A i \in 1 .. Len(result') : result'[i] < 128
    <3>1. CASE result' = result
      BY <3>1 DEF TypesInv
    <3>2. CASE /\ ~(TooLong \/ pos = Len(header))
               /\ result' = Append(result, header[pos + 1] % 128)
      <4>1. pos + 1 \in 1 .. Len(header)
        BY <1>2, <3>2
      <4>2. header[pos + 1] \in Nat
        BY <1>2, <4>1, ByteType
      <4>3. header[pos + 1] % 128 \in Nat /\ header[pos + 1] % 128 < 128
        BY <4>2
      <4> DEFINE val == header[pos + 1] % 128
      <4> HIDE DEF val
      <4>4. Len(result) < 5
        <5>1. Len(result) # 5
          BY <3>2 DEF TooLong
        <5>2. Len(result) <= 5
          BY DEF TypesInv
        <5>3. \A n \in Nat : n # 5 /\ n <= 5 => n < 5
          OBVIOUS
        <5> QED
          BY <1>2, <5>1, <5>2, <5>3, Zenon
      <4>5. result' = Append(result, val)
        BY <3>2 DEF val
      <4>6. val \in Nat /\ val < 128
        BY <4>3 DEF val
      <4> QED
        BY <1>2, <4>4, <4>5, <4>6 DEF TypesInv
    <3> QED
      BY <2>1, <3>1, <3>2
  <2> QED
    BY <1>1, <2>1, <2>2 DEF TypesInv
<1>6. CASE ChooseWriter
  BY <1>1, <1>6 DEF TypesInv, ChooseWriter, call
<1>7. CASE GetAppendBufferVariable
  <2>1. Expected \in Nat
    BY <1>1, ExpectedType DEF CallInv
  <2>2. /\ UNCHANGED <<header, length, result, produced, reported, status>>
        /\ allocated' \in {1, Expected} /\ writer' \in {"array", "scattered"}
    BY <1>7 DEF GetAppendBufferVariable, call
  <2> QED
    BY <1>1, <2>1, <2>2 DEF TypesInv
<1>8. CASE DecompressTags
  <2>1. /\ UNCHANGED <<header, length, result, writer, allocated, reported>>
        /\ produced' \in {body.yields, body.yields - body.last}
        /\ status' \in {"ok", "invalid"}
    BY <1>8 DEF DecompressTags, call, Refused
  <2>2. body.yields \in Nat /\ body.last \in 0 .. body.yields
    BY <1>2, BodiesAssumption
  <2>3. produced' \in Nat
    BY <2>1, <2>2
  <2> QED
    BY <1>1, <2>1, <2>3 DEF TypesInv
<1>9. CASE HandBack
  <2>1. /\ UNCHANGED <<header, length, result, writer, allocated, produced, status>>
        /\ pc = "end"
        /\ reported' = IF api = "c" /\ status = "ok" THEN Value(length) ELSE reported
    BY <1>9 DEF HandBack, call
  <2>2. api = "c" => Value(length) \in Nat
    BY <1>1, <1>2, <2>1, ParseType DEF CallInv, Fits, Legal
  <2> QED
    BY <1>1, <2>1, <2>2 DEF TypesInv
<1>10. CASE UNCHANGED vars
  BY <1>1, <1>10 DEF TypesInv, vars, call
<1> QED
  BY <1>3, <1>4, <1>5, <1>6, <1>7, <1>8, <1>9, <1>10 DEF Next, Returned

LEMMA CallTypes ==
  ASSUME TypesInv
  PROVE  TypeOK
<1>1. /\ api \in Calls /\ header \in Seq(Byte) /\ pos \in Nat /\ pos <= 5 /\ pos <= Len(header)
      /\ room \in Nat /\ result \in Seq(Nat) /\ sunk \in Nat
  BY DEF TypesInv, CallInv, Inv, CallBytes
<1>2. length = None \/ (length \in [1 .. 5 -> 0 .. 127] /\ length[5] < 16)
  BY <1>1, ParseDigits DEF TypesInv
<1>3. Value(Digits) <= Huge
  <2>1. ASSUME NEW i \in 1 .. Len(result) PROVE result[i] \in 0 .. 127
    <3>1. result[i] < 128
      BY DEF TypesInv
    <3>2. result[i] \in Nat
      BY <1>1
    <3>3. \A n \in Nat : n < 128 => n \in 0 .. 127
      OBVIOUS
    <3> QED
      BY <3>1, <3>2, <3>3, Zenon
  <2>2. ASSUME NEW i \in 1 .. 5 PROVE Digits[i] \in 0 .. 127
    <3>1. CASE i <= Len(result)
      <4>1. i \in 1 .. Len(result)
        BY <1>1, <3>1
      <4> QED
        BY <2>1, <3>1, <4>1 DEF Digits
    <3>2. CASE ~(i <= Len(result))
      BY <3>2 DEF Digits
    <3> QED
      BY <3>1, <3>2
  <2> QED
    BY <2>2, ValueBound
<1>4. {room, allocated, produced, sunk, reported} \subseteq Nat
  BY <1>1 DEF TypesInv
<1> QED
  BY <1>1, <1>2, <1>3, <1>4 DEF TypesInv, TypeOK

-----------------------------------------------------------------------------
(***************************************************************************)
(* SnappyDecompressor, with the lemmas of DecompressorProofs for the two   *)
(* sets of streams.                                                        *)
(***************************************************************************)
StreamFacts == INSTANCE DecompressorProofs WITH
                 Expected <- StreamLengths, pos <- streamPos, pc <- streamPc
TagFacts == INSTANCE DecompressorProofs WITH
              Streams <- TagStreams, Expected <- TagLengths, Peeks <- TagPeeks,
              pos <- streamPos, pc <- streamPc

\* The module of the proofs instantiates the decompressor once more.
LEMMA SameStream == (Stream!Init => StreamFacts!Init) /\ (Stream!Next => StreamFacts!Next)
<1>1. Stream!Init => StreamFacts!Init
  BY DEF Stream!Init, StreamFacts!Init
<1>2. \A c : Stream!EntryExtra(c) = StreamFacts!EntryExtra(c)
  BY SMT DEF Stream!EntryExtra, Stream!char_table, StreamFacts!EntryExtra,
     StreamFacts!char_table
<1>3. \A c : Stream!EntryLength(c) = StreamFacts!EntryLength(c)
  BY SMT DEF Stream!EntryLength, Stream!char_table, StreamFacts!EntryLength,
     StreamFacts!char_table
<1>4. \A c : Stream!EntryOffset(c) = StreamFacts!EntryOffset(c)
  BY SMT DEF Stream!EntryOffset, Stream!char_table, StreamFacts!EntryOffset,
     StreamFacts!char_table
<1>5. \A bytes, base, here :
        Stream!UseTag(bytes, base, here) <=> StreamFacts!UseTag(bytes, base, here)
  BY <1>2 DEF Stream!UseTag, Stream!UseTagOf, Stream!kMaximumTagLength,
     StreamFacts!UseTag, StreamFacts!UseTagOf, StreamFacts!kMaximumTagLength
<1>6. Stream!Refill => StreamFacts!Refill
  BY <1>5 DEF Stream!Refill, Stream!sourceVars, Stream!Fragments, Stream!Return,
     Stream!kMaximumTagLength, StreamFacts!Refill, StreamFacts!sourceVars,
     StreamFacts!Fragments, StreamFacts!Return, StreamFacts!kMaximumTagLength
<1>7. Stream!Stitch => StreamFacts!Stitch
  BY DEF Stream!Stitch, Stream!StitchOf, Stream!Fragments, Stream!Least, Stream!Return,
     Stream!kMaximumTagLength, StreamFacts!Stitch, StreamFacts!StitchOf,
     StreamFacts!Fragments, StreamFacts!Least, StreamFacts!Return,
     StreamFacts!kMaximumTagLength
<1>8. Stream!FastLiteral => StreamFacts!FastLiteral
  BY DEF Stream!FastLiteral, Stream!IsLiteral, Stream!LITERAL, Stream!kMaximumTagLength,
     Stream!Drop, StreamFacts!FastLiteral, StreamFacts!IsLiteral, StreamFacts!LITERAL,
     StreamFacts!kMaximumTagLength, StreamFacts!Drop
<1>9. Stream!SlowLiteral => StreamFacts!SlowLiteral
  BY DEF Stream!SlowLiteral, Stream!IsLiteral, Stream!LITERAL, Stream!LongLength,
     Stream!Drop, Stream!Load32Masked, Stream!Huge, StreamFacts!SlowLiteral,
     StreamFacts!IsLiteral, StreamFacts!LITERAL, StreamFacts!LongLength, StreamFacts!Drop,
     StreamFacts!Load32Masked, StreamFacts!Huge
<1>10. Stream!LiteralFragment => StreamFacts!LiteralFragment
  BY DEF Stream!LiteralFragment, Stream!LiteralFrom, Stream!Fragments,
     StreamFacts!LiteralFragment, StreamFacts!LiteralFrom, StreamFacts!Fragments
<1>11. Stream!LiteralEnd => StreamFacts!LiteralEnd
  BY DEF Stream!LiteralEnd, Stream!Drop, StreamFacts!LiteralEnd, StreamFacts!Drop
<1>12. Stream!LiteralRefused => StreamFacts!LiteralRefused
  BY DEF Stream!LiteralRefused, Stream!Least, Stream!sourceVars,
     StreamFacts!LiteralRefused, StreamFacts!Least, StreamFacts!sourceVars
<1>13. \A s, p, k : Stream!Load32Masked(s, p, k) = StreamFacts!Load32Masked(s, p, k)
  BY DEF Stream!Load32Masked, Stream!Huge, StreamFacts!Load32Masked, StreamFacts!Huge
<1>14. \A s, p, k : Stream!Repeated(s, p, k) = StreamFacts!Repeated(s, p, k)
  BY DEF Stream!Repeated, StreamFacts!Repeated
<1>15. \A c : Stream!IsLiteral(c) <=> StreamFacts!IsLiteral(c)
  BY DEF Stream!IsLiteral, Stream!LITERAL, StreamFacts!IsLiteral, StreamFacts!LITERAL
<1>16. Stream!Copy => StreamFacts!Copy
  BY <1>2, <1>3, <1>4, <1>13, <1>14, <1>15 DEF Stream!Copy, Stream!CopyUsing,
     Stream!Drop, StreamFacts!Copy, StreamFacts!CopyUsing, StreamFacts!Drop
<1>17. Stream!Fail => StreamFacts!Fail
  BY DEF Stream!Fail, Stream!Return, StreamFacts!Fail, StreamFacts!Return
<1>18. Stream!Returned => StreamFacts!Returned
  BY DEF Stream!Returned, Stream!vars, StreamFacts!Returned, StreamFacts!vars
<1> QED
  BY <1>1, <1>2, <1>3, <1>4, <1>5, <1>6, <1>7, <1>8,
     <1>9, <1>10, <1>11, <1>12, <1>13, <1>14, <1>15, <1>16, <1>17, <1>18, Zenon
  DEF Stream!Next, StreamFacts!Next

LEMMA SameTags == (Tags!Init => TagFacts!Init) /\ (Tags!Next => TagFacts!Next)
<1>1. Tags!Init => TagFacts!Init
  BY DEF Tags!Init, TagFacts!Init
<1>2. \A c : Tags!EntryExtra(c) = TagFacts!EntryExtra(c)
  BY SMT DEF Tags!EntryExtra, Tags!char_table, TagFacts!EntryExtra, TagFacts!char_table
<1>3. \A c : Tags!EntryLength(c) = TagFacts!EntryLength(c)
  BY SMT DEF Tags!EntryLength, Tags!char_table, TagFacts!EntryLength, TagFacts!char_table
<1>4. \A c : Tags!EntryOffset(c) = TagFacts!EntryOffset(c)
  BY SMT DEF Tags!EntryOffset, Tags!char_table, TagFacts!EntryOffset, TagFacts!char_table
<1>5. \A bytes, base, here :
        Tags!UseTag(bytes, base, here) <=> TagFacts!UseTag(bytes, base, here)
  BY <1>2 DEF Tags!UseTag, Tags!UseTagOf, Tags!kMaximumTagLength, TagFacts!UseTag,
     TagFacts!UseTagOf, TagFacts!kMaximumTagLength
<1>6. Tags!Refill => TagFacts!Refill
  BY <1>5 DEF Tags!Refill, Tags!sourceVars, Tags!Fragments, Tags!Return,
     Tags!kMaximumTagLength, TagFacts!Refill, TagFacts!sourceVars, TagFacts!Fragments,
     TagFacts!Return, TagFacts!kMaximumTagLength
<1>7. Tags!Stitch => TagFacts!Stitch
  BY DEF Tags!Stitch, Tags!StitchOf, Tags!Fragments, Tags!Least, Tags!Return,
     Tags!kMaximumTagLength, TagFacts!Stitch, TagFacts!StitchOf, TagFacts!Fragments,
     TagFacts!Least, TagFacts!Return, TagFacts!kMaximumTagLength
<1>8. Tags!FastLiteral => TagFacts!FastLiteral
  BY DEF Tags!FastLiteral, Tags!IsLiteral, Tags!LITERAL, Tags!kMaximumTagLength,
     Tags!Drop, TagFacts!FastLiteral, TagFacts!IsLiteral, TagFacts!LITERAL,
     TagFacts!kMaximumTagLength, TagFacts!Drop
<1>9. Tags!SlowLiteral => TagFacts!SlowLiteral
  BY DEF Tags!SlowLiteral, Tags!IsLiteral, Tags!LITERAL, Tags!LongLength, Tags!Drop,
     Tags!Load32Masked, Tags!Huge, TagFacts!SlowLiteral, TagFacts!IsLiteral,
     TagFacts!LITERAL, TagFacts!LongLength, TagFacts!Drop, TagFacts!Load32Masked,
     TagFacts!Huge
<1>10. Tags!LiteralFragment => TagFacts!LiteralFragment
  BY DEF Tags!LiteralFragment, Tags!LiteralFrom, Tags!Fragments, TagFacts!LiteralFragment,
     TagFacts!LiteralFrom, TagFacts!Fragments
<1>11. Tags!LiteralEnd => TagFacts!LiteralEnd
  BY DEF Tags!LiteralEnd, Tags!Drop, TagFacts!LiteralEnd, TagFacts!Drop
<1>12. Tags!LiteralRefused => TagFacts!LiteralRefused
  BY DEF Tags!LiteralRefused, Tags!Least, Tags!sourceVars, TagFacts!LiteralRefused,
     TagFacts!Least, TagFacts!sourceVars
<1>13. \A s, p, k : Tags!Load32Masked(s, p, k) = TagFacts!Load32Masked(s, p, k)
  BY DEF Tags!Load32Masked, Tags!Huge, TagFacts!Load32Masked, TagFacts!Huge
<1>14. \A s, p, k : Tags!Repeated(s, p, k) = TagFacts!Repeated(s, p, k)
  BY DEF Tags!Repeated, TagFacts!Repeated
<1>15. \A c : Tags!IsLiteral(c) <=> TagFacts!IsLiteral(c)
  BY DEF Tags!IsLiteral, Tags!LITERAL, TagFacts!IsLiteral, TagFacts!LITERAL
<1>16. Tags!Copy => TagFacts!Copy
  BY <1>2, <1>3, <1>4, <1>13, <1>14, <1>15 DEF Tags!Copy, Tags!CopyUsing, Tags!Drop,
     TagFacts!Copy, TagFacts!CopyUsing, TagFacts!Drop
<1>17. Tags!Fail => TagFacts!Fail
  BY DEF Tags!Fail, Tags!Return, TagFacts!Fail, TagFacts!Return
<1>18. Tags!Returned => TagFacts!Returned
  BY DEF Tags!Returned, Tags!vars, TagFacts!Returned, TagFacts!vars
<1> QED
  BY <1>1, <1>2, <1>3, <1>4, <1>5, <1>6, <1>7, <1>8,
     <1>9, <1>10, <1>11, <1>12, <1>13, <1>14, <1>15, <1>16, <1>17, <1>18, Zenon
  DEF Tags!Next, TagFacts!Next

LEMMA StreamSays ==
  ASSUME StreamFacts!StreamInv
  PROVE  StreamIsDecoded
<1>1. StreamFacts!BufferIsNext /\ StreamFacts!TagReadable /\ StreamFacts!ResultIsReference
  BY StreamFacts!InvariantSays
<1>2. StreamFacts!BufferIsNext => Stream!BufferIsNext
  BY DEF Stream!BufferIsNext, Stream!Used, StreamFacts!BufferIsNext, StreamFacts!Used
<1>3. \A c : Stream!TagExtra(c) = StreamFacts!TagExtra(c)
  BY DEF Stream!TagExtra, Stream!LITERAL, Stream!COPY_1_BYTE_OFFSET,
     Stream!COPY_2_BYTE_OFFSET, StreamFacts!TagExtra, StreamFacts!LITERAL,
     StreamFacts!COPY_1_BYTE_OFFSET, StreamFacts!COPY_2_BYTE_OFFSET
<1>4. StreamFacts!TagReadable => Stream!TagReadable
  BY <1>3 DEF Stream!TagReadable, Stream!kMaximumTagLength, StreamFacts!TagReadable,
     StreamFacts!kMaximumTagLength
<1>5. \A s, limit : Stream!Decode(s, limit) = StreamFacts!Decode(s, limit)
  BY DEF Stream!Decode, Stream!DecodeFrom, Stream!ElementEnd, Stream!ElementBytes,
     Stream!ElementIsLegal, Stream!ElementBody, Stream!TagExtra, Stream!IsLiteral,
     Stream!LITERAL, Stream!COPY_1_BYTE_OFFSET, Stream!COPY_2_BYTE_OFFSET,
     Stream!ElementLength, Stream!ElementOffset, Stream!Load32Masked, Stream!Repeated,
     Stream!Huge, Stream!Byte, StreamFacts!Decode, StreamFacts!DecodeFrom,
     StreamFacts!ElementEnd, StreamFacts!ElementBytes, StreamFacts!ElementIsLegal,
     StreamFacts!ElementBody, StreamFacts!TagExtra, StreamFacts!IsLiteral,
     StreamFacts!LITERAL, StreamFacts!COPY_1_BYTE_OFFSET, StreamFacts!COPY_2_BYTE_OFFSET,
     StreamFacts!ElementLength, StreamFacts!ElementOffset, StreamFacts!Load32Masked,
     StreamFacts!Repeated, StreamFacts!Huge, StreamFacts!Byte
<1>6. StreamFacts!ResultIsReference => Stream!ResultIsReference
  BY <1>5 DEF Stream!ResultIsReference, Stream!LengthWraps, StreamFacts!ResultIsReference,
     StreamFacts!LengthWraps
<1> QED
  BY <1>1, <1>2, <1>4, <1>6 DEF StreamIsDecoded

LEMMA TagsSay ==
  ASSUME TagFacts!StreamInv
  PROVE  StreamIsDecoded
<1>1. TagFacts!BufferIsNext /\ TagFacts!TagReadable /\ TagFacts!ResultIsReference
  BY TagFacts!InvariantSays
<1>2. TagFacts!BufferIsNext => Stream!BufferIsNext
  BY DEF Stream!BufferIsNext, Stream!Used, TagFacts!BufferIsNext, TagFacts!Used
<1>3. \A c : Stream!TagExtra(c) = TagFacts!TagExtra(c)
  BY DEF Stream!TagExtra, Stream!LITERAL, Stream!COPY_1_BYTE_OFFSET,
     Stream!COPY_2_BYTE_OFFSET, TagFacts!TagExtra, TagFacts!LITERAL,
     TagFacts!COPY_1_BYTE_OFFSET, TagFacts!COPY_2_BYTE_OFFSET
<1>4. TagFacts!TagReadable => Stream!TagReadable
  BY <1>3 DEF Stream!TagReadable, Stream!kMaximumTagLength, TagFacts!TagReadable,
     TagFacts!kMaximumTagLength
<1>5. \A s, limit : Stream!Decode(s, limit) = TagFacts!Decode(s, limit)
  BY DEF Stream!Decode, Stream!DecodeFrom, Stream!ElementEnd, Stream!ElementBytes,
     Stream!ElementIsLegal, Stream!ElementBody, Stream!TagExtra, Stream!IsLiteral,
     Stream!LITERAL, Stream!COPY_1_BYTE_OFFSET, Stream!COPY_2_BYTE_OFFSET,
     Stream!ElementLength, Stream!ElementOffset, Stream!Load32Masked, Stream!Repeated,
     Stream!Huge, Stream!Byte, TagFacts!Decode, TagFacts!DecodeFrom, TagFacts!ElementEnd,
     TagFacts!ElementBytes, TagFacts!ElementIsLegal, TagFacts!ElementBody,
     TagFacts!TagExtra, TagFacts!IsLiteral, TagFacts!LITERAL, TagFacts!COPY_1_BYTE_OFFSET,
     TagFacts!COPY_2_BYTE_OFFSET, TagFacts!ElementLength, TagFacts!ElementOffset,
     TagFacts!Load32Masked, TagFacts!Repeated, TagFacts!Huge, TagFacts!Byte
<1>6. TagFacts!ResultIsReference => Stream!ResultIsReference
  BY <1>5 DEF Stream!ResultIsReference, Stream!LengthWraps, TagFacts!ResultIsReference,
     TagFacts!LengthWraps
<1> QED
  BY <1>1, <1>2, <1>4, <1>6 DEF StreamIsDecoded

\* One of the two decompressors runs, or none does.
StreamAnyInv == IF part = "tags" THEN TagFacts!StreamInv ELSE StreamFacts!StreamInv

LEMMA ByteIs == StreamFacts!Byte = 0 .. 255 /\ TagFacts!Byte = 0 .. 255 /\ Byte = 0 .. 255
BY DEF StreamFacts!Byte, TagFacts!Byte, Byte

LEMMA StreamAnyInit == AnyInit => StreamAnyInv
<1> USE StreamsAssumption
<1> SUFFICES ASSUME AnyInit PROVE StreamAnyInv
  OBVIOUS
<1>1. CASE part = "tags"
  <2>1. TagFacts!Init
    BY <1>1, SameTags DEF AnyInit, StreamInit
  <2>2. TagFacts!StreamInv
    BY ByteIs, <2>1, TagFacts!InitStep
  <2> QED
    BY <1>1, <2>2 DEF StreamAnyInv
<1>2. CASE part # "tags"
  <2>1. StreamFacts!Init
    BY <1>2, SameStream DEF AnyInit, StreamInit
  <2>2. StreamFacts!StreamInv
    BY ByteIs, <2>1, StreamFacts!InitStep
  <2> QED
    BY <1>2, <2>2 DEF StreamAnyInv
<1> QED
  BY <1>1, <1>2

LEMMA StreamAnyNext == StreamAnyInv /\ [AnyNext]_allVars => StreamAnyInv'
<1> USE StreamsAssumption
<1> SUFFICES ASSUME StreamAnyInv, [AnyNext]_allVars PROVE StreamAnyInv'
  OBVIOUS
<1>1. CASE StreamRuns
  <2>1. part' = part
    BY <1>1 DEF StreamRuns, OnlyStream
  <2>2. CASE part = "stream"
    <3>1. StreamFacts!Next
      BY <1>1, <2>2, SameStream DEF StreamRuns
    <3>2. StreamFacts!StreamInv'
      BY <2>2, <3>1, StreamFacts!NextStep DEF StreamAnyInv
    <3> QED
      BY <2>1, <2>2, <3>2 DEF StreamAnyInv
  <2>3. CASE part = "tags"
    <3>1. TagFacts!Next
      BY <1>1, <2>3, SameTags DEF StreamRuns
    <3>2. TagFacts!StreamInv'
      BY <2>3, <3>1, TagFacts!NextStep DEF StreamAnyInv
    <3> QED
      BY <2>1, <2>3, <3>2 DEF StreamAnyInv
  <2> QED
    BY <1>1, <2>2, <2>3 DEF StreamRuns
<1>2. CASE UNCHANGED <<part, streamVars>>
  <2>1. part' = part
    BY <1>2
  <2>2. UNCHANGED StreamFacts!vars /\ UNCHANGED TagFacts!vars
    BY <1>2 DEF StreamFacts!vars, TagFacts!vars, streamVars
  <2>3. CASE part = "tags"
    <3>1. TagFacts!StreamInv'
      BY <2>2, <2>3, TagFacts!StutterStep DEF StreamAnyInv
    <3> QED
      BY <2>1, <2>3, <3>1 DEF StreamAnyInv
  <2>4. CASE part # "tags"
    <3>1. StreamFacts!StreamInv'
      BY <2>2, <2>4, StreamFacts!StutterStep DEF StreamAnyInv
    <3> QED
      BY <2>1, <2>4, <3>1 DEF StreamAnyInv
  <2> QED
    BY <2>3, <2>4
<1>3. CASE CallRuns
  BY <1>2, <1>3 DEF CallRuns
<1>4. CASE CopyRuns
  BY <1>2, <1>4 DEF CopyRuns
<1>5. CASE ArrayRuns
  BY <1>2, <1>5 DEF ArrayRuns
<1>6. CASE IOVecRuns
  BY <1>2, <1>6 DEF IOVecRuns
<1>7. CASE BlocksRun
  BY <1>2, <1>7 DEF BlocksRun
<1>8. CASE UNCHANGED allVars
  BY <1>2, <1>8 DEF allVars
<1> QED
  BY <1>1, <1>3, <1>4, <1>5, <1>6, <1>7, <1>8 DEF AnyNext

LEMMA StreamAnySays == StreamAnyInv => StreamIsDecoded
BY StreamSays, TagsSay DEF StreamAnyInv

\* For all streams, on short ones in fragments of any length and on long ones:
\* however the source cuts a stream, what is buffered is what comes next in it, a
\* tag is read when it is whole, and the call returns what the reference makes of
\* the stream.
THEOREM TheStreamIsDecoded == AnySpec => []StreamIsDecoded
BY StreamAnyInit, StreamAnyNext, StreamAnySays, PTL DEF AnySpec

LEMMA StreamTypes ==
  ASSUME StreamAnyInv
  PROVE  Stream!TypeOK
<1>1. CASE part = "tags"
  <2>1. TagFacts!TypeOK
    BY <1>1 DEF StreamAnyInv, TagFacts!StreamInv, TagFacts!Core
  <2> QED
    BY <2>1 DEF TagFacts!TypeOK, Stream!TypeOK, TagFacts!kMaximumTagLength,
                Stream!kMaximumTagLength, TagFacts!Byte, Stream!Byte
<1>2. CASE part # "tags"
  <2>1. StreamFacts!TypeOK
    BY <1>2 DEF StreamAnyInv, StreamFacts!StreamInv, StreamFacts!Core
  <2> QED
    BY <2>1 DEF StreamFacts!TypeOK, Stream!TypeOK, StreamFacts!kMaximumTagLength,
                Stream!kMaximumTagLength, StreamFacts!Byte, Stream!Byte
<1> QED
  BY <1>1, <1>2

-----------------------------------------------------------------------------
(***************************************************************************)
(* All the parts.                                                          *)
(***************************************************************************)
PartsInv == TypesInv /\ IInv /\ StreamAnyInv /\ WritersInv

LEMMA PartsInit == AnyInit => PartsInv
BY TypesInit, InitHolds, StreamAnyInit, WritersInit DEF AnyInit, PartsInv

LEMMA CopyOrNone == [AnyNext]_allVars => [Next]_vars /\ [CopyNext]_copyVars
<1> SUFFICES ASSUME [AnyNext]_allVars PROVE [Next]_vars /\ [CopyNext]_copyVars
  OBVIOUS
<1>1. CASE CallRuns
  BY <1>1 DEF CallRuns
<1>2. CASE CopyRuns
  BY <1>2 DEF CopyRuns
<1>3. CASE UNCHANGED vars /\ UNCHANGED copyVars
  BY <1>3
<1>4. CASE StreamRuns
  BY <1>3, <1>4 DEF StreamRuns, OnlyStream
<1>5. CASE ArrayRuns \/ IOVecRuns \/ BlocksRun
  BY <1>3, <1>5 DEF ArrayRuns, IOVecRuns, BlocksRun
<1>6. CASE UNCHANGED allVars
  BY <1>3, <1>6 DEF allVars
<1> QED
  BY <1>1, <1>2, <1>4, <1>5, <1>6 DEF AnyNext

LEMMA PartsStep == PartsInv /\ [AnyNext]_allVars => PartsInv'
<1> SUFFICES ASSUME PartsInv, [AnyNext]_allVars PROVE PartsInv'
  OBVIOUS
<1>1. StreamAnyInv' /\ WritersInv'
  BY StreamAnyNext, WritersStep, WritersKeep DEF PartsInv
<1> QED
  BY <1>1, CopyOrNone, TypesNext, StepHolds DEF PartsInv

\* For all values of the constants, every variable of every part has its type and
\* no writer makes a buffer of its memory larger or smaller.
THEOREM TheTypesAreKept == AnySpec => []TypesAndSizesOK
<1>1. PartsInv => TypesAndSizesOK
  <2> SUFFICES ASSUME PartsInv PROVE TypesAndSizesOK
    OBVIOUS
  <2>1. TypeOK /\ CopyTypeOK /\ Stream!TypeOK
    BY CallTypes, StreamTypes DEF PartsInv, IInv
  <2>2. /\ Array!TypeOK /\ IOVec!TypeOK /\ Blocks!TypeOK
        /\ Array!InsideArray /\ IOVec!InsideBuffers /\ Blocks!InsideBlocks
    BY ArrayHolds, IOVecHolds, BlocksHolds DEF PartsInv, WritersInv
  <2> QED
    BY <2>1, <2>2 DEF TypesAndSizesOK
<1> QED
  BY <1>1, PartsInit, PartsStep, PTL DEF AnySpec

\* For all values of the constants, side by side as the parts are run: all that is
\* claimed of the calls, of IncrementalCopy, of the decompressor and of the writers.
THEOREM ThePartsAreSafe ==
  AnySpec => [](/\ LengthsAgree /\ NeverOverrun /\ CallsAreExact
                /\ InsideBuffer /\ ResultIsPattern /\ StreamIsDecoded /\ WritersAgree)
<1>1. ASSUME PartsInv
      PROVE  /\ LengthsAgree /\ NeverOverrun /\ CallsAreExact
             /\ InsideBuffer /\ ResultIsPattern /\ StreamIsDecoded /\ WritersAgree
  <2>1. CallInv /\ Inv /\ IInv /\ StreamAnyInv /\ ArrayInv /\ IOVecInv /\ BlocksInv
    BY <1>1 DEF PartsInv, TypesInv, CallInv, WritersInv
  <2>2. LengthsAgree
    BY <2>1, InvAgrees
  <2>3. NeverOverrun /\ CallsAreExact
    BY <2>1, CallSays DEF Inv
  <2>4. InsideBuffer /\ ResultIsPattern
    BY <2>1, CopyEnds DEF IInv
  <2>5. StreamIsDecoded /\ WritersAgree
    BY <2>1, StreamAnySays, ArrayHolds, IOVecHolds, BlocksHolds DEF WritersAgree
  <2> QED
    BY <2>2, <2>3, <2>4, <2>5
<1> QED
  BY <1>1, PartsInit, PartsStep, PTL DEF AnySpec

-----------------------------------------------------------------------------
(***************************************************************************)
(* No part goes on for ever.                                               *)
(***************************************************************************)
StreamToDo == IF part = "tags" THEN TagFacts!ToDo ELSE StreamFacts!ToDo

LEMMA StreamLowers ==
  ASSUME StreamAnyInv, StreamAnyInv', [AnyNext]_allVars
  PROVE  [StreamToDo' < StreamToDo]_streamVars
<1> USE StreamsAssumption
<1>1. CASE StreamRuns
  <2>1. part' = part
    BY <1>1 DEF StreamRuns, OnlyStream
  <2>2. CASE part = "stream"
    <3>1. StreamFacts!Next
      BY <1>1, <2>2, SameStream DEF StreamRuns
    <3>2. StreamFacts!StreamInv /\ StreamFacts!StreamInv'
      BY <2>1, <2>2 DEF StreamAnyInv
    <3>3. [StreamFacts!ToDo' < StreamFacts!ToDo]_(StreamFacts!vars)
      BY <3>1, <3>2, StreamFacts!NextLowers
    <3>4. UNCHANGED StreamFacts!vars => UNCHANGED streamVars
      BY DEF StreamFacts!vars, streamVars
    <3> QED
      BY <2>1, <2>2, <3>3, <3>4 DEF StreamToDo
  <2>3. CASE part = "tags"
    <3>1. TagFacts!Next
      BY <1>1, <2>3, SameTags DEF StreamRuns
    <3>2. TagFacts!StreamInv /\ TagFacts!StreamInv'
      BY <2>1, <2>3 DEF StreamAnyInv
    <3>3. [TagFacts!ToDo' < TagFacts!ToDo]_(TagFacts!vars)
      BY <3>1, <3>2, TagFacts!NextLowers
    <3>4. UNCHANGED TagFacts!vars => UNCHANGED streamVars
      BY DEF TagFacts!vars, streamVars
    <3> QED
      BY <2>1, <2>3, <3>3, <3>4 DEF StreamToDo
  <2> QED
    BY <1>1, <2>2, <2>3 DEF StreamRuns
<1>2. CASE UNCHANGED streamVars
  BY <1>2
<1>3. CASE CallRuns \/ CopyRuns
  BY <1>2, <1>3 DEF CallRuns, CopyRuns
<1>4. CASE ArrayRuns \/ IOVecRuns \/ BlocksRun
  BY <1>2, <1>4 DEF ArrayRuns, IOVecRuns, BlocksRun
<1>5. CASE UNCHANGED allVars
  BY <1>2, <1>5 DEF allVars
<1> QED
  BY <1>1, <1>3, <1>4, <1>5 DEF AnyNext

LEMMA IOVecRunLowers ==
  ASSUME IOVecInv, [AnyNext]_allVars
  PROVE  [iovPc # "idle" => IOVecToDo' < IOVecToDo]_iovVars
<1>1. UNCHANGED IOVec!vars => UNCHANGED iovVars
  BY DEF IOVec!vars, iovVars
<1>2. CASE IOVecRuns
  BY <1>1, <1>2, IOVecLowers DEF IOVecRuns
<1>3. CASE UNCHANGED iovVars
  BY <1>3
<1>4. CASE CallRuns \/ CopyRuns \/ StreamRuns
  BY <1>3, <1>4 DEF CallRuns, CopyRuns, StreamRuns, OnlyStream
<1>5. CASE ArrayRuns \/ BlocksRun
  BY <1>3, <1>5 DEF ArrayRuns, BlocksRun
<1>6. CASE UNCHANGED allVars
  BY <1>3, <1>6 DEF allVars
<1> QED
  BY <1>2, <1>4, <1>5, <1>6 DEF AnyNext

\* The part of PartsEnd that is safety, for all values of the constants: what is
\* left to do for IncrementalCopy, for the decompressor and for a call of the iovec
\* writer is never less than nothing, and every step of theirs makes it less.
THEOREM ThePartsGetOn ==
  AnySpec => /\ [](CopyToDo \in Nat /\ StreamToDo \in Nat /\ IOVecToDo \in Nat)
             /\ [][CopyToDo' < CopyToDo]_copyVars
             /\ [][StreamToDo' < StreamToDo]_streamVars
             /\ [][iovPc # "idle" => IOVecToDo' < IOVecToDo]_iovVars
<1>1. PartsInv => CopyToDo \in Nat /\ StreamToDo \in Nat /\ IOVecToDo \in Nat
  <2> SUFFICES ASSUME PartsInv PROVE CopyToDo \in Nat /\ StreamToDo \in Nat /\ IOVecToDo \in Nat
    OBVIOUS
  <2>1. CopyToDo \in Nat /\ IOVecToDo \in Nat
    BY CopyToDoIs, IOVecToDoIs DEF PartsInv, WritersInv
  <2>2. CASE part = "tags"
    <3>1. TagFacts!ToDo \in Nat
      BY <2>2, TagFacts!ToDoIs DEF PartsInv, StreamAnyInv, TagFacts!StreamInv
    <3> QED
      BY <2>1, <2>2, <3>1 DEF StreamToDo
  <2>3. CASE part # "tags"
    <3>1. StreamFacts!ToDo \in Nat
      BY <2>3, StreamFacts!ToDoIs DEF PartsInv, StreamAnyInv, StreamFacts!StreamInv
    <3> QED
      BY <2>1, <2>3, <3>1 DEF StreamToDo
  <2> QED
    BY <2>2, <2>3
<1>2. PartsInv /\ PartsInv' /\ [AnyNext]_allVars =>
        /\ [CopyToDo' < CopyToDo]_copyVars
        /\ [StreamToDo' < StreamToDo]_streamVars
        /\ [iovPc # "idle" => IOVecToDo' < IOVecToDo]_iovVars
  <2> SUFFICES ASSUME PartsInv, PartsInv', [AnyNext]_allVars
               PROVE  /\ [CopyToDo' < CopyToDo]_copyVars
                      /\ [StreamToDo' < StreamToDo]_streamVars
                      /\ [iovPc # "idle" => IOVecToDo' < IOVecToDo]_iovVars
    OBVIOUS
  <2>1. [CopyNext]_copyVars
    BY CopyOrNone
  <2>2. [CopyToDo' < CopyToDo]_copyVars
    BY <2>1, CopyLowers DEF PartsInv
  <2> QED
    BY <2>2, StreamLowers, IOVecRunLowers DEF PartsInv, WritersInv
<1> QED
  BY <1>1, <1>2, PartsInit, PartsStep, PTL DEF AnySpec
=============================================================================
