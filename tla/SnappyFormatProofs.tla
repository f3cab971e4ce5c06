------------------------- MODULE SnappyFormatProofs -------------------------
(***************************************************************************)
(* The reference decoder: it is defined for every sequence of bytes, and   *)
(* what it makes of a stream, it goes on from when the stream is           *)
(* continued.  The proofs about the compressor and the decompressor use    *)
(* these facts.                                                            *)
(***************************************************************************)
EXTENDS SnappyFormat, SequenceTheorems, WellFoundedInduction, TLAPS

\* A non-empty set of natural numbers has a least element.
LEMMA LeastOfNat ==
  ASSUME NEW T \in SUBSET Nat, T # {}
  PROVE  \E x \in T : \A y \in T : x <= y
<1>1. PICK x \in T : \A y \in T : ~(<<y, x>> \in OpToRel(<, Nat))
  BY NatLessThanWellFounded, WFMin
<1>2. \A y \in T : x <= y
  <2> TAKE y \in T
  <2>1. x \in Nat /\ y \in Nat
    OBVIOUS
  <2>2. ~(y < x)
    BY <1>1, <2>1 DEF OpToRel
  <2>3. QED
    BY <2>1, <2>2
<1>3. QED
  BY <1>2

-----------------------------------------------------------------------------
(***************************************************************************)
(* Elements.                                                               *)
(***************************************************************************)
LEMMA ByteIs ==
  ASSUME NEW s \in Seq(Byte), NEW i \in Int, 1 <= i, i <= Len(s)
  PROVE  s[i] \in 0 .. 255 /\ s[i] \in Nat
<1>1. i \in 1 .. Len(s)
  OBVIOUS
<1>2. s[i] \in Byte
  BY <1>1
<1>3. \A b \in Byte : b \in 0 .. 255 /\ b \in Nat
  BY DEF Byte
<1> QED
  BY <1>2, <1>3

LEMMA TagIs ==
  ASSUME NEW tag \in 0 .. 255
  PROVE  /\ tag % 4 \in 0 .. 3 /\ tag \div 4 \in 0 .. 63
         /\ TagExtra(tag) \in 0 .. 4
         /\ IsLiteral(tag) <=> tag % 4 = 0
         /\ IsLiteral(tag) /\ tag \div 4 < 60 => TagExtra(tag) = 0
         /\ IsLiteral(tag) /\ tag \div 4 >= 60 => TagExtra(tag) = (tag \div 4) - 59
         /\ tag % 4 = 1 => TagExtra(tag) = 1
         /\ tag % 4 = 2 => TagExtra(tag) = 2
         /\ tag % 4 = 3 => TagExtra(tag) = 4
BY SMT DEF TagExtra, IsLiteral, LITERAL, COPY_1_BYTE_OFFSET, COPY_2_BYTE_OFFSET

LEMMA DigitsMakeANumber ==
  ASSUME NEW a \in Nat, NEW b \in Nat, NEW c \in Nat, NEW d \in Nat
  PROVE  /\ a + 256 * (b + 256 * (c + 256 * d)) \in Nat
         /\ c = 0 /\ d = 0 => a + 256 * (b + 256 * (c + 256 * d)) = a + 256 * b
         /\ b = 0 /\ c = 0 /\ d = 0 => a + 256 * (b + 256 * (c + 256 * d)) = a
OBVIOUS

\* The bytes that a load keeps make a number.
LEMMA LoadIs ==
  ASSUME NEW s \in Seq(Byte), NEW p \in Nat, NEW k \in 0 .. 4, p + k <= Len(s)
  PROVE  /\ Load32Masked(s, p, k) \in Nat
         /\ k = 0 => Load32Masked(s, p, k) = 0
         /\ k = 1 => Load32Masked(s, p, k) = s[p + 1]
         /\ k = 2 => Load32Masked(s, p, k) = s[p + 1] + 256 * s[p + 2]
<1> DEFINE at(i) == IF k > i THEN s[p + i + 1] ELSE 0
<1>1. ASSUME NEW i \in 0 .. 3 PROVE at(i) \in Nat
  <2>1. k > i => p + i + 1 \in Int /\ 1 <= p + i + 1 /\ p + i + 1 <= Len(s)
    OBVIOUS
  <2>2. k > i => s[p + i + 1] \in Nat
    BY <2>1, ByteIs
  <2>3. CASE k > i
    BY <2>2, <2>3, Zenon
  <2>4. CASE ~(k > i)
    BY <2>4
  <2> QED
    BY <2>3, <2>4
<1>2. at(0) \in Nat /\ at(1) \in Nat /\ at(2) \in Nat /\ at(3) \in Nat
  BY <1>1
<1>3. Huge \in Nat
  BY DEF Huge
<1>4. Load32Masked(s, p, k) = IF k = 4 /\ s[p + 4] >= 64 THEN Huge
                              ELSE at(0) + 256 * (at(1) + 256 * (at(2) + 256 * at(3)))
  BY DEF Load32Masked
<1>5. /\ k = 0 => at(0) = 0 /\ at(1) = 0 /\ at(2) = 0 /\ at(3) = 0
      /\ k = 1 => at(0) = s[p + 1] /\ at(1) = 0 /\ at(2) = 0 /\ at(3) = 0
      /\ k = 2 => at(0) = s[p + 1] /\ at(1) = s[p + 2] /\ at(2) = 0 /\ at(3) = 0
  OBVIOUS
<1> DEFINE total == at(0) + 256 * (at(1) + 256 * (at(2) + 256 * at(3)))
<1> HIDE DEF at
<1>6. /\ total \in Nat
      /\ k = 0 => total = 0
      /\ k = 1 => total = s[p + 1]
      /\ k = 2 => total = s[p + 1] + 256 * s[p + 2]
  <2>1. /\ total \in Nat
        /\ at(2) = 0 /\ at(3) = 0 => total = at(0) + 256 * at(1)
        /\ at(1) = 0 /\ at(2) = 0 /\ at(3) = 0 => total = at(0)
    BY <1>2, DigitsMakeANumber, SMTT(30)
  <2> HIDE DEF total
  <2> QED
    BY <2>1, <1>5
<1> HIDE DEF total
<1>7. Load32Masked(s, p, k) = IF k = 4 /\ s[p + 4] >= 64 THEN Huge ELSE total
  BY <1>4, Zenon DEF total
<1> QED
  BY <1>3, <1>6, <1>7

\* An element that is not cut off has a length and an offset; a legal one ends
\* inside the stream and adds as many bytes as its length says.
LEMMA ElementIs ==
  ASSUME NEW s \in Seq(Byte), NEW p \in Nat, p < Len(s), ElementBody(s, p) <= Len(s)
  PROVE  /\ ElementBody(s, p) \in Nat /\ ElementBody(s, p) > p
         /\ ElementLength(s, p) \in Nat \ {0} /\ ElementOffset(s, p) \in Nat
         /\ ElementEnd(s, p) \in Nat /\ ElementEnd(s, p) > p
<1> DEFINE tag == s[p + 1]
           extra == TagExtra(tag)
           load == Load32Masked(s, p + 1, extra)
<1>1. tag \in 0 .. 255
  <2>1. p + 1 \in Int /\ 1 <= p + 1 /\ p + 1 <= Len(s)
    OBVIOUS
  <2> QED
    BY <2>1, ByteIs
<1> HIDE DEF tag
<1>2. /\ tag % 4 \in 0 .. 3 /\ tag \div 4 \in 0 .. 63 /\ (tag \div 4) % 8 \in 0 .. 7
      /\ tag \div 32 \in 0 .. 7
      /\ extra \in 0 .. 4
      /\ tag \in Int
  <2>1. TagExtra(tag) \in 0 .. 4
    BY <1>1, TagIs
  <2>2. /\ tag % 4 \in 0 .. 3 /\ tag \div 4 \in 0 .. 63 /\ (tag \div 4) % 8 \in 0 .. 7
        /\ tag \div 32 \in 0 .. 7
    BY <1>1
  <2> QED
    BY <1>1, <2>1, <2>2
<1>3. ElementBody(s, p) = p + 1 + extra
  BY DEF ElementBody, tag
<1>4. load \in Nat
  BY <1>2, <1>3, LoadIs
<1> HIDE DEF load, extra
<1>5. ElementLength(s, p) = CASE IsLiteral(tag) /\ tag \div 4 < 60 -> tag \div 4 + 1
                              [] IsLiteral(tag) /\ tag \div 4 >= 60 -> load + 1
                              [] tag % 4 = COPY_1_BYTE_OFFSET -> ((tag \div 4) % 8) + 4
                              [] OTHER -> tag \div 4 + 1
  BY DEF ElementLength, tag, load, extra
<1>6. ElementOffset(s, p) =
        (IF tag % 4 = COPY_1_BYTE_OFFSET THEN (tag \div 32) * 256 ELSE 0) + load
  BY DEF ElementOffset, tag, load, extra
<1>7. ElementLength(s, p) \in Nat \ {0}
  <2> HIDE DEF load
  <2>1. /\ (tag \div 4) + 1 \in Nat \ {0} /\ load + 1 \in Nat \ {0}
        /\ ((tag \div 4) % 8) + 4 \in Nat \ {0}
    BY <1>2, <1>4
  <2>2. \/ ElementLength(s, p) = tag \div 4 + 1
        \/ ElementLength(s, p) = load + 1
        \/ ElementLength(s, p) = ((tag \div 4) % 8) + 4
    BY <1>5, <1>2
  <2> QED
    BY <2>1, <2>2
<1>8. ElementOffset(s, p) \in Nat
  BY <1>2, <1>4, <1>6
<1>9. /\ ElementEnd(s, p) = ElementBody(s, p) + (IF IsLiteral(tag) THEN ElementLength(s, p) ELSE 0)
  BY DEF ElementEnd, tag
<1> QED
  BY <1>2, <1>3, <1>7, <1>8, <1>9

LEMMA RepeatedIs ==
  ASSUME NEW out \in Seq(Byte), NEW offset \in 1 .. Len(out), NEW len \in Nat
  PROVE  /\ Repeated(out, offset, len) \in Seq(Byte) /\ Len(Repeated(out, offset, len)) = len
<1>1. ASSUME NEW i \in 1 .. len
      PROVE  out[Len(out) - offset + 1 + ((i - 1) % offset)] \in Byte
  <2>1. (i - 1) % offset \in 0 .. offset - 1
    OBVIOUS
  <2>2. Len(out) - offset + 1 + ((i - 1) % offset) \in 1 .. Len(out)
    BY <2>1
  <2> QED
    BY <2>2
<1>2. Repeated(out, offset, len) \in [1 .. len -> Byte]
  BY <1>1 DEF Repeated
<1> QED
  BY <1>2

LEMMA ElementMoves ==
  ASSUME NEW s \in Seq(Byte), NEW p \in Nat, p < Len(s), NEW out \in Seq(Byte), NEW limit,
         ElementIsLegal(s, p, out, limit)
  PROVE  /\ ElementEnd(s, p) \in Nat /\ ElementEnd(s, p) > p /\ ElementEnd(s, p) <= Len(s)
         /\ ElementBytes(s, p, out) \in Seq(Byte)
         /\ Len(ElementBytes(s, p, out)) = ElementLength(s, p)
<1>1. ElementBody(s, p) <= Len(s) /\ ElementEnd(s, p) <= Len(s)
  BY DEF ElementIsLegal
<1>2. /\ ElementBody(s, p) \in Nat /\ ElementBody(s, p) > p
      /\ ElementLength(s, p) \in Nat \ {0}
      /\ ElementEnd(s, p) \in Nat /\ ElementEnd(s, p) > p
  BY <1>1, ElementIs
<1>3. CASE IsLiteral(s[p + 1])
  <2>1. ElementEnd(s, p) = ElementBody(s, p) + ElementLength(s, p)
    BY <1>3 DEF ElementEnd
  <2>2. ElementBytes(s, p, out) = SubSeq(s, ElementBody(s, p) + 1, ElementEnd(s, p))
    BY <1>3 DEF ElementBytes
  <2> DEFINE from == ElementBody(s, p)
             to == ElementEnd(s, p)
  <2> HIDE DEF from, to
  <2>3. from \in Nat /\ to \in Nat /\ to <= Len(s) /\ from <= to
    BY <1>1, <1>2, <2>1 DEF from, to
  <2>4. SubSeq(s, from + 1, to) \in Seq(Byte) /\ Len(SubSeq(s, from + 1, to)) = to - from
    BY <2>3
  <2> QED
    BY <1>1, <1>2, <2>1, <2>2, <2>4 DEF from, to
<1>4. CASE ~IsLiteral(s[p + 1])
  <2>1. ElementOffset(s, p) \in 1 .. Len(out)
    BY <1>4 DEF ElementIsLegal
  <2>2. ElementBytes(s, p, out) = Repeated(out, ElementOffset(s, p), ElementLength(s, p))
    BY <1>4 DEF ElementBytes
  <2> QED
    BY <1>1, <1>2, <2>1, <2>2, RepeatedIs
<1> QED
  BY <1>3, <1>4

-----------------------------------------------------------------------------
(***************************************************************************)
(* The recursive function of DecodeFrom exists: one that decodes from byte *)
(* k + 1 on is easily changed to one that decodes from byte k on.          *)
(***************************************************************************)
States == Nat \X Seq(Byte)

\* What DecodeFrom makes of the element at p, given what "f" makes of the rest.
Decoded(f, s, p, out, limit) ==
  IF p >= Len(s) THEN [out |-> out, ok |-> TRUE]
  ELSE IF ~ElementIsLegal(s, p, out, limit) THEN [out |-> out, ok |-> FALSE]
  ELSE f[<<ElementEnd(s, p), out \o ElementBytes(s, p, out)>>]

\* "f" decodes from byte k on.
Decodes(f, s, limit, k) ==
  \A at \in States : at[1] >= k => f[at] = Decoded(f, s, at[1], at[2], limit)

\* The rest of a stream is looked up further behind.
LEMMA DecodedLooksAhead ==
  ASSUME NEW s \in Seq(Byte), NEW limit, NEW p \in Nat, NEW out \in Seq(Byte),
         p < Len(s), ElementIsLegal(s, p, out, limit)
  PROVE  LET next == <<ElementEnd(s, p), out \o ElementBytes(s, p, out)>>
         IN  next \in States /\ next[1] > p /\ next[1] <= Len(s)
<1>1. /\ ElementEnd(s, p) \in Nat /\ ElementEnd(s, p) > p /\ ElementEnd(s, p) <= Len(s)
      /\ ElementBytes(s, p, out) \in Seq(Byte)
  BY ElementMoves
<1>2. out \o ElementBytes(s, p, out) \in Seq(Byte)
  BY <1>1
<1> QED
  BY <1>1, <1>2 DEF States

LEMMA DecodesOneMore ==
  ASSUME NEW s \in Seq(Byte), NEW limit, NEW k \in Nat,
         NEW f, f = [at \in States |-> f[at]], Decodes(f, s, limit, k + 1)
  PROVE  \E g : g = [at \in States |-> g[at]] /\ Decodes(g, s, limit, k)
<1> DEFINE g == [at \in States |-> IF at[1] = k THEN Decoded(f, s, at[1], at[2], limit)
                                   ELSE f[at]]
<1>1. ASSUME NEW at \in States, at[1] >= k
      PROVE  g[at] = Decoded(g, s, at[1], at[2], limit)
  <2> DEFINE p == at[1]
             out == at[2]
             next == <<ElementEnd(s, p), out \o ElementBytes(s, p, out)>>
  <2>1. p \in Nat /\ out \in Seq(Byte) /\ p >= k
    BY <1>1 DEF States
  <2>2. g[at] = Decoded(f, s, p, out, limit)
    <3>1. CASE p = k
      BY <3>1, Zenon
    <3>2. CASE p # k
      <4>1. p >= k + 1
        BY <2>1, <3>2
      <4>2. f[at] = Decoded(f, s, p, out, limit)
        BY <4>1, Zenon DEF Decodes
      <4> QED
        BY <3>2, <4>2, Zenon
    <3> QED
      BY <3>1, <3>2
  <2>3. CASE p < Len(s) /\ ElementIsLegal(s, p, out, limit)
    <3>1. next \in States /\ next[1] > p
      BY <2>1, <2>3, DecodedLooksAhead
    <3>2. next[1] # k
      <4> HIDE DEF p
      <4>1. next[1] = ElementEnd(s, p) /\ ElementEnd(s, p) \in Nat
        BY <3>1 DEF States
      <4> HIDE DEF next
      <4> QED
        BY <3>1, <2>1, <4>1
    <3>3. g[next] = f[next]
      <4> HIDE DEF next
      <4> QED
        BY <3>1, <3>2, Zenon
    <3>4. ~(p >= Len(s))
      BY <2>1, <2>3
    <3> QED
      BY <2>2, <2>3, <3>3, <3>4, Zenon DEF Decoded
  <2>4. CASE p >= Len(s)
    BY <2>2, <2>4, Zenon DEF Decoded
  <2>5. CASE ~(p >= Len(s)) /\ ~ElementIsLegal(s, p, out, limit)
    BY <2>2, <2>5, Zenon DEF Decoded
  <2>6. p >= Len(s) \/ p < Len(s)
    BY <2>1
  <2> QED
    BY <2>3, <2>4, <2>5, <2>6
<1>2. g = [at \in States |-> g[at]]
  OBVIOUS
<1> HIDE DEF g
<1> QED
  BY <1>1, <1>2, Zenon DEF Decodes

LEMMA DecoderExists ==
  ASSUME NEW s \in Seq(Byte), NEW limit
  PROVE  \E f : f = [at \in States |-> f[at]] /\ Decodes(f, s, limit, 0)
<1> DEFINE From(k) == \E f : f = [at \in States |-> f[at]] /\ Decodes(f, s, limit, k)
           Firsts == {k \in Nat : From(k)}
<1>1. Len(s) \in Firsts
  <2> DEFINE f == [at \in States |-> [out |-> at[2], ok |-> TRUE]]
  <2>1. f = [at \in States |-> f[at]]
    OBVIOUS
  <2>2. ASSUME NEW at \in States, at[1] >= Len(s)
        PROVE  f[at] = Decoded(f, s, at[1], at[2], limit)
    BY <2>2, Zenon DEF Decoded
  <2> HIDE DEF f
  <2>3. From(Len(s))
    BY <2>1, <2>2, Zenon DEF Decodes
  <2> QED
    BY <2>3
<1>2. PICK k \in Firsts : \A j \in Firsts : k <= j
  <2>1. Firsts \in SUBSET Nat /\ Firsts # {}
    BY <1>1
  <2> HIDE DEF Firsts
  <2> QED
    BY <2>1, LeastOfNat
<1>3. k = 0
  <2> SUFFICES ASSUME k # 0 PROVE FALSE
    OBVIOUS
  <2>1. k - 1 \in Nat /\ k = (k - 1) + 1
    OBVIOUS
  <2>2. From(k)
    OBVIOUS
  <2>3. From(k - 1)
    <3> DEFINE j == k - 1
    <3>1. j \in Nat /\ k = j + 1
      OBVIOUS
    <3> HIDE DEF j
    <3>2. PICK f : f = [at \in States |-> f[at]] /\ Decodes(f, s, limit, j + 1)
      BY <2>2, <3>1
    <3>3. From(j)
      BY <3>1, <3>2, DecodesOneMore
    <3> QED
      BY <3>3 DEF j
  <2>4. k - 1 \in Firsts
    BY <2>1, <2>3
  <2>5. k <= k - 1
    BY <1>2, <2>4
  <2> QED
    BY <2>5
<1>4. From(k)
  OBVIOUS
<1> QED
  BY <1>3, <1>4

\* What DecodeFrom makes of a stream, element by element.
LEMMA DecodeFromIs ==
  ASSUME NEW s \in Seq(Byte), NEW limit, NEW p \in Nat, NEW out \in Seq(Byte)
  PROVE  /\ p >= Len(s) => DecodeFrom(s, p, out, limit) = [out |-> out, ok |-> TRUE]
         /\ p < Len(s) /\ ~ElementIsLegal(s, p, out, limit) =>
              DecodeFrom(s, p, out, limit) = [out |-> out, ok |-> FALSE]
         /\ p < Len(s) /\ ElementIsLegal(s, p, out, limit) =>
              DecodeFrom(s, p, out, limit) =
                DecodeFrom(s, ElementEnd(s, p), out \o ElementBytes(s, p, out), limit)
<1> DEFINE IsRun(g) == g = [at \in States |-> Decoded(g, s, at[1], at[2], limit)]
           run == CHOOSE g : IsRun(g)
<1>1. IsRun(run)
  <2>1. PICK f : f = [at \in States |-> f[at]] /\ Decodes(f, s, limit, 0)
    BY DecoderExists
  <2>2. ASSUME NEW at \in States PROVE f[at] = Decoded(f, s, at[1], at[2], limit)
    <3>1. at[1] >= 0
      BY DEF States
    <3> QED
      BY <2>1, <3>1, Zenon DEF Decodes
  <2>3. IsRun(f)
    BY <2>1, <2>2, Zenon
  <2> HIDE DEF IsRun
  <2> QED
    BY <2>3, Zenon
<1>2. ASSUME NEW q \in Nat, NEW o \in Seq(Byte)
      PROVE  DecodeFrom(s, q, o, limit) = run[<<q, o>>]
  BY DEF DecodeFrom, Decoded, States
<1>3. ASSUME NEW q \in Nat, NEW o \in Seq(Byte)
      PROVE  run[<<q, o>>] = Decoded(run, s, q, o, limit)
  <2> DEFINE at == <<q, o>>
  <2>1. at \in States /\ at[1] = q /\ at[2] = o
    BY DEF States
  <2> HIDE DEF at, run
  <2>2. run[at] = Decoded(run, s, at[1], at[2], limit)
    BY <1>1, <2>1, Zenon
  <2> QED
    BY <2>1, <2>2, Zenon DEF at
<1> HIDE DEF run
<1>4. CASE p >= Len(s)
  <2>1. ~(p < Len(s))
    BY <1>4
  <2> QED
    BY <1>2, <1>3, <1>4, <2>1, Zenon DEF Decoded
<1>5. CASE p < Len(s) /\ ~ElementIsLegal(s, p, out, limit)
  <2>1. ~(p >= Len(s))
    BY <1>5
  <2> QED
    BY <1>2, <1>3, <1>5, <2>1, Zenon DEF Decoded
<1>6. CASE p < Len(s) /\ ElementIsLegal(s, p, out, limit)
  <2>1. ~(p >= Len(s))
    BY <1>6
  <2> DEFINE q == ElementEnd(s, p)
             o == out \o ElementBytes(s, p, out)
  <2>2. q \in Nat /\ o \in Seq(Byte)
    BY <1>6, DecodedLooksAhead DEF States
  <2>3. DecodeFrom(s, p, out, limit) = run[<<q, o>>]
    BY <1>2, <1>3, <1>6, <2>1, Zenon DEF Decoded
  <2> QED
    BY <1>2, <1>6, <2>1, <2>2, <2>3, Zenon
<1> QED
  BY <1>4, <1>5, <1>6

-----------------------------------------------------------------------------
(***************************************************************************)
(* A stream that is continued: what was decoded stays decoded.             *)
(***************************************************************************)
LEMMA LoadAgrees ==
  ASSUME NEW s \in Seq(Byte), NEW r \in Seq(Byte), NEW p \in Nat, NEW k \in 0 .. 4,
         p + k <= Len(s), \A i \in 1 .. Len(s) : r[i] = s[i]
  PROVE  Load32Masked(r, p, k) = Load32Masked(s, p, k)
<1> DEFINE at(q, i) == IF k > i THEN q[p + i + 1] ELSE 0
<1>1. ASSUME NEW i \in 0 .. 3 PROVE at(r, i) = at(s, i)
  <2>1. CASE k > i
    <3>1. p + i + 1 \in 1 .. Len(s)
      BY <2>1
    <3> QED
      BY <3>1, Zenon
  <2>2. CASE ~(k > i)
    BY <2>2, Zenon
  <2> QED
    BY <2>1, <2>2
<1>2. at(r, 0) = at(s, 0) /\ at(r, 1) = at(s, 1) /\ at(r, 2) = at(s, 2) /\ at(r, 3) = at(s, 3)
  BY <1>1
<1>3. k = 4 => r[p + 4] = s[p + 4]
  <2>1. k = 4 => p + 4 \in 1 .. Len(s)
    OBVIOUS
  <2> QED
    BY <2>1, Zenon
<1> DEFINE load(q) == IF k = 4 /\ q[p + 4] >= 64 THEN Huge
                      ELSE at(q, 0) + 256 * (at(q, 1) + 256 * (at(q, 2) + 256 * at(q, 3)))
<1>4. Load32Masked(s, p, k) = load(s) /\ Load32Masked(r, p, k) = load(r)
  BY DEF Load32Masked
<1> HIDE DEF at
<1>5. load(r) = load(s)
  BY <1>2, <1>3, ZenonT(60)
<1> HIDE DEF load
<1> QED
  BY <1>4, <1>5

LEMMA ElementAgrees ==
  ASSUME NEW s \in Seq(Byte), NEW r \in Seq(Byte), NEW p \in Nat, p < Len(s),
         \A i \in 1 .. Len(s) : r[i] = s[i]
  PROVE  /\ r[p + 1] = s[p + 1] /\ ElementBody(r, p) = ElementBody(s, p)
         /\ ElementBody(s, p) <= Len(s) =>
              /\ ElementLength(r, p) = ElementLength(s, p)
              /\ ElementOffset(r, p) = ElementOffset(s, p)
              /\ ElementEnd(r, p) = ElementEnd(s, p)
<1>1. p + 1 \in 1 .. Len(s)
  OBVIOUS
<1>2. r[p + 1] = s[p + 1]
  BY <1>1, Zenon
<1>3. ElementBody(r, p) = ElementBody(s, p)
  BY <1>2, Zenon DEF ElementBody
<1>4. ASSUME ElementBody(s, p) <= Len(s)
      PROVE  /\ ElementLength(r, p) = ElementLength(s, p)
             /\ ElementOffset(r, p) = ElementOffset(s, p)
  <2> DEFINE extra == TagExtra(s[p + 1])
  <2>1. extra \in 0 .. 4
    <3>1. s[p + 1] \in 0 .. 255
      BY <1>1, ByteIs
    <3> QED
      BY <3>1, TagIs
  <2>2. p + 1 + extra <= Len(s)
    BY <1>4 DEF ElementBody
  <2>3. Load32Masked(r, p + 1, extra) = Load32Masked(s, p + 1, extra)
    <3> HIDE DEF extra
    <3> QED
      BY <2>1, <2>2, LoadAgrees
  <2> QED
    BY <1>2, <2>3, Zenon DEF ElementLength, ElementOffset
<1>5. ASSUME ElementBody(s, p) <= Len(s) PROVE ElementEnd(r, p) = ElementEnd(s, p)
  BY <1>2, <1>3, <1>4, <1>5, Zenon DEF ElementEnd
<1> QED
  BY <1>2, <1>3, <1>4, <1>5

LEMMA LegalAgrees ==
  ASSUME NEW s \in Seq(Byte), NEW t \in Seq(Byte), NEW p \in Nat, p < Len(s),
         NEW out \in Seq(Byte), NEW limit, ElementIsLegal(s, p, out, limit)
  PROVE  /\ ElementIsLegal(s \o t, p, out, limit)
         /\ ElementEnd(s \o t, p) = ElementEnd(s, p)
         /\ ElementBytes(s \o t, p, out) = ElementBytes(s, p, out)
<1> DEFINE r == s \o t
<1>1. r \in Seq(Byte) /\ Len(r) >= Len(s) /\ \A i \in 1 .. Len(s) : r[i] = s[i]
  OBVIOUS
<1>2. ElementBody(s, p) <= Len(s) /\ ElementEnd(s, p) <= Len(s)
  BY DEF ElementIsLegal
<1>3. /\ r[p + 1] = s[p + 1] /\ ElementBody(r, p) = ElementBody(s, p)
      /\ ElementLength(r, p) = ElementLength(s, p)
      /\ ElementOffset(r, p) = ElementOffset(s, p)
      /\ ElementEnd(r, p) = ElementEnd(s, p)
  <2> HIDE DEF r
  <2> QED
    BY <1>1, <1>2, ElementAgrees
<1>4. ElementBody(s, p) \in Nat /\ ElementEnd(s, p) \in Nat /\ ElementLength(s, p) \in Nat
  BY <1>2, ElementIs
<1>5. ElementIsLegal(r, p, out, limit)
  <2>1. ElementBody(r, p) <= Len(r) /\ ElementEnd(r, p) <= Len(r)
    <3> HIDE DEF r
    <3> QED
      BY <1>1, <1>2, <1>3, <1>4
  <2> HIDE DEF r
  <2> QED
    BY <1>3, <2>1, Zenon DEF ElementIsLegal
<1>6. ElementBytes(r, p, out) = ElementBytes(s, p, out)
  <2>1. CASE IsLiteral(s[p + 1])
    <3> DEFINE from == ElementBody(s, p)
               to == ElementEnd(s, p)
    <3>1. SubSeq(r, from + 1, to) = SubSeq(s, from + 1, to)
      <4> HIDE DEF from, to
      <4>1. from \in Nat /\ to \in Nat /\ to <= Len(s)
        BY <1>2, <1>4 DEF from, to
      <4> QED
        BY <4>1
    <3> HIDE DEF r
    <3> QED
      BY <1>3, <2>1, <3>1, Zenon DEF ElementBytes
  <2>2. CASE ~IsLiteral(s[p + 1])
    <3> HIDE DEF r
    <3> QED
      BY <1>3, <2>2, Zenon DEF ElementBytes
  <2> QED
    BY <2>1, <2>2
<1> QED
  BY <1>3, <1>5, <1>6

\* A decoder that came to the end of s without an error goes on from there.
LEMMA DecodingGoesOn ==
  ASSUME NEW s \in Seq(Byte), NEW t \in Seq(Byte), NEW limit, NEW p \in 0 .. Len(s),
         NEW out \in Seq(Byte), DecodeFrom(s, p, out, limit).ok
  PROVE  /\ DecodeFrom(s, p, out, limit).out \in Seq(Byte)
         /\ DecodeFrom(s \o t, p, out, limit) =
              DecodeFrom(s \o t, Len(s), DecodeFrom(s, p, out, limit).out, limit)
<1> DEFINE Done(q, o) == DecodeFrom(s, q, o, limit).out
           GoesOn(q, o) == /\ Done(q, o) \in Seq(Byte)
                           /\ DecodeFrom(s \o t, q, o, limit) =
                                DecodeFrom(s \o t, Len(s), Done(q, o), limit)
           Fails(q) == \E o \in Seq(Byte) : DecodeFrom(s, q, o, limit).ok /\ ~GoesOn(q, o)
           Rests == {k \in Nat : k <= Len(s) /\ Fails(Len(s) - k)}
<1>1. Rests = {}
  <2> SUFFICES ASSUME Rests # {} PROVE FALSE
    OBVIOUS
  <2>1. PICK k \in Rests : \A j \in Rests : k <= j
    <3>1. Rests \in SUBSET Nat
      OBVIOUS
    <3> HIDE DEF Rests
    <3> QED
      BY <3>1, LeastOfNat
  <2>2. k \in Nat /\ k <= Len(s) /\ Fails(Len(s) - k)
    OBVIOUS
  <2>3. PICK q \in Nat : q = Len(s) - k /\ q <= Len(s)
    <3> HIDE DEF Fails
    <3> QED
      BY <2>2
  <2>4. PICK o \in Seq(Byte) : DecodeFrom(s, q, o, limit).ok /\ ~GoesOn(q, o)
    <3> HIDE DEF GoesOn
    <3> QED
      BY <2>2, <2>3
  <2>5. ASSUME NEW u \in Nat, u > q, u <= Len(s) PROVE ~Fails(u)
    <3>1. Len(s) - u \in Nat /\ Len(s) - u <= Len(s) /\ Len(s) - (Len(s) - u) = u
      BY <2>5
    <3>2. ~(k <= Len(s) - u)
      BY <2>2, <2>3, <2>5
    <3> HIDE DEF Fails
    <3>3. Len(s) - u \notin Rests
      BY <2>1, <3>2
    <3> QED
      BY <3>1, <3>3
  <2>6. CASE q = Len(s)
    <3>1. DecodeFrom(s, q, o, limit) = [out |-> o, ok |-> TRUE]
      BY <2>6, DecodeFromIs
    <3> QED
      BY <2>4, <2>6, <3>1
  <2>7. CASE q < Len(s)
    <3>1. ElementIsLegal(s, q, o, limit)
      <4> SUFFICES ASSUME ~ElementIsLegal(s, q, o, limit) PROVE FALSE
        OBVIOUS
      <4>1. DecodeFrom(s, q, o, limit) = [out |-> o, ok |-> FALSE]
        BY <2>7, DecodeFromIs
      <4> QED
        BY <2>4, <4>1
    <3> DEFINE u == ElementEnd(s, q)
               more == o \o ElementBytes(s, q, o)
    <3>2. u \in Nat /\ u > q /\ u <= Len(s) /\ more \in Seq(Byte)
      BY <2>7, <3>1, DecodedLooksAhead, ElementMoves DEF States
    <3>3. DecodeFrom(s, q, o, limit) = DecodeFrom(s, u, more, limit)
      BY <2>7, <3>1, DecodeFromIs
    <3>4. DecodeFrom(s \o t, q, o, limit) = DecodeFrom(s \o t, u, more, limit)
      <4> DEFINE r == s \o t
      <4>1. r \in Seq(Byte) /\ q < Len(r)
        BY <2>7
      <4>2. /\ ElementIsLegal(r, q, o, limit) /\ ElementEnd(r, q) = u
            /\ ElementBytes(r, q, o) = ElementBytes(s, q, o)
        BY <2>7, <3>1, LegalAgrees
      <4> HIDE DEF r
      <4>3. DecodeFrom(r, q, o, limit) =
              DecodeFrom(r, ElementEnd(r, q), o \o ElementBytes(r, q, o), limit)
        BY <4>1, <4>2, DecodeFromIs
      <4> QED
        BY <4>2, <4>3, Zenon DEF r
    <3>5. ~Fails(u)
      BY <2>5, <3>2
    <3> HIDE DEF u, more
    <3>6. GoesOn(u, more)
      BY <2>4, <3>2, <3>3, <3>5, Zenon
    <3> QED
      BY <2>4, <3>3, <3>4, <3>6, Zenon
  <2>8. q = Len(s) \/ q < Len(s)
    BY <2>3
  <2> QED
    BY <2>6, <2>7, <2>8
<1>2. Len(s) - p \in Nat /\ Len(s) - p <= Len(s) /\ Len(s) - (Len(s) - p) = p
  OBVIOUS
<1> HIDE DEF Fails
<1>3. ~Fails(p)
  BY <1>1, <1>2
<1> QED
  BY <1>3 DEF Fails

\* One more element after a legal stream adds its bytes.
LEMMA DecodeOneMore ==
  ASSUME NEW s \in Seq(Byte), NEW t \in Seq(Byte), t # <<>>, NEW limit,
         Decode(s, limit).ok,
         ElementIsLegal(s \o t, Len(s), Decode(s, limit).out, limit),
         ElementEnd(s \o t, Len(s)) = Len(s \o t)
  PROVE  LET before == Decode(s, limit).out
         IN  Decode(s \o t, limit) =
               [out |-> before \o ElementBytes(s \o t, Len(s), before), ok |-> TRUE]
<1> DEFINE before == Decode(s, limit).out
           r == s \o t
           more == before \o ElementBytes(r, Len(s), before)
<1>1. before = DecodeFrom(s, 0, <<>>, limit).out /\ DecodeFrom(s, 0, <<>>, limit).ok
  BY DEF Decode
<1>2. <<>> \in Seq(Byte) /\ 0 \in 0 .. Len(s)
  OBVIOUS
<1>3. /\ before \in Seq(Byte)
      /\ DecodeFrom(r, 0, <<>>, limit) = DecodeFrom(r, Len(s), before, limit)
  <2> HIDE DEF before
  <2>1. /\ DecodeFrom(s, 0, <<>>, limit).out \in Seq(Byte)
        /\ DecodeFrom(s \o t, 0, <<>>, limit) =
             DecodeFrom(s \o t, Len(s), DecodeFrom(s, 0, <<>>, limit).out, limit)
    <3> DEFINE none == <<>>
    <3>1. none \in Seq(Byte) /\ DecodeFrom(s, 0, none, limit).ok
      BY <1>1, <1>2
    <3> HIDE DEF none
    <3>2. /\ DecodeFrom(s, 0, none, limit).out \in Seq(Byte)
          /\ DecodeFrom(s \o t, 0, none, limit) =
               DecodeFrom(s \o t, Len(s), DecodeFrom(s, 0, none, limit).out, limit)
      BY <3>1, <1>2, DecodingGoesOn
    <3> QED
      BY <3>2 DEF none
  <2> QED
    BY <1>1, <2>1, Zenon
<1>4. r \in Seq(Byte) /\ Len(s) \in Nat /\ Len(s) < Len(r)
  OBVIOUS
<1> HIDE DEF before
<1>5. ElementIsLegal(r, Len(s), before, limit) /\ ElementEnd(r, Len(s)) = Len(r)
  BY DEF before
<1> HIDE DEF r
<1>6. DecodeFrom(r, Len(s), before, limit) = DecodeFrom(r, Len(r), more, limit)
  BY <1>3, <1>4, <1>5, DecodeFromIs
<1>7. more \in Seq(Byte)
  BY <1>3, <1>4, <1>5, DecodedLooksAhead DEF States
<1>8. DecodeFrom(r, Len(r), more, limit) = [out |-> more, ok |-> TRUE]
  <2>1. Len(r) \in Nat /\ Len(r) >= Len(r)
    BY <1>4
  <2> HIDE DEF more
  <2> QED
    BY <1>4, <1>7, <2>1, DecodeFromIs
<1>9. Decode(r, limit) = [out |-> more, ok |-> TRUE]
  BY <1>3, <1>6, <1>8 DEF Decode
<1> QED
  BY <1>9 DEF r, before, more

-----------------------------------------------------------------------------
(***************************************************************************)
(* The elements that the compressor writes.                                *)
(***************************************************************************)
LEMMA ConcatIs ==
  ASSUME NEW s \in Seq(Byte), NEW t \in Seq(Byte), NEW r, r = s \o t
  PROVE  /\ r \in Seq(Byte) /\ Len(r) = Len(s) + Len(t)
         /\ \A i \in 1 .. Len(s) + Len(t) : r[i] = IF i <= Len(s) THEN s[i] ELSE t[i - Len(s)]
<1>1. s \o t \in Seq(Byte) /\ Len(s \o t) = Len(s) + Len(t)
  OBVIOUS
<1>2. \A i \in 1 .. Len(s) + Len(t) : (s \o t)[i] = IF i <= Len(s) THEN s[i] ELSE t[i - Len(s)]
  OBVIOUS
<1> QED
  BY <1>1, <1>2

LEMMA AppendedIs ==
  ASSUME NEW s \in Seq(Byte), NEW t \in Seq(Byte), NEW b \in Seq(Byte)
  PROVE  /\ s \o (t \o b) \in Seq(Byte) /\ Len(s \o (t \o b)) = Len(s) + Len(t) + Len(b)
         /\ \A i \in 1 .. Len(t) : (s \o (t \o b))[Len(s) + i] = t[i]
         /\ SubSeq(s \o (t \o b), Len(s) + Len(t) + 1, Len(s \o (t \o b))) = b
<1> DEFINE c == t \o b
           r == s \o c
           from == Len(s) + Len(t) + 1
           u == SubSeq(r, from, Len(r))
<1>1. /\ c \in Seq(Byte) /\ Len(c) = Len(t) + Len(b)
      /\ \A i \in 1 .. Len(t) + Len(b) : c[i] = IF i <= Len(t) THEN t[i] ELSE b[i - Len(t)]
  BY ConcatIs
<1>2. Len(s) \in Nat /\ Len(t) \in Nat /\ Len(b) \in Nat
  OBVIOUS
<1> HIDE DEF c
<1>3. /\ r \in Seq(Byte) /\ Len(r) = Len(s) + Len(c)
      /\ \A i \in 1 .. Len(s) + Len(c) : r[i] = IF i <= Len(s) THEN s[i] ELSE c[i - Len(s)]
  <2>1. s \in Seq(Byte) /\ c \in Seq(Byte)
    BY <1>1
  <2>2. s \o c \in Seq(Byte) /\ Len(s \o c) = Len(s) + Len(c)
    BY <2>1
  <2>3. \A i \in 1 .. Len(s) + Len(c) : (s \o c)[i] = IF i <= Len(s) THEN s[i] ELSE c[i - Len(s)]
    BY <2>1
  <2> QED
    BY <2>2, <2>3
<1> HIDE DEF r
<1>4. ASSUME NEW i \in 1 .. Len(t) PROVE r[Len(s) + i] = t[i]
  <2>1. /\ i \in Int /\ 1 <= i /\ i <= Len(t)
        /\ i \in 1 .. Len(t) + Len(b) /\ Len(s) + i \in 1 .. Len(s) + Len(c)
        /\ ~(Len(s) + i <= Len(s)) /\ Len(s) + i - Len(s) = i
    BY <1>1, <1>2
  <2> QED
    BY <1>1, <1>3, <2>1
<1>5. /\ u \in Seq(Byte) /\ Len(u) = Len(b)
      /\ \A i \in 1 .. Len(b) : u[i] = r[from + i - 1]
  <2>1. from \in Nat /\ from >= 1 /\ Len(r) = from - 1 + Len(b) /\ Len(r) \in Nat
    BY <1>1, <1>2, <1>3
  <2> HIDE DEF from
  <2>2. \A i \in from .. Len(r) : r[i] \in Byte
    BY <1>3, <2>1
  <2>3. /\ u \in Seq(Byte)
        /\ Len(u) = IF from <= Len(r) THEN Len(r) - from + 1 ELSE 0
        /\ \A i \in 1 .. Len(r) - from + 1 : u[i] = r[from + i - 1]
    BY <2>1, <2>2, SubSeqProperties
  <2>4. Len(r) - from + 1 = Len(b) /\ (IF from <= Len(r) THEN Len(r) - from + 1 ELSE 0) = Len(b)
    BY <1>2, <2>1
  <2> QED
    BY <2>3, <2>4
<1>6. ASSUME NEW i \in 1 .. Len(b) PROVE u[i] = b[i]
  <2> DEFINE j == Len(t) + i
             k == Len(s) + j
  <2>1. /\ i \in Int /\ 1 <= i /\ i <= Len(b) /\ j \in Int /\ k \in Int
        /\ from + i - 1 = k
        /\ j \in 1 .. Len(t) + Len(b) /\ k \in 1 .. Len(s) + Len(c)
        /\ ~(k <= Len(s)) /\ k - Len(s) = j
        /\ ~(j <= Len(t)) /\ j - Len(t) = i
    BY <1>1, <1>2
  <2> HIDE DEF j, k, from
  <2>2. r[k] = c[j]
    BY <1>3, <2>1
  <2>3. c[j] = b[i]
    BY <1>1, <2>1
  <2> HIDE DEF u
  <2> QED
    BY <1>5, <2>1, <2>2, <2>3
<1>7. u = b
  <2> HIDE DEF u
  <2> QED
    BY <1>5, <1>6, SeqEqual
<1> QED
  BY <1>1, <1>3, <1>2, <1>4, <1>7 DEF c, r, u, from

\* The length that a tag of a literal stands for.
LEMMA LiteralLengthIs ==
  ASSUME NEW s, NEW p, s[p + 1] \in Int, IsLiteral(s[p + 1])
  PROVE  /\ s[p + 1] \div 4 < 60 => ElementLength(s, p) = s[p + 1] \div 4 + 1
         /\ s[p + 1] \div 4 >= 60 =>
              ElementLength(s, p) = Load32Masked(s, p + 1, TagExtra(s[p + 1])) + 1
<1> DEFINE tag == s[p + 1]
<1>1. tag \div 4 \in Int
  OBVIOUS
<1>0. tag % 4 # COPY_1_BYTE_OFFSET
  BY DEF IsLiteral, LITERAL, COPY_1_BYTE_OFFSET
<1> DEFINE d == tag \div 4
<1>2. d \in Int
  OBVIOUS
<1>3. ElementLength(s, p) =
        CASE IsLiteral(tag) /\ d < 60 -> d + 1
          [] IsLiteral(tag) /\ d >= 60 -> Load32Masked(s, p + 1, TagExtra(tag)) + 1
          [] tag % 4 = COPY_1_BYTE_OFFSET -> (d % 8) + 4
          [] OTHER -> d + 1
  BY DEF ElementLength
<1> HIDE DEF d, tag
<1>4. CASE d < 60
  <2>1. ~(d >= 60)
    BY <1>2, <1>4
  <2>2. ElementLength(s, p) = d + 1
    BY <1>0, <1>2, <1>3, <1>4, <2>1
  <2> QED
    BY <1>4, <2>1, <2>2 DEF d, tag
<1>5. CASE ~(d < 60)
  <2>1. d >= 60
    BY <1>2, <1>5
  <2> DEFINE long == Load32Masked(s, p + 1, TagExtra(tag)) + 1
  <2>2. ElementLength(s, p) = CASE IsLiteral(tag) /\ d < 60 -> d + 1
                                [] IsLiteral(tag) /\ d >= 60 -> long
                                [] tag % 4 = COPY_1_BYTE_OFFSET -> (d % 8) + 4
                                [] OTHER -> d + 1
    BY <1>3
  <2> HIDE DEF long
  <2>3. IsLiteral(tag)
    BY DEF tag
  <2>4. ElementLength(s, p) = long
    BY <1>0, <1>2, <1>5, <2>1, <2>2, <2>3
  <2> QED
    BY <1>5, <2>1, <2>4 DEF d, tag, long
<1> QED
  BY <1>4, <1>5

LEMMA LongTagsAre ==
  /\ IsLiteral(240) /\ TagExtra(240) = 1 /\ 240 \div 4 = 60
  /\ IsLiteral(244) /\ TagExtra(244) = 2 /\ 244 \div 4 = 61
<1>1. /\ 240 \in 0 .. 255 /\ 240 \div 4 = 60 /\ 240 % 4 = 0
      /\ 244 \in 0 .. 255 /\ 244 \div 4 = 61 /\ 244 % 4 = 0
  BY SMT
<1>2. \A tag \in 0 .. 255 : /\ IsLiteral(tag) <=> tag % 4 = 0
                            /\ IsLiteral(tag) /\ tag \div 4 >= 60 =>
                                 TagExtra(tag) = (tag \div 4) - 59
  BY TagIs
<1> QED
  BY <1>1, <1>2, SMT

LEMMA LengthBytesIs ==
  ASSUME NEW len \in Nat \ {0}
  PROVE  /\ LengthBytes(len) \in 0 .. 3
         /\ LengthBytes(len) = 0 <=> len - 1 < 60
         /\ LengthBytes(len) = 1 => len - 1 < 256
         /\ LengthBytes(len) = 2 => (len - 1) \div 256 \in 0 .. 255
         /\ len <= 65536 => LengthBytes(len) # 3
BY SMT DEF LengthBytes

\* The tag of a literal says how long it is.
LEMMA LiteralTagIs ==
  ASSUME NEW s \in Seq(Byte), NEW bytes \in Seq(Byte), NEW len \in Nat \ {0}, Len(bytes) = len,
         LengthBytes(len) # 3
  PROVE  LET r == s \o (LiteralTag(len) \o bytes)
             p == Len(s)
         IN  /\ LiteralTag(len) \in Seq(Byte) /\ Len(LiteralTag(len)) = 1 + LengthBytes(len)
             /\ IsLiteral(r[p + 1])
             /\ ElementBody(r, p) = p + 1 + LengthBytes(len)
             /\ ElementLength(r, p) = len
<1> DEFINE n == len - 1
           tag == LiteralTag(len)
           r == s \o (tag \o bytes)
           p == Len(s)
<1>1. n \in Nat /\ n % 256 \in 0 .. 255 /\ n = (n % 256) + 256 * (n \div 256)
  BY SMT
<1>2. CASE LengthBytes(len) = 0
  <2>1. n < 60
    BY <1>2, LengthBytesIs
  <2>2. tag = <<n * 4>>
    BY <1>2 DEF LiteralTag, LITERAL
  <2> HIDE DEF n
  <2>3. n * 4 \in Byte /\ (n * 4) % 4 = 0 /\ (n * 4) \div 4 = n
    BY <1>1, <2>1, SMT DEF Byte
  <2>4. tag \in Seq(Byte) /\ Len(tag) = 1 /\ tag[1] = n * 4
    BY <2>2, <2>3
  <2> HIDE DEF tag
  <2>5. r \in Seq(Byte) /\ p \in Nat /\ p < Len(r) /\ r[p + 1] = n * 4
    <3>1. /\ r \in Seq(Byte) /\ Len(r) = Len(s) + Len(tag) + Len(bytes)
          /\ \A i \in 1 .. Len(tag) : r[Len(s) + i] = tag[i]
      <4>1. tag \in Seq(Byte)
        BY <2>4
      <4> QED
        BY <4>1, AppendedIs, ZenonT(60)
    <3> HIDE DEF r
    <3> QED
      BY <2>4, <3>1
  <2> HIDE DEF r, p
  <2>6. IsLiteral(n * 4) /\ TagExtra(n * 4) = 0
    <3> DEFINE m == n * 4
    <3>1. m \in 0 .. 255 /\ m % 4 = 0 /\ m \div 4 < 60
      BY <2>1, <2>3 DEF Byte
    <3> HIDE DEF m
    <3>2. IsLiteral(m) /\ TagExtra(m) = 0
      BY <3>1, TagIs
    <3> QED
      BY <3>2 DEF m
  <2>7. ElementBody(r, p) = p + 1
    BY <2>5, <2>6 DEF ElementBody
  <2>8. ElementLength(r, p) = n + 1
    <3> DEFINE m == n * 4
    <3>1. m \in 0 .. 255 /\ m \div 4 = n /\ m \div 4 < 60 /\ IsLiteral(m) /\ r[p + 1] = m
      BY <2>1, <2>3, <2>5, <2>6 DEF Byte
    <3> HIDE DEF m
    <3> QED
      BY <3>1, LiteralLengthIs
  <2> QED
    BY <1>2, <2>4, <2>5, <2>6, <2>7, <2>8 DEF n, tag, r, p
<1>3. CASE LengthBytes(len) = 1
  <2>1. n \in 0 .. 255 /\ ~(n < 60)
    BY <1>1, <1>3, LengthBytesIs
  <2>2. tag = <<240, n>>
    BY <1>3 DEF LiteralTag, LITERAL
  <2> HIDE DEF n
  <2>3. 240 \in Byte /\ n \in Byte
    BY <2>1 DEF Byte
  <2>4. tag \in Seq(Byte) /\ Len(tag) = 2 /\ tag[1] = 240 /\ tag[2] = n
    BY <2>2, <2>3
  <2> HIDE DEF tag
  <2>5. r \in Seq(Byte) /\ p \in Nat /\ p + 2 <= Len(r) /\ r[p + 1] = 240 /\ r[p + 2] = n
    <3>1. /\ r \in Seq(Byte) /\ Len(r) = Len(s) + Len(tag) + Len(bytes)
          /\ \A i \in 1 .. Len(tag) : r[Len(s) + i] = tag[i]
      <4>1. tag \in Seq(Byte)
        BY <2>4
      <4> QED
        BY <4>1, AppendedIs, ZenonT(60)
    <3> HIDE DEF r
    <3> QED
      BY <2>4, <3>1
  <2> HIDE DEF r, p
  <2>6. IsLiteral(240) /\ TagExtra(240) = 1 /\ 240 \div 4 = 60
    BY LongTagsAre
  <2>7. ElementBody(r, p) = p + 2
    BY <2>5, <2>6 DEF ElementBody
  <2>8. Load32Masked(r, p + 1, 1) = n
    <3> DEFINE q == p + 1
    <3>1. q \in Nat /\ q + 1 <= Len(r) /\ r[q + 1] = n
      BY <2>5
    <3> HIDE DEF q
    <3>2. Load32Masked(r, q, 1) = r[q + 1]
      BY <2>5, <3>1, LoadIs
    <3> QED
      BY <3>1, <3>2 DEF q
  <2>9. ElementLength(r, p) = n + 1
    <3>1. 240 \in 0 .. 255 /\ 240 \div 4 >= 60
      BY <2>6
    <3>2. ElementLength(r, p) = Load32Masked(r, p + 1, TagExtra(240)) + 1
      <4>1. r[p + 1] \in Int /\ IsLiteral(r[p + 1]) /\ r[p + 1] \div 4 >= 60
        BY <2>5, <2>6
      <4>2. ElementLength(r, p) = Load32Masked(r, p + 1, TagExtra(r[p + 1])) + 1
        BY <4>1, LiteralLengthIs, ZenonT(60)
      <4> QED
        BY <2>5, <4>2, Zenon
    <3>3. Load32Masked(r, p + 1, TagExtra(240)) = n
      BY <2>6, <2>8
    <3> QED
      BY <3>2, <3>3
  <2> QED
    BY <1>3, <2>4, <2>5, <2>6, <2>7, <2>9 DEF n, tag, r, p
<1>4. CASE LengthBytes(len) = 2
  <2> DEFINE low == n % 256
             high == n \div 256
  <2>1. low \in 0 .. 255 /\ high \in 0 .. 255 /\ n = low + 256 * high
    BY <1>1, <1>4, LengthBytesIs
  <2>2. tag = <<244, low, high>>
    BY <1>4 DEF LiteralTag, LITERAL
  <2> HIDE DEF n, low, high
  <2>3. 244 \in Byte /\ low \in Byte /\ high \in Byte
    BY <2>1 DEF Byte
  <2>4. tag \in Seq(Byte) /\ Len(tag) = 3 /\ tag[1] = 244 /\ tag[2] = low /\ tag[3] = high
    BY <2>2, <2>3
  <2> HIDE DEF tag
  <2>5. /\ r \in Seq(Byte) /\ p \in Nat /\ p + 3 <= Len(r)
        /\ r[p + 1] = 244 /\ r[p + 2] = low /\ r[p + 3] = high
    <3>1. /\ r \in Seq(Byte) /\ Len(r) = Len(s) + Len(tag) + Len(bytes)
          /\ \A i \in 1 .. Len(tag) : r[Len(s) + i] = tag[i]
      <4>1. tag \in Seq(Byte)
        BY <2>4
      <4> QED
        BY <4>1, AppendedIs, ZenonT(60)
    <3> HIDE DEF r
    <3> QED
      BY <2>4, <3>1
  <2> HIDE DEF r, p
  <2>6. IsLiteral(244) /\ TagExtra(244) = 2 /\ 244 \div 4 = 61
    BY LongTagsAre
  <2>7. ElementBody(r, p) = p + 3
    BY <2>5, <2>6 DEF ElementBody
  <2>8. Load32Masked(r, p + 1, 2) = n
    <3> DEFINE q == p + 1
    <3>1. q \in Nat /\ q + 2 <= Len(r) /\ r[q + 1] = low /\ r[q + 2] = high
      BY <2>5
    <3> HIDE DEF q
    <3>2. Load32Masked(r, q, 2) = r[q + 1] + 256 * r[q + 2]
      BY <2>5, <3>1, LoadIs
    <3> QED
      BY <2>1, <3>1, <3>2 DEF q
  <2>9. ElementLength(r, p) = n + 1
    <3>1. 244 \in 0 .. 255 /\ 244 \div 4 >= 60
      BY <2>6
    <3>2. ElementLength(r, p) = Load32Masked(r, p + 1, TagExtra(244)) + 1
      <4>1. r[p + 1] \in Int /\ IsLiteral(r[p + 1]) /\ r[p + 1] \div 4 >= 60
        BY <2>5, <2>6
      <4>2. ElementLength(r, p) = Load32Masked(r, p + 1, TagExtra(r[p + 1])) + 1
        BY <4>1, LiteralLengthIs, ZenonT(60)
      <4> QED
        BY <2>5, <4>2, Zenon
    <3>3. Load32Masked(r, p + 1, TagExtra(244)) = n
      BY <2>6, <2>8
    <3> QED
      BY <3>2, <3>3
  <2> QED
    BY <1>4, <2>4, <2>5, <2>6, <2>7, <2>9 DEF n, tag, r, p
<1> QED
  BY <1>2, <1>3, <1>4, LengthBytesIs

\* A literal behind a stream decodes to its bytes.
LEMMA LiteralDecodes ==
  ASSUME NEW s \in Seq(Byte), NEW bytes \in Seq(Byte), bytes # <<>>,
         LengthBytes(Len(bytes)) # 3, NEW limit \in Nat, Decode(s, limit).ok,
         Decode(s, limit).out \in Seq(Byte),
         Len(Decode(s, limit).out) + Len(bytes) <= limit
  PROVE  /\ s \o (LiteralTag(Len(bytes)) \o bytes) \in Seq(Byte)
         /\ Len(s \o (LiteralTag(Len(bytes)) \o bytes)) =
              Len(s) + 1 + LengthBytes(Len(bytes)) + Len(bytes)
         /\ Decode(s \o (LiteralTag(Len(bytes)) \o bytes), limit) =
              [out |-> Decode(s, limit).out \o bytes, ok |-> TRUE]
<1> DEFINE len == Len(bytes)
           tag == LiteralTag(len)
           t == tag \o bytes
           r == s \o t
           p == Len(s)
           before == Decode(s, limit).out
<1>1. len \in Nat \ {0}
  OBVIOUS
<1>2. /\ tag \in Seq(Byte) /\ Len(tag) = 1 + LengthBytes(len)
      /\ IsLiteral(r[p + 1])
      /\ ElementBody(r, p) = p + 1 + LengthBytes(len)
      /\ ElementLength(r, p) = len
  <2> HIDE DEF len
  <2>1. Len(bytes) = len /\ LengthBytes(len) # 3
    BY DEF len
  <2> QED
    BY <1>1, <2>1, LiteralTagIs, ZenonT(60)
<1>3. LengthBytes(len) \in Nat
  BY <1>1, LengthBytesIs
<1> HIDE DEF tag
<1>4. /\ r \in Seq(Byte) /\ Len(r) = Len(s) + Len(tag) + Len(bytes)
      /\ SubSeq(r, Len(s) + Len(tag) + 1, Len(r)) = bytes
  <2>1. tag \in Seq(Byte)
    BY <1>2
  <2> QED
    BY <2>1, AppendedIs
<1>5. t \in Seq(Byte) /\ t # <<>>
  <2>1. t \in Seq(Byte) /\ Len(t) = Len(tag) + Len(bytes)
    BY <1>2
  <2>2. Len(t) # 0
    BY <1>2, <1>3, <2>1
  <2> HIDE DEF t
  <2> QED
    BY <2>1, <2>2
<1> HIDE DEF r
<1>6. p \in Nat /\ len = Len(bytes) /\ before \in Seq(Byte) /\ Len(before) + len <= limit
  OBVIOUS
<1> HIDE DEF p, len, before
<1>7. ElementEnd(r, p) = Len(r)
  <2>1. ElementEnd(r, p) = ElementBody(r, p) + ElementLength(r, p)
    BY <1>2 DEF ElementEnd
  <2> QED
    BY <1>1, <1>2, <1>3, <1>4, <1>6, <2>1 DEF p
<1>8. ElementIsLegal(r, p, before, limit)
  <2>1. ElementBody(r, p) <= Len(r) /\ ElementEnd(r, p) <= Len(r)
    <3>1. /\ ElementBody(r, p) = p + 1 + LengthBytes(len)
          /\ Len(r) = p + (1 + LengthBytes(len)) + len
      BY <1>2, <1>4, <1>6 DEF p
    <3> QED
      BY <1>1, <1>3, <1>6, <1>7, <3>1
  <2> QED
    BY <1>2, <1>6, <2>1 DEF ElementIsLegal
<1>9. ElementBytes(r, p, before) = bytes
  <2>1. ElementBytes(r, p, before) = SubSeq(r, ElementBody(r, p) + 1, ElementEnd(r, p))
    BY <1>2 DEF ElementBytes
  <2>2. ElementBody(r, p) + 1 = Len(s) + Len(tag) + 1
    BY <1>2, <1>3, <1>6 DEF p
  <2> QED
    BY <1>4, <1>7, <2>1, <2>2
<1>10. Decode(s \o t, limit) = [out |-> before \o bytes, ok |-> TRUE]
  <2>1. /\ ElementIsLegal(s \o t, Len(s), Decode(s, limit).out, limit)
        /\ ElementEnd(s \o t, Len(s)) = Len(s \o t)
        /\ ElementBytes(s \o t, Len(s), Decode(s, limit).out) = bytes
    BY <1>7, <1>8, <1>9 DEF r, p, before
  <2> HIDE DEF t
  <2>2. Decode(s \o t, limit) =
          [out |-> Decode(s, limit).out \o ElementBytes(s \o t, Len(s), Decode(s, limit).out),
           ok |-> TRUE]
    BY <1>5, <2>1, DecodeOneMore, ZenonT(60)
  <2> QED
    BY <2>1, <2>2 DEF before
<1>11. Len(s \o t) = Len(s) + 1 + LengthBytes(len) + len
  <2>1. Len(s \o t) = Len(s) + Len(tag) + Len(bytes)
    BY <1>4 DEF r
  <2> HIDE DEF t
  <2> QED
    BY <1>1, <1>2, <1>3, <1>6, <2>1
<1>12. s \o t \in Seq(Byte)
  BY <1>4 DEF r
<1> QED
  BY <1>10, <1>11, <1>12, Zenon DEF t, tag, len, before

\* The tag of a copy says how long it is and from where.
LEMMA CopyTagIs ==
  ASSUME NEW s \in Seq(Byte), NEW offset \in Nat, offset >= 1, offset \div 256 <= 255,
         NEW len \in Nat, 4 <= len, len <= 64, NEW lessThan12 \in BOOLEAN, lessThan12 => len < 12
  PROVE  /\ CopyTag(offset, len, lessThan12) \in Seq(Byte)
         /\ Len(CopyTag(offset, len, lessThan12)) >= 2
         /\ Len(CopyTag(offset, len, lessThan12)) <= 3
         /\ ~IsLiteral(CopyTag(offset, len, lessThan12)[1])
         /\ ElementBody(s \o CopyTag(offset, len, lessThan12), Len(s)) =
              Len(s \o CopyTag(offset, len, lessThan12))
         /\ ElementLength(s \o CopyTag(offset, len, lessThan12), Len(s)) = len
         /\ ElementOffset(s \o CopyTag(offset, len, lessThan12), Len(s)) = offset
<1> DEFINE tag == CopyTag(offset, len, lessThan12)
           r == s \o tag
           p == Len(s)
           low == offset % 256
           high == offset \div 256
<1> SUFFICES /\ tag \in Seq(Byte) /\ Len(tag) >= 2 /\ Len(tag) <= 3
             /\ ~IsLiteral(tag[1])
             /\ ElementBody(r, p) = Len(r)
             /\ ElementLength(r, p) = len
             /\ ElementOffset(r, p) = offset
  OBVIOUS
<1>1. low \in 0 .. 255 /\ high \in 0 .. 255 /\ offset = low + 256 * high
  BY SMT
<1>2. CASE lessThan12 /\ offset < 2048
  <2> DEFINE c == 1 + (len - 4) * 4 + high * 32
  <2>1. tag = <<c, low>>
    BY <1>2 DEF CopyTag, COPY_1_BYTE_OFFSET
  <2>2. high \in 0 .. 7 /\ len - 4 \in 0 .. 7
    BY <1>1, <1>2
  <2> HIDE DEF high, low
  <2>3. /\ c \in 0 .. 255 /\ c % 4 = 1 /\ (c \div 4) % 8 = len - 4 /\ c \div 32 = high
    BY <2>2, SMT
  <2> HIDE DEF c
  <2>4. tag \in Seq(Byte) /\ Len(tag) = 2 /\ tag[1] = c /\ tag[2] = low
    <3>1. c \in Byte /\ low \in Byte
      BY <1>1, <2>3 DEF Byte, low
    <3> HIDE DEF tag
    <3> QED
      BY <2>1, <3>1
  <2> HIDE DEF tag
  <2>5. r \in Seq(Byte) /\ p \in Nat /\ Len(r) = p + 2 /\ r[p + 1] = c /\ r[p + 2] = low
    <3>1. tag \in Seq(Byte)
      BY <2>4
    <3>2. /\ r \in Seq(Byte) /\ Len(r) = Len(s) + Len(tag)
          /\ \A i \in 1 .. Len(s) + Len(tag) :
               r[i] = IF i <= Len(s) THEN s[i] ELSE tag[i - Len(s)]
      BY <3>1, ConcatIs
    <3>3. Len(s) \in Nat
      OBVIOUS
    <3> HIDE DEF r
    <3> QED
      BY <2>4, <3>2, <3>3
  <2> HIDE DEF r, p
  <2>6. ~IsLiteral(c) /\ TagExtra(c) = 1
    <3>1. c \in 0 .. 255 /\ c % 4 = 1
      BY <2>3
    <3>2. (IsLiteral(c) <=> c % 4 = 0) /\ (c % 4 = 1 => TagExtra(c) = 1)
      BY <3>1, TagIs
    <3> QED
      BY <3>1, <3>2
  <2>7. ElementBody(r, p) = Len(r)
    BY <2>5, <2>6 DEF ElementBody
  <2>8. ElementLength(r, p) = len
    <3>1. ElementLength(r, p) = ((c \div 4) % 8) + 4
      BY <2>3, <2>5, <2>6, Zenon DEF ElementLength, COPY_1_BYTE_OFFSET
    <3> QED
      BY <2>3, <3>1
  <2>9. Load32Masked(r, p + 1, 1) = low
    <3> DEFINE q == p + 1
    <3>1. q \in Nat /\ q + 1 <= Len(r) /\ r[q + 1] = low
      BY <2>5
    <3> HIDE DEF q
    <3>2. Load32Masked(r, q, 1) = r[q + 1]
      <4>1. r \in Seq(Byte)
        BY <2>5
      <4> QED
        BY <3>1, <4>1, LoadIs
    <3> QED
      BY <3>1, <3>2 DEF q
  <2>10. ElementOffset(r, p) = offset
    <3>1. ElementOffset(r, p) = (c \div 32) * 256 + Load32Masked(r, p + 1, 1)
      BY <2>3, <2>5, <2>6 DEF ElementOffset, COPY_1_BYTE_OFFSET
    <3> QED
      BY <1>1, <2>3, <2>9, <3>1
  <2> QED
    BY <2>4, <2>5, <2>6, <2>7, <2>8, <2>10 DEF tag, r, p
<1>3. CASE ~(lessThan12 /\ offset < 2048)
  <2> DEFINE c == 2 + (len - 1) * 4
  <2>1. tag = <<c, low, high>>
    BY <1>3 DEF CopyTag, COPY_2_BYTE_OFFSET
  <2> HIDE DEF high, low
  <2>3. /\ c \in 0 .. 255 /\ c % 4 = 2 /\ c \div 4 = len - 1
    BY SMT
  <2> HIDE DEF c
  <2>4. tag \in Seq(Byte) /\ Len(tag) = 3 /\ tag[1] = c /\ tag[2] = low /\ tag[3] = high
    <3>1. c \in Byte /\ low \in Byte /\ high \in Byte
      BY <1>1, <2>3 DEF Byte, low, high
    <3> HIDE DEF tag
    <3> QED
      BY <2>1, <3>1
  <2> HIDE DEF tag
  <2>5. /\ r \in Seq(Byte) /\ p \in Nat /\ Len(r) = p + 3
        /\ r[p + 1] = c /\ r[p + 2] = low /\ r[p + 3] = high
    <3>1. tag \in Seq(Byte)
      BY <2>4
    <3>2. /\ r \in Seq(Byte) /\ Len(r) = Len(s) + Len(tag)
          /\ \A i \in 1 .. Len(s) + Len(tag) :
               r[i] = IF i <= Len(s) THEN s[i] ELSE tag[i - Len(s)]
      BY <3>1, ConcatIs
    <3>3. Len(s) \in Nat
      OBVIOUS
    <3> HIDE DEF r
    <3> QED
      BY <2>4, <3>2, <3>3
  <2> HIDE DEF r, p
  <2>6. ~IsLiteral(c) /\ TagExtra(c) = 2
    <3>1. c \in 0 .. 255 /\ c % 4 = 2
      BY <2>3
    <3>2. (IsLiteral(c) <=> c % 4 = 0) /\ (c % 4 = 2 => TagExtra(c) = 2)
      BY <3>1, TagIs
    <3> QED
      BY <3>1, <3>2
  <2>7. ElementBody(r, p) = Len(r)
    BY <2>5, <2>6 DEF ElementBody
  <2>8. ElementLength(r, p) = len
    <3>1. c % 4 # COPY_1_BYTE_OFFSET
      BY <2>3 DEF COPY_1_BYTE_OFFSET
    <3>2. ElementLength(r, p) = c \div 4 + 1
      BY <2>5, <2>6, <3>1, Zenon DEF ElementLength
    <3> QED
      BY <2>3, <3>2
  <2>9. Load32Masked(r, p + 1, 2) = low + 256 * high
    <3> DEFINE q == p + 1
    <3>1. q \in Nat /\ q + 2 <= Len(r) /\ r[q + 1] = low /\ r[q + 2] = high
      BY <2>5
    <3> HIDE DEF q
    <3>2. Load32Masked(r, q, 2) = r[q + 1] + 256 * r[q + 2]
      <4>1. r \in Seq(Byte)
        BY <2>5
      <4> QED
        BY <3>1, <4>1, LoadIs
    <3> QED
      BY <3>1, <3>2 DEF q
  <2>10. ElementOffset(r, p) = offset
    <3>1. ElementOffset(r, p) = 0 + Load32Masked(r, p + 1, 2)
      BY <2>3, <2>5, <2>6 DEF ElementOffset, COPY_1_BYTE_OFFSET
    <3> QED
      BY <1>1, <2>9, <3>1
  <2> QED
    BY <2>4, <2>5, <2>6, <2>7, <2>8, <2>10 DEF tag, r, p
<1> HIDE DEF tag, r, p
<1> QED
  BY <1>2, <1>3

-----------------------------------------------------------------------------
(***************************************************************************)
(* Repetition: what a copy adds is the input, when every byte of the input *)
(* there is equal to the one "offset" bytes before.                        *)
(***************************************************************************)
LEMMA Multiple ==
  ASSUME NEW d \in Nat \ {0}, NEW k \in Int
  PROVE  (k >= 1 => d * k >= d) /\ (k <= -1 => d * k <= -d)
<1>1. ASSUME k >= 1 PROVE d * k >= d
  <2>1. d * k = d + d * (k - 1)
    OBVIOUS
  <2>2. d * (k - 1) >= 0
    BY <1>1
  <2> QED
    BY <2>1, <2>2
<1>2. ASSUME k <= -1 PROVE d * k <= -d
  <2>1. -(d * k) = d + d * (-k - 1)
    OBVIOUS
  <2>2. d * (-k - 1) >= 0
    BY <1>2
  <2> QED
    BY <2>1, <2>2
<1> QED
  BY <1>1, <1>2

LEMMA Remainder ==
  ASSUME NEW a \in Nat, NEW d \in Nat \ {0}, a >= d
  PROVE  (a - d) % d = a % d
<1> DEFINE r1 == a % d
           q1 == a \div d
           r2 == (a - d) % d
           q2 == (a - d) \div d
<1>1. r1 \in Int /\ 0 <= r1 /\ r1 < d /\ q1 \in Int /\ a = r1 + d * q1
  OBVIOUS
<1>2. r2 \in Int /\ 0 <= r2 /\ r2 < d /\ q2 \in Int /\ a - d = r2 + d * q2
  OBVIOUS
<1> HIDE DEF r1, r2, q1, q2
<1> DEFINE k == q2 + 1 - q1
<1>3. k \in Int /\ d * k = d * q2 + d - d * q1
  BY <1>1, <1>2
<1>4. r1 - r2 = d * k
  BY <1>1, <1>2, <1>3
<1> HIDE DEF k
<1>5. (k >= 1 => d * k >= d) /\ (k <= -1 => d * k <= -d)
  BY <1>3, Multiple
<1>6. k = 0
  BY <1>1, <1>2, <1>3, <1>4, <1>5
<1>7. d * k = 0
  BY <1>6
<1> QED
  BY <1>1, <1>2, <1>4, <1>7 DEF r1, r2

LEMMA RemainderOfLess ==
  ASSUME NEW a \in Nat, NEW d \in Nat \ {0}
  PROVE  a % d \in 0 .. d - 1 /\ (a < d => a % d = a)
OBVIOUS

\* The len bytes of s from e on are equal to those d before them.
Matches(s, e, len, d) == \A i \in e + 1 .. e + len : s[i] = s[i - d]

\* Bytes that are equal to those d before them repeat the last d bytes.
LEMMA PeriodRepeats ==
  ASSUME NEW s \in Seq(Byte), NEW e \in Nat, NEW d \in Nat \ {0}, d <= e,
         NEW len \in Nat, Matches(s, e, len, d)
  PROVE  \A i \in 1 .. len : s[e + i] = s[e - d + 1 + ((i - 1) % d)]
<1> DEFINE P(i) == s[e + i] = s[e - d + 1 + ((i - 1) % d)]
           Wrong == {i \in Nat : i \in 1 .. len /\ ~P(i)}
<1>1. Wrong = {}
  <2> SUFFICES ASSUME Wrong # {} PROVE FALSE
    OBVIOUS
  <2>1. PICK k \in Wrong : \A j \in Wrong : k <= j
    <3>1. Wrong \in SUBSET Nat
      OBVIOUS
    <3> HIDE DEF Wrong
    <3> QED
      BY <3>1, LeastOfNat
  <2>2. k \in Nat /\ 1 <= k /\ k <= len /\ ~P(k)
    OBVIOUS
  <2>3. s[e + k] = s[e + k - d]
    <3>1. e + k \in e + 1 .. e + len
      BY <2>2
    <3> QED
      BY <3>1 DEF Matches
  <2>4. CASE k <= d
    <3>1. (k - 1) % d = k - 1
      <4>1. k - 1 \in Nat /\ k - 1 < d
        BY <2>2, <2>4
      <4> QED
        BY <4>1, RemainderOfLess
    <3>2. e - d + 1 + (k - 1) = e + k - d
      BY <2>2
    <3> QED
      BY <2>2, <2>3, <3>1, <3>2
  <2>5. CASE k > d
    <3> DEFINE j == k - d
    <3>1. j \in Nat /\ 1 <= j /\ j < k /\ j <= len /\ e + j = e + k - d
      BY <2>2, <2>5
    <3>2. (j - 1) % d = (k - 1) % d
      <4>1. k - 1 \in Nat /\ k - 1 >= d
        BY <2>2, <2>5
      <4>2. (k - 1 - d) % d = (k - 1) % d
        BY <4>1, Remainder
      <4>3. j - 1 = k - 1 - d
        BY <2>2
      <4> QED
        BY <4>2, <4>3
    <3> HIDE DEF P, j
    <3>3. j \notin Wrong
      <4>1. ~(k <= j)
        BY <2>2, <3>1
      <4> QED
        BY <2>1, <4>1
    <3>4. P(j)
      BY <3>1, <3>3
    <3>5. s[e + j] = s[e - d + 1 + ((k - 1) % d)]
      BY <3>2, <3>4 DEF P
    <3> QED
      BY <2>2, <2>3, <3>1, <3>5 DEF P
  <2> QED
    BY <2>2, <2>4, <2>5
<1>2. ASSUME NEW i \in 1 .. len PROVE P(i)
  <2>1. i \notin Wrong
    BY <1>1
  <2>2. i \in Nat
    OBVIOUS
  <2> HIDE DEF P
  <2> QED
    BY <2>1, <2>2
<1> QED
  BY <1>2

\* A copy adds the bytes of the input that it stands for.
LEMMA CopyAdds ==
  ASSUME NEW s \in Seq(Byte), NEW e \in Nat, NEW d \in Nat \ {0}, d <= e,
         NEW len \in Nat, e + len <= Len(s),
         Matches(s, e, len, d)
  PROVE  Repeated(SubSeq(s, 1, e), d, len) = SubSeq(s, e + 1, e + len)
<1> DEFINE before == SubSeq(s, 1, e)
           u == Repeated(before, d, len)
           v == SubSeq(s, e + 1, e + len)
<1>1. before \in Seq(Byte) /\ Len(before) = e /\ \A i \in 1 .. e : before[i] = s[i]
  OBVIOUS
<1>2. v \in Seq(Byte) /\ Len(v) = len /\ \A i \in 1 .. len : v[i] = s[e + i]
  OBVIOUS
<1>3. \A i \in 1 .. len : s[e + i] = s[e - d + 1 + ((i - 1) % d)]
  BY PeriodRepeats
<1> HIDE DEF before, v
<1>4. u \in Seq(Byte) /\ Len(u) = len
  <2>1. d \in 1 .. Len(before)
    BY <1>1
  <2> QED
    BY <1>1, <2>1, RepeatedIs
<1>5. ASSUME NEW i \in 1 .. len PROVE u[i] = v[i]
  <2> DEFINE m == (i - 1) % d
  <2>1. m \in 0 .. d - 1
    <3>1. i - 1 \in Nat
      OBVIOUS
    <3> QED
      BY <3>1, RemainderOfLess
  <2>2. u[i] = before[Len(before) - d + 1 + m]
    BY DEF Repeated
  <2>3. s[e + i] = s[e - d + 1 + m]
    BY <1>3
  <2> HIDE DEF m, u
  <2>4. Len(before) - d + 1 + m \in 1 .. e /\ Len(before) = e
    BY <1>1, <2>1
  <2>5. u[i] = s[e - d + 1 + m]
    BY <1>1, <2>2, <2>4
  <2> QED
    BY <1>2, <2>3, <2>5
<1> HIDE DEF u
<1>6. u = v
  BY <1>2, <1>4, <1>5, SeqEqual
<1> QED
  BY <1>6 DEF u, v, before

-----------------------------------------------------------------------------
\* The output after a copy.
Copied(output, offset, len) == output \o Repeated(output, offset, len)

\* A copy behind a stream decodes to the last "offset" bytes, repeated.
LEMMA CopyDecodes ==
  ASSUME NEW s \in Seq(Byte), NEW offset \in Nat, offset >= 1, offset \div 256 <= 255,
         NEW len \in Nat, 4 <= len, len <= 64, NEW lessThan12 \in BOOLEAN, lessThan12 => len < 12,
         NEW limit \in Nat, Decode(s, limit).ok,
         Decode(s, limit).out \in Seq(Byte), offset <= Len(Decode(s, limit).out),
         Len(Decode(s, limit).out) + len <= limit
  PROVE  /\ s \o CopyTag(offset, len, lessThan12) \in Seq(Byte)
         /\ Len(s \o CopyTag(offset, len, lessThan12)) =
              Len(s) + Len(CopyTag(offset, len, lessThan12))
         /\ Decode(s \o CopyTag(offset, len, lessThan12), limit).ok
         /\ Decode(s \o CopyTag(offset, len, lessThan12), limit).out =
              Copied(Decode(s, limit).out, offset, len)
<1> DEFINE t == CopyTag(offset, len, lessThan12)
           r == s \o t
           p == Len(s)
           before == Decode(s, limit).out
<1>1. /\ t \in Seq(Byte) /\ Len(t) >= 2 /\ Len(t) <= 3
      /\ ~IsLiteral(t[1])
      /\ ElementBody(r, p) = Len(r)
      /\ ElementLength(r, p) = len
      /\ ElementOffset(r, p) = offset
  <2>1. t \in Seq(Byte)
    BY CopyTagIs, ZenonT(60)
  <2>2. Len(t) >= 2
    BY CopyTagIs, ZenonT(60)
  <2>3. Len(t) <= 3
    BY CopyTagIs, ZenonT(60)
  <2>4. ~IsLiteral(t[1])
    BY CopyTagIs, ZenonT(60)
  <2>5. ElementBody(r, p) = Len(r)
    BY CopyTagIs, ZenonT(60)
  <2>6. ElementLength(r, p) = len
    BY CopyTagIs, ZenonT(60)
  <2>7. ElementOffset(r, p) = offset
    BY CopyTagIs, ZenonT(60)
  <2> QED
    BY <2>1, <2>2, <2>3, <2>4, <2>5, <2>6, <2>7
<1> HIDE DEF t
<1>2. r \in Seq(Byte) /\ Len(r) = Len(s) + Len(t) /\ r[p + 1] = t[1]
  <2>1. t \in Seq(Byte)
    BY <1>1
  <2>2. /\ r \in Seq(Byte) /\ Len(r) = Len(s) + Len(t)
        /\ \A i \in 1 .. Len(s) + Len(t) : r[i] = IF i <= Len(s) THEN s[i] ELSE t[i - Len(s)]
    BY <2>1, ConcatIs
  <2>3. Len(s) \in Nat /\ Len(t) >= 2 /\ Len(t) \in Nat
    BY <1>1
  <2> HIDE DEF r
  <2> QED
    BY <2>2, <2>3, SMTT(30)
<1>3. t # <<>>
  <2>1. Len(t) # 0
    BY <1>1
  <2> QED
    BY <2>1
<1> HIDE DEF r
<1>4. p \in Nat /\ before \in Seq(Byte) /\ offset <= Len(before) /\ Len(before) + len <= limit
  OBVIOUS
<1> HIDE DEF before
<1>5. ElementEnd(r, p) = Len(r)
  <2>1. ElementEnd(r, p) = ElementBody(r, p) + 0
    BY <1>1, <1>2 DEF ElementEnd
  <2>2. Len(r) \in Nat
    BY <1>2
  <2> QED
    BY <1>1, <2>1, <2>2
<1>6. ElementIsLegal(r, p, before, limit)
  <2>1. offset \in 1 .. Len(before)
    BY <1>4
  <2>2. Len(r) \in Nat
    BY <1>2
  <2>3. /\ ElementBody(r, p) <= Len(r) /\ ElementEnd(r, p) <= Len(r)
        /\ Len(before) + ElementLength(r, p) <= limit
        /\ ElementOffset(r, p) \in 1 .. Len(before)
    BY <1>1, <1>4, <1>5, <2>1, <2>2
  <2>4. ~IsLiteral(r[p + 1])
    BY <1>1, <1>2
  <2> QED
    BY <2>3, <2>4 DEF ElementIsLegal
<1>7. ElementBytes(r, p, before) = Repeated(before, offset, len)
  BY <1>1, <1>2 DEF ElementBytes
<1>8. Decode(s \o t, limit) = [out |-> before \o Repeated(before, offset, len), ok |-> TRUE]
  <2>1. /\ ElementIsLegal(s \o t, Len(s), Decode(s, limit).out, limit)
        /\ ElementEnd(s \o t, Len(s)) = Len(s \o t)
        /\ ElementBytes(s \o t, Len(s), Decode(s, limit).out) =
             Repeated(Decode(s, limit).out, offset, len)
    BY <1>5, <1>6, <1>7 DEF r, p, before
  <2>2. t \in Seq(Byte)
    BY <1>1
  <2>3. Decode(s \o t, limit) =
          [out |-> Decode(s, limit).out \o ElementBytes(s \o t, Len(s), Decode(s, limit).out),
           ok |-> TRUE]
    BY <1>3, <2>1, <2>2, DecodeOneMore
  <2> QED
    BY <2>1, <2>3 DEF before
<1>9. s \o t \in Seq(Byte) /\ Len(s \o t) = Len(s) + Len(t)
  BY <1>2 DEF r
<1> DEFINE after == before \o Repeated(before, offset, len)
<1> HIDE DEF after
<1>10. Decode(s \o t, limit) = [out |-> after, ok |-> TRUE]
  BY <1>8 DEF after
<1>11. Decode(s \o t, limit).ok /\ Decode(s \o t, limit).out = after
  BY <1>10
<1> QED
  BY <1>9, <1>11, Zenon DEF t, after, before, Copied

\* The empty stream decodes to nothing.
LEMMA NothingDecodes ==
  ASSUME NEW limit \in Nat
  PROVE  Decode(<<>>, limit) = [out |-> <<>>, ok |-> TRUE]
<1> DEFINE none == <<>>
<1>1. none \in Seq(Byte) /\ 0 \in Nat /\ 0 >= Len(none)
  OBVIOUS
<1> HIDE DEF none
<1>2. DecodeFrom(none, 0, none, limit) = [out |-> none, ok |-> TRUE]
  BY <1>1, DecodeFromIs
<1> QED
  BY <1>2 DEF none, Decode

\* A prefix of a sequence grows by the elements that follow it.
LEMMA PrefixGrows ==
  ASSUME NEW s \in Seq(Byte), NEW a \in Nat, NEW b \in Nat, a <= b, b <= Len(s)
  PROVE  /\ SubSeq(s, 1, a) \in Seq(Byte) /\ Len(SubSeq(s, 1, a)) = a
         /\ SubSeq(s, a + 1, b) \in Seq(Byte) /\ Len(SubSeq(s, a + 1, b)) = b - a
         /\ SubSeq(s, 1, a) \o SubSeq(s, a + 1, b) = SubSeq(s, 1, b)
<1> DEFINE u == SubSeq(s, 1, a)
           v == SubSeq(s, a + 1, b)
           w == SubSeq(s, 1, b)
<1>1. u \in Seq(Byte) /\ Len(u) = a /\ \A i \in 1 .. a : u[i] = s[i]
  OBVIOUS
<1>2. v \in Seq(Byte) /\ Len(v) = b - a /\ \A i \in 1 .. b - a : v[i] = s[a + i]
  OBVIOUS
<1>3. w \in Seq(Byte) /\ Len(w) = b /\ \A i \in 1 .. b : w[i] = s[i]
  OBVIOUS
<1> HIDE DEF u, v, w
<1>4. /\ u \o v \in Seq(Byte) /\ Len(u \o v) = b
      /\ \A i \in 1 .. b : (u \o v)[i] = IF i <= a THEN u[i] ELSE v[i - a]
  <2>1. /\ u \o v \in Seq(Byte) /\ Len(u \o v) = Len(u) + Len(v)
        /\ \A i \in 1 .. Len(u) + Len(v) : (u \o v)[i] = IF i <= Len(u) THEN u[i] ELSE v[i - Len(u)]
    <3>1. u \in Seq(Byte) /\ v \in Seq(Byte)
      BY <1>1, <1>2
    <3>2. u \o v \in Seq(Byte) /\ Len(u \o v) = Len(u) + Len(v)
      BY <3>1
    <3>3. \A i \in 1 .. Len(u) + Len(v) : (u \o v)[i] = IF i <= Len(u) THEN u[i] ELSE v[i - Len(u)]
      BY <3>1
    <3> QED
      BY <3>2, <3>3
  <2>2. Len(u) + Len(v) = b /\ Len(u) = a
    BY <1>1, <1>2
  <2> QED
    BY <2>1, <2>2
<1> DEFINE uv == u \o v
<1> HIDE DEF uv
<1>5. ASSUME NEW i \in 1 .. b PROVE uv[i] = w[i]
  <2>1. uv[i] = IF i <= a THEN u[i] ELSE v[i - a]
    BY <1>4 DEF uv
  <2>2. CASE i <= a
    BY <1>1, <1>3, <2>1, <2>2
  <2>3. CASE i > a
    <3>1. i - a \in 1 .. b - a /\ a + (i - a) = i /\ ~(i <= a)
      BY <2>3
    <3>2. v[i - a] = s[i]
      BY <1>2, <3>1
    <3> QED
      BY <1>3, <2>1, <3>1, <3>2
  <2> QED
    BY <2>2, <2>3
<1>6. uv = w
  BY <1>3, <1>4, <1>5, SeqEqual DEF uv
<1> QED
  BY <1>1, <1>2, <1>6 DEF uv, u, v, w

\* What an emitted literal or copy stands for is what follows in the input: a
\* stream that decodes to a prefix of the input goes on to decode to a longer one.
LEMMA LiteralEchoes ==
  ASSUME NEW input \in Seq(Byte), NEW s \in Seq(Byte), NEW from \in Nat, NEW to \in Nat,
         from < to, to <= Len(input), LengthBytes(to - from) # 3,
         Decode(s, Len(input)).ok, Decode(s, Len(input)).out = SubSeq(input, 1, from)
  PROVE  LET t == s \o LiteralTag(to - from) \o SubSeq(input, from + 1, to)
         IN  /\ t \in Seq(Byte) /\ Len(t) = Len(s) + 1 + LengthBytes(to - from) + (to - from)
             /\ Decode(t, Len(input)).ok /\ Decode(t, Len(input)).out = SubSeq(input, 1, to)
<1> DEFINE bytes == SubSeq(input, from + 1, to)
           tag == LiteralTag(to - from)
           limit == Len(input)
           before == SubSeq(input, 1, from)
           r == s \o (tag \o bytes)
<1>1. /\ bytes \in Seq(Byte) /\ Len(bytes) = to - from /\ before \in Seq(Byte) /\ Len(before) = from
      /\ before \o bytes = SubSeq(input, 1, to)
  BY PrefixGrows
<1>2. Len(bytes) # 0 /\ limit \in Nat /\ Len(before) + Len(bytes) <= limit
  BY <1>1
<1> HIDE DEF bytes, before, limit
<1>3. /\ Decode(s, limit).ok /\ Decode(s, limit).out = before
      /\ bytes # <<>> /\ LengthBytes(Len(bytes)) # 3
  BY <1>1, <1>2 DEF before, limit
<1>4. LiteralTag(Len(bytes)) = tag /\ tag \in Seq(Byte)
  <2> DEFINE len == Len(bytes)
  <2>1. len \in Nat \ {0} /\ Len(bytes) = len /\ LengthBytes(len) # 3
    BY <1>1, <1>2, <1>3
  <2> HIDE DEF len
  <2>2. LiteralTag(len) \in Seq(Byte)
    BY <1>1, <2>1, LiteralTagIs
  <2> QED
    BY <1>1, <2>2 DEF len
<1> HIDE DEF tag
<1>5. /\ s \o (LiteralTag(Len(bytes)) \o bytes) \in Seq(Byte)
      /\ Len(s \o (LiteralTag(Len(bytes)) \o bytes)) =
           Len(s) + 1 + LengthBytes(Len(bytes)) + Len(bytes)
      /\ Decode(s \o (LiteralTag(Len(bytes)) \o bytes), limit) =
           [out |-> Decode(s, limit).out \o bytes, ok |-> TRUE]
  <2>1. /\ Decode(s, limit).out \in Seq(Byte)
        /\ Len(Decode(s, limit).out) + Len(bytes) <= limit
    BY <1>1, <1>2, <1>3
  <2> QED
    BY <1>1, <1>2, <1>3, <2>1, LiteralDecodes
<1>6. /\ r \in Seq(Byte) /\ Len(r) = Len(s) + 1 + LengthBytes(to - from) + (to - from)
      /\ Decode(r, limit) = [out |-> before \o bytes, ok |-> TRUE]
  BY <1>1, <1>3, <1>4, <1>5, Zenon
<1>7. s \o tag \o bytes = r
  <2>1. tag \in Seq(Byte) /\ bytes \in Seq(Byte)
    BY <1>1, <1>4
  <2>2. \A u, v \in Seq(Byte) : s \o u \o v = s \o (u \o v)
    BY ConcatAssociative, SMTT(30)
  <2> QED
    BY <2>1, <2>2, Zenon
<1> HIDE DEF r
<1>8. Decode(r, limit).ok /\ Decode(r, limit).out = SubSeq(input, 1, to)
  BY <1>1, <1>6
<1> QED
  BY <1>6, <1>7, <1>8, Zenon DEF tag, bytes, limit

LEMMA CopyEchoes ==
  ASSUME NEW input \in Seq(Byte), NEW s \in Seq(Byte), NEW from \in Nat,
         NEW offset \in Nat, offset >= 1, offset \div 256 <= 255, offset <= from,
         NEW len \in Nat, 4 <= len, len <= 64, from + len <= Len(input),
         NEW lessThan12 \in BOOLEAN, lessThan12 => len < 12,
         Matches(input, from, len, offset),
         Decode(s, Len(input)).ok, Decode(s, Len(input)).out = SubSeq(input, 1, from)
  PROVE  LET t == s \o CopyTag(offset, len, lessThan12)
         IN  /\ t \in Seq(Byte) /\ Len(t) = Len(s) + Len(CopyTag(offset, len, lessThan12))
             /\ Decode(t, Len(input)).ok /\ Decode(t, Len(input)).out = SubSeq(input, 1, from + len)
<1> DEFINE limit == Len(input)
           before == SubSeq(input, 1, from)
           t == s \o CopyTag(offset, len, lessThan12)
<1>1. /\ before \in Seq(Byte) /\ Len(before) = from
      /\ before \o SubSeq(input, from + 1, from + len) = SubSeq(input, 1, from + len)
  <2>1. from + len \in Nat /\ from <= from + len
    OBVIOUS
  <2> QED
    BY <2>1, PrefixGrows
<1>2. Repeated(before, offset, len) = SubSeq(input, from + 1, from + len)
  <2>1. offset \in Nat \ {0}
    OBVIOUS
  <2> QED
    BY <2>1, CopyAdds
<1>3. limit \in Nat /\ Len(before) + len <= limit /\ offset <= Len(before)
  BY <1>1
<1> HIDE DEF before, limit
<1>4. Decode(s, limit).ok /\ Decode(s, limit).out = before
  BY DEF before, limit
<1>5. /\ t \in Seq(Byte) /\ Len(t) = Len(s) + Len(CopyTag(offset, len, lessThan12))
      /\ Decode(t, limit).ok
      /\ Decode(t, limit).out = Copied(Decode(s, limit).out, offset, len)
  <2>1. /\ Decode(s, limit).out \in Seq(Byte) /\ offset <= Len(Decode(s, limit).out)
        /\ Len(Decode(s, limit).out) + len <= limit
    BY <1>1, <1>3, <1>4
  <2> QED
    <3>1. limit \in Nat /\ Decode(s, limit).ok
      BY <1>3, <1>4
    <3>2. t \in Seq(Byte)
      BY <2>1, <3>1, CopyDecodes
    <3>3. Len(t) = Len(s) + Len(CopyTag(offset, len, lessThan12))
      BY <2>1, <3>1, CopyDecodes
    <3>4. Decode(t, limit).ok
      BY <2>1, <3>1, CopyDecodes
    <3>5. Decode(t, limit).out = Copied(Decode(s, limit).out, offset, len)
      BY <2>1, <3>1, CopyDecodes
    <3> QED
      BY <3>2, <3>3, <3>4, <3>5
<1> HIDE DEF t
<1>6. Decode(t, limit).out = SubSeq(input, 1, from + len)
  BY <1>1, <1>2, <1>4, <1>5, Zenon DEF Copied
<1> QED
  BY <1>5, <1>6, Zenon DEF t, limit
=============================================================================
