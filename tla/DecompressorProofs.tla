------------------------- MODULE DecompressorProofs -------------------------
(***************************************************************************)
(* However the source cuts a stream into fragments, SnappyDecompressor     *)
(* makes of it what the reference makes of the whole of it at once.        *)
(***************************************************************************)
EXTENDS Decompressor, SnappyFormatProofs

(***************************************************************************)
(* The table of tags, entry by entry.                                      *)
(***************************************************************************)
LEMMA TableIs ==
  /\ \A c \in 0 .. 255 : EntryExtra(c) = TagExtra(c)
  /\ \A c \in 0 .. 255 : c % 4 # 0 =>
       EntryLength(c) = IF c % 4 = 1 THEN ((c \div 4) % 8) + 4 ELSE c \div 4 + 1
  /\ \A c \in 0 .. 255 : c % 4 # 0 =>
       EntryOffset(c) = IF c % 4 = 1 THEN (c \div 32) * 256 ELSE 0
<1>1. \A c \in 0 .. 255 : EntryExtra(c) = TagExtra(c)
  BY SMTT(60) DEF char_table, EntryExtra, TagExtra, LITERAL, COPY_1_BYTE_OFFSET,
                  COPY_2_BYTE_OFFSET
<1>2. \A c \in 0 .. 255 : c % 4 # 0 =>
        EntryLength(c) = IF c % 4 = 1 THEN ((c \div 4) % 8) + 4 ELSE c \div 4 + 1
  BY SMTT(60) DEF char_table, EntryLength
<1>3. \A c \in 0 .. 255 : c % 4 # 0 =>
        EntryOffset(c) = IF c % 4 = 1 THEN (c \div 32) * 256 ELSE 0
  BY SMTT(60) DEF char_table, EntryOffset
<1> QED
  BY <1>1, <1>2, <1>3

(***************************************************************************)
(* Parts of a stream: b is what comes in s after its first u bytes.        *)
(***************************************************************************)
IsPart(b, s, u) == /\ b \in Seq(Byte) /\ u \in Nat /\ u + Len(b) <= Len(s)
                   /\ \A i \in 1 .. Len(b) : b[i] = s[u + i]

\* The next k bytes of s after its first u.
Part(s, u, k) == SubSeq(s, u + 1, u + k)

LEMMA PartIsSubSeq ==
  ASSUME NEW s \in Seq(Byte), NEW b, NEW u, IsPart(b, s, u)
  PROVE  b = Part(s, u, Len(b))
<1>1. /\ b \in Seq(Byte) /\ u \in Nat /\ Len(b) \in Nat /\ u + Len(b) <= Len(s)
      /\ \A i \in 1 .. Len(b) : b[i] = s[u + i]
  BY DEF IsPart
<1> DEFINE v == SubSeq(s, u + 1, u + Len(b))
<1>2. v \in Seq(Byte) /\ Len(v) = Len(b) /\ \A i \in 1 .. Len(b) : v[i] = s[u + i]
  <2>1. \A i \in 1 .. Len(b) : u + 1 + i - 1 = u + i
    BY <1>1
  <2> QED
    BY <1>1, <2>1
<1> HIDE DEF v
<1>3. b = v
  BY <1>1, <1>2
<1> QED
  BY <1>3, Zenon DEF v, Part

LEMMA SubSeqIsPart ==
  ASSUME NEW s \in Seq(Byte), NEW u \in Nat, NEW k \in Nat, u + k <= Len(s)
  PROVE  IsPart(Part(s, u, k), s, u) /\ Len(Part(s, u, k)) = k
<1> DEFINE v == SubSeq(s, u + 1, u + k)
<1>1. v \in Seq(Byte) /\ Len(v) = k /\ \A i \in 1 .. k : v[i] = s[u + i]
  <2>1. \A i \in 1 .. k : u + 1 + i - 1 = u + i
    OBVIOUS
  <2> QED
    BY <2>1
<1> HIDE DEF v
<1>2. IsPart(v, s, u) /\ Len(v) = k
  BY <1>1 DEF IsPart
<1> QED
  BY <1>2, Zenon DEF v, Part

\* Without its first k bytes, and those bytes.
LEMMA PartIsCut ==
  ASSUME NEW s \in Seq(Byte), NEW b, NEW u, IsPart(b, s, u), NEW k \in Nat, k <= Len(b)
  PROVE  /\ IsPart(SubSeq(b, k + 1, Len(b)), s, u + k)
         /\ Len(SubSeq(b, k + 1, Len(b))) = Len(b) - k
         /\ Part(b, 0, k) = Part(s, u, k)
<1>1. /\ b \in Seq(Byte) /\ u \in Nat /\ Len(b) \in Nat /\ u + Len(b) <= Len(s)
      /\ \A i \in 1 .. Len(b) : b[i] = s[u + i]
  BY DEF IsPart
<1> DEFINE v == SubSeq(b, k + 1, Len(b))
           w == Part(b, 0, k)
<1>2. /\ v \in Seq(Byte) /\ Len(v) = Len(b) - k
      /\ \A i \in 1 .. Len(b) - k : v[i] = b[k + i]
  <2>1. \A i \in 1 .. Len(b) - k : k + 1 + i - 1 = k + i
    BY <1>1
  <2> QED
    BY <1>1, <2>1
<1>3. w \in Seq(Byte) /\ Len(w) = k /\ \A i \in 1 .. k : w[i] = b[i]
  BY <1>1 DEF Part
<1> HIDE DEF v, w
<1>4. \A i \in 1 .. Len(v) : v[i] = s[u + k + i]
  <2> TAKE i \in 1 .. Len(v)
  <2>1. v[i] = b[k + i] /\ k + i \in 1 .. Len(b)
    BY <1>1, <1>2
  <2>2. b[k + i] = s[u + (k + i)] /\ u + (k + i) = u + k + i
    BY <1>1, <2>1
  <2> QED
    BY <2>1, <2>2
<1>5. IsPart(v, s, u + k)
  BY <1>1, <1>2, <1>4 DEF IsPart
<1>6. IsPart(w, s, u)
  <2>1. \A i \in 1 .. Len(w) : w[i] = s[u + i]
    <3> TAKE i \in 1 .. Len(w)
    <3>1. i \in 1 .. k /\ i \in 1 .. Len(b)
      BY <1>1, <1>3
    <3> QED
      BY <1>1, <1>3, <3>1
  <2> QED
    BY <1>1, <1>3, <2>1 DEF IsPart
<1>7. w = Part(s, u, k)
  BY <1>3, <1>6, PartIsSubSeq
<1> QED
  BY <1>2, <1>5, <1>7 DEF v, w

LEMMA Appended ==
  ASSUME NEW a \in Seq(Byte), NEW b \in Seq(Byte)
  PROVE  /\ a \o b \in Seq(Byte) /\ Len(a \o b) = Len(a) + Len(b)
         /\ \A i \in 1 .. Len(a) : (a \o b)[i] = a[i]
         /\ \A i \in 1 .. Len(b) : (a \o b)[Len(a) + i] = b[i]
OBVIOUS

\* With the first k of the bytes that follow.
LEMMA PartGrows ==
  ASSUME NEW s \in Seq(Byte), NEW b, NEW u, IsPart(b, s, u),
         NEW w, w = u + Len(b), NEW f, IsPart(f, s, w), NEW k \in Nat, k <= Len(f)
  PROVE  /\ IsPart(b \o Part(f, 0, k), s, u)
         /\ Len(b \o Part(f, 0, k)) = Len(b) + k
         /\ b # <<>> => (b \o Part(f, 0, k))[1] = b[1]
<1>1. /\ b \in Seq(Byte) /\ u \in Nat /\ Len(b) \in Nat
      /\ \A i \in 1 .. Len(b) : b[i] = s[u + i]
      /\ f \in Seq(Byte) /\ Len(f) \in Nat /\ u + Len(b) + Len(f) <= Len(s)
      /\ \A i \in 1 .. Len(f) : f[i] = s[u + Len(b) + i]
  BY DEF IsPart
<1> DEFINE g == Part(f, 0, k)
<1>2. g \in Seq(Byte) /\ Len(g) = k /\ \A i \in 1 .. k : g[i] = f[i]
  BY <1>1 DEF Part
<1> HIDE DEF g
<1> DEFINE r == b \o g
<1>3. /\ r \in Seq(Byte) /\ Len(r) = Len(b) + k
      /\ \A i \in 1 .. Len(b) : r[i] = b[i]
      /\ \A i \in 1 .. k : r[Len(b) + i] = g[i]
  <2>1. b \in Seq(Byte) /\ g \in Seq(Byte) /\ Len(g) = k
    BY <1>1, <1>2
  <2>2. r \in Seq(Byte) /\ Len(r) = Len(b) + Len(g)
    BY <2>1, Appended
  <2>3. \A i \in 1 .. Len(b) : r[i] = b[i]
    BY <2>1, Appended, Zenon
  <2>4. \A i \in 1 .. Len(g) : r[Len(b) + i] = g[i]
    BY <2>1, Appended, Zenon
  <2> QED
    BY <2>1, <2>2, <2>3, <2>4
<1> HIDE DEF r
<1>4. \A i \in 1 .. Len(r) : r[i] = s[u + i]
  <2> TAKE i \in 1 .. Len(r)
  <2>1. CASE i <= Len(b)
    <3>1. i \in 1 .. Len(b)
      BY <1>1, <1>3, <2>1
    <3> QED
      BY <1>1, <1>3, <3>1
  <2>2. CASE i > Len(b)
    <3>1. PICK j \in 1 .. k : i = Len(b) + j
      <4>1. i - Len(b) \in 1 .. k /\ i = Len(b) + (i - Len(b))
        BY <1>1, <1>3, <2>2
      <4> QED
        BY <4>1
    <3>2. j \in 1 .. Len(f) /\ u + Len(b) + j = u + i
      BY <1>1, <3>1
    <3> QED
      BY <1>1, <1>2, <1>3, <3>1, <3>2, ZenonT(60)
  <2> QED
    BY <1>1, <2>1, <2>2
<1>5. b # <<>> => r[1] = b[1]
  <2>1. b # <<>> => 1 \in 1 .. Len(b)
    BY <1>1
  <2> QED
    BY <1>3, <2>1
<1> QED
  BY <1>1, <1>3, <1>4, <1>5, SMTT(30) DEF IsPart, r, g

\* Equal bytes are loaded alike.
LEMMA LoadOfPart ==
  ASSUME NEW s \in Seq(Byte), NEW r \in Seq(Byte), NEW p \in Nat, NEW q \in Nat,
         NEW k \in 0 .. 4, p + k <= Len(s), q + k <= Len(r),
         \A i \in 1 .. k : r[q + i] = s[p + i]
  PROVE  Load32Masked(r, q, k) = Load32Masked(s, p, k)
<1> DEFINE at(t, o, i) == IF k > i THEN t[o + i + 1] ELSE 0
<1>1. ASSUME NEW i \in 0 .. 3 PROVE at(r, q, i) = at(s, p, i)
  <2>1. CASE k > i
    <3>1. i + 1 \in 1 .. k /\ q + (i + 1) = q + i + 1 /\ p + (i + 1) = p + i + 1
      BY <2>1
    <3>2. r[q + (i + 1)] = s[p + (i + 1)]
      BY <3>1
    <3>3. r[q + i + 1] = s[p + i + 1]
      BY <3>1, <3>2
    <3> QED
      BY <2>1, <3>3, Zenon
  <2>2. CASE ~(k > i)
    BY <2>2, Zenon
  <2> QED
    BY <2>1, <2>2
<1>2. /\ at(r, q, 0) = at(s, p, 0) /\ at(r, q, 1) = at(s, p, 1)
      /\ at(r, q, 2) = at(s, p, 2) /\ at(r, q, 3) = at(s, p, 3)
  BY <1>1
<1>3. k = 4 => r[q + 4] = s[p + 4]
  OBVIOUS
<1> DEFINE load(t, o) == IF k = 4 /\ t[o + 4] >= 64 THEN Huge
                         ELSE at(t, o, 0) + 256 * (at(t, o, 1)
                                + 256 * (at(t, o, 2) + 256 * at(t, o, 3)))
<1>4. Load32Masked(s, p, k) = load(s, p) /\ Load32Masked(r, q, k) = load(r, q)
  BY DEF Load32Masked
<1> HIDE DEF at
<1>5. load(r, q) = load(s, p)
  BY <1>2, <1>3, ZenonT(60)
<1> HIDE DEF load
<1> QED
  BY <1>4, <1>5

\* A tag that is buffered with the bytes that belong to it is that of the element.
LEMMA TagOfPart ==
  ASSUME NEW s \in Seq(Byte), NEW b, NEW u, IsPart(b, s, u), b # <<>>
  PROVE  /\ b[1] = s[u + 1] /\ b[1] \in 0 .. 255 /\ u < Len(s)
         /\ TagExtra(b[1]) \in 0 .. 4 /\ EntryExtra(b[1]) = TagExtra(b[1])
         /\ ElementBody(s, u) = u + 1 + TagExtra(b[1])
         /\ Len(b) >= 1 + TagExtra(b[1]) =>
              /\ ElementBody(s, u) <= Len(s)
              /\ Load32Masked(b, 1, TagExtra(b[1])) = Load32Masked(s, u + 1, TagExtra(b[1]))
<1>1. /\ b \in Seq(Byte) /\ u \in Nat /\ Len(b) \in Nat /\ u + Len(b) <= Len(s)
      /\ \A i \in 1 .. Len(b) : b[i] = s[u + i]
  BY DEF IsPart
<1>2. Len(b) >= 1 /\ 1 \in 1 .. Len(b)
  BY <1>1
<1>3. b[1] = s[u + 1] /\ u < Len(s)
  BY <1>1, <1>2
<1>4. b[1] \in 0 .. 255
  BY <1>1, <1>2, ByteIs
<1>5. TagExtra(b[1]) \in 0 .. 4
  BY <1>4, TagIs
<1>6. EntryExtra(b[1]) = TagExtra(b[1])
  BY <1>4, TableIs
<1>7. ElementBody(s, u) = u + 1 + TagExtra(b[1])
  BY <1>3 DEF ElementBody
<1>8. ASSUME Len(b) >= 1 + TagExtra(b[1])
      PROVE  /\ ElementBody(s, u) <= Len(s)
             /\ Load32Masked(b, 1, TagExtra(b[1])) = Load32Masked(s, u + 1, TagExtra(b[1]))
  <2> DEFINE k == TagExtra(b[1])
  <2>1. k \in 0 .. 4 /\ 1 + k <= Len(b)
    BY <1>5, <1>8
  <2> HIDE DEF k
  <2>2. \A i \in 1 .. k : b[1 + i] = s[u + 1 + i]
    <3> TAKE i \in 1 .. k
    <3>1. 1 + i \in 1 .. Len(b) /\ u + (1 + i) = u + 1 + i
      BY <1>1, <2>1
    <3> QED
      BY <1>1, <3>1
  <2>4. u + 1 \in Nat /\ u + 1 + k <= Len(s) /\ 1 \in Nat
    BY <1>1, <2>1
  <2>3. Load32Masked(b, 1, k) = Load32Masked(s, u + 1, k)
    BY <1>1, <2>1, <2>2, <2>4, LoadOfPart, SMTT(30)
  <2> QED
    BY <1>1, <1>7, <2>1, <2>3 DEF k
<1> QED
  BY <1>3, <1>4, <1>5, <1>6, <1>7, <1>8

-----------------------------------------------------------------------------
(***************************************************************************)
(* The reference, on the elements that the decompressor finds.             *)
(***************************************************************************)
LEMMA LiteralRuns ==
  ASSUME NEW s \in Seq(Byte), NEW u \in Nat, u < Len(s), IsLiteral(s[u + 1]),
         ElementBody(s, u) <= Len(s), NEW o \in Seq(Byte), NEW limit \in Nat,
         NEW body, body = ElementBody(s, u), NEW k, k = ElementLength(s, u)
  PROVE  IF body + k <= Len(s) /\ Len(o) + k <= limit
         THEN DecodeFrom(s, u, o, limit) =
                DecodeFrom(s, body + k, o \o Part(s, body, k), limit)
         ELSE ~DecodeFrom(s, u, o, limit).ok
<1>1. ElementEnd(s, u) = body + k
  BY DEF ElementEnd
<1>2. ElementIsLegal(s, u, o, limit) <=> body + k <= Len(s) /\ Len(o) + k <= limit
  BY <1>1 DEF ElementIsLegal
<1>3. ElementBytes(s, u, o) = Part(s, body, k)
  BY <1>1, Zenon DEF ElementBytes, Part
<1>4. CASE ElementIsLegal(s, u, o, limit)
  <2>1. DecodeFrom(s, u, o, limit) =
          DecodeFrom(s, ElementEnd(s, u), o \o ElementBytes(s, u, o), limit)
    BY <1>4, DecodeFromIs
  <2> QED
    BY <1>1, <1>2, <1>3, <1>4, <2>1, Zenon
<1>5. CASE ~ElementIsLegal(s, u, o, limit)
  <2>1. DecodeFrom(s, u, o, limit) = [out |-> o, ok |-> FALSE]
    BY <1>5, DecodeFromIs
  <2> QED
    BY <1>2, <1>5, <2>1
<1> QED
  BY <1>4, <1>5

LEMMA CopyRuns ==
  ASSUME NEW s \in Seq(Byte), NEW u \in Nat, u < Len(s), ~IsLiteral(s[u + 1]),
         ElementBody(s, u) <= Len(s), NEW o \in Seq(Byte), NEW limit \in Nat,
         NEW d, d = ElementOffset(s, u), NEW k, k = ElementLength(s, u)
  PROVE  IF d \in 1 .. Len(o) /\ Len(o) + k <= limit
         THEN DecodeFrom(s, u, o, limit) =
                DecodeFrom(s, ElementBody(s, u), o \o Repeated(o, d, k), limit)
         ELSE ~DecodeFrom(s, u, o, limit).ok
<1>0. ElementBody(s, u) \in Nat
  BY ElementIs
<1>1. ElementEnd(s, u) = ElementBody(s, u)
  BY <1>0 DEF ElementEnd
<1>2. ElementIsLegal(s, u, o, limit) <=> d \in 1 .. Len(o) /\ Len(o) + k <= limit
  BY <1>1 DEF ElementIsLegal
<1>3. ElementBytes(s, u, o) = Repeated(o, d, k)
  BY DEF ElementBytes
<1>4. CASE ElementIsLegal(s, u, o, limit)
  <2>1. DecodeFrom(s, u, o, limit) =
          DecodeFrom(s, ElementEnd(s, u), o \o ElementBytes(s, u, o), limit)
    BY <1>4, DecodeFromIs
  <2> QED
    BY <1>1, <1>2, <1>3, <1>4, <2>1, Zenon
<1>5. CASE ~ElementIsLegal(s, u, o, limit)
  <2>1. DecodeFrom(s, u, o, limit) = [out |-> o, ok |-> FALSE]
    BY <1>5, DecodeFromIs
  <2> QED
    BY <1>2, <1>5, <2>1
<1> QED
  BY <1>4, <1>5

\* The reference makes of the stream s what it makes of the part from byte p on
\* after the output o, or of the part behind k more bytes of a literal.
Says(s, limit, p, o) == Decode(s, limit) = DecodeFrom(s, p, o, limit)
SaysAfter(s, limit, p, o, k) ==
  IF p + k <= Len(s) /\ Len(o) + k <= limit
  THEN Says(s, limit, p + k, o \o Part(s, p, k))
  ELSE ~Decode(s, limit).ok

LEMMA LiteralBegins ==
  ASSUME NEW s \in Seq(Byte), NEW u \in Nat, u < Len(s), IsLiteral(s[u + 1]),
         ElementBody(s, u) <= Len(s), NEW o \in Seq(Byte), NEW limit \in Nat,
         NEW body, body = ElementBody(s, u), NEW k, k = ElementLength(s, u),
         Says(s, limit, u, o)
  PROVE  SaysAfter(s, limit, body, o, k)
<1>1. IF body + k <= Len(s) /\ Len(o) + k <= limit
      THEN DecodeFrom(s, u, o, limit) =
             DecodeFrom(s, body + k, o \o Part(s, body, k), limit)
      ELSE ~DecodeFrom(s, u, o, limit).ok
  BY LiteralRuns
<1> QED
  BY <1>1, Zenon DEF Says, SaysAfter

Join(a, b) == a \o b

LEMMA PartsJoin ==
  ASSUME NEW s \in Seq(Byte), NEW p \in Nat, NEW j \in Nat, NEW k \in Nat, j <= k,
         p + k <= Len(s), NEW q, q = p + j, NEW m, m = k - j
  PROVE  Join(Part(s, p, j), Part(s, q, m)) = Part(s, p, k)
<1> DEFINE b == Part(s, p, j)
           f == Part(s, q, m)
<1>0. m \in Nat /\ q \in Nat /\ p + j <= Len(s) /\ q + m <= Len(s) /\ q + m = p + k
  OBVIOUS
<1>1. IsPart(b, s, p) /\ Len(b) = j
  BY <1>0, SubSeqIsPart
<1>2. IsPart(f, s, q) /\ Len(f) = m
  BY <1>0, SubSeqIsPart
<1> HIDE DEF b, f
<1>4. m \in Nat /\ m <= Len(f) /\ q = p + Len(b)
  BY <1>0, <1>1, <1>2
<1>5. Part(f, 0, m) = Part(s, q, m)
  BY <1>2, <1>4, PartIsCut
<1>6. /\ IsPart(b \o Part(f, 0, m), s, p)
      /\ Len(b \o Part(f, 0, m)) = Len(b) + m
  <2>1. IsPart(b \o Part(f, 0, m), s, p)
    BY <1>1, <1>2, <1>4, PartGrows
  <2>2. Len(b \o Part(f, 0, m)) = Len(b) + m
    BY <1>1, <1>2, <1>4, PartGrows
  <2> QED
    BY <2>1, <2>2
<1> DEFINE r == b \o Part(f, 0, m)
<1>7. r = Part(s, p, Len(r))
  <2> HIDE DEF r
  <2>1. IsPart(r, s, p)
    BY <1>6 DEF r
  <2> QED
    BY <2>1, PartIsSubSeq
<1>8. Len(r) = k
  BY <1>0, <1>1, <1>6
<1>9. Part(f, 0, m) = f
  BY <1>5, Zenon DEF f
<1> HIDE DEF r
<1>10. r = Part(s, p, k)
  BY <1>7, <1>8, Zenon
<1> QED
  BY <1>9, <1>10, Zenon DEF r, b, f, Join

LEMMA Regrouped ==
  ASSUME NEW a \in Seq(Byte), NEW b \in Seq(Byte), NEW c \in Seq(Byte)
  PROVE  (a \o b) \o c = a \o (b \o c)
BY ConcatAssociative

\* A part of the literal is taken.
LEMMA LiteralMoves ==
  ASSUME NEW s \in Seq(Byte), NEW p \in Nat, NEW o \in Seq(Byte), NEW limit \in Nat,
         NEW k \in Nat, NEW j \in Nat, j <= k, p + j <= Len(s), NEW q, q = p + j,
         NEW bytes, bytes = Part(s, p, j),
         SaysAfter(s, limit, p, o, k)
  PROVE  SaysAfter(s, limit, q, o \o bytes, k - j)
<1>1. IsPart(bytes, s, p) /\ Len(bytes) = j
  BY SubSeqIsPart
<1>2. bytes \in Seq(Byte)
  BY <1>1 DEF IsPart
<1>3. Len(o \o bytes) = Len(o) + j
  BY <1>1, <1>2, SMTT(30)
<1>4. q + (k - j) = p + k /\ Len(o \o bytes) + (k - j) = Len(o) + k
  BY <1>3
<1>5. CASE p + k <= Len(s) /\ Len(o) + k <= limit
  <2> DEFINE m == k - j
             f == Part(s, q, m)
  <2>1. bytes \o f = Part(s, p, k)
    <3> HIDE DEF f
    <3>0. m = k - j /\ p + k <= Len(s)
      BY <1>5
    <3> HIDE DEF m
    <3>1. Join(Part(s, p, j), Part(s, q, m)) = Part(s, p, k)
      BY <3>0, PartsJoin
    <3> USE DEF f, Join
    <3> QED
      BY <3>1, Zenon
  <2>2. f \in Seq(Byte)
    <3>1. q \in Nat /\ k - j \in Nat /\ q + (k - j) <= Len(s)
      BY <1>5
    <3>2. IsPart(f, s, q)
      BY <3>1, SubSeqIsPart
    <3> QED
      BY <3>2 DEF IsPart
  <2>3. (o \o bytes) \o f = o \o (bytes \o f)
    <3> HIDE DEF f
    <3> QED
      BY <1>2, <2>2, Regrouped, ZenonT(60)
  <2>4. Says(s, limit, p + k, o \o Part(s, p, k))
    BY <1>5 DEF SaysAfter
  <2>5. Says(s, limit, p + k, (o \o bytes) \o f)
    BY <2>1, <2>3, <2>4, Zenon
  <2> QED
    BY <1>4, <1>5, <2>5, Zenon DEF SaysAfter
<1>6. CASE ~(p + k <= Len(s) /\ Len(o) + k <= limit)
  BY <1>4, <1>6, Zenon DEF SaysAfter
<1> QED
  BY <1>5, <1>6
-----------------------------------------------------------------------------
(***************************************************************************)
(* The inductive invariant.  What is buffered is what comes next in the    *)
(* stream; a tag that is stitched together is not whole; and the reference *)
(* makes of the stream what it makes of the part that was not used, after  *)
(* the output so far, or behind the literal that is under way.             *)
(***************************************************************************)
Stitching == /\ pc = "stitch" => /\ peeked = 0
                                 /\ needed = EntryExtra(buf[1]) + 1 /\ Len(buf) < needed
             /\ pc \in {"stitch", "tag"} => buf # <<>>
Buffered == pc # "done" => IsPart(buf, stream, Used)
Core == TypeOK /\ Buffered /\ Stitching /\ TagReadable

SoFar == /\ pc \in {"refill", "stitch", "tag"} => Says(stream, expected, Used, out)
         /\ pc = "literal" => SaysAfter(stream, expected, Used, out, litLeft)
         /\ pc = "failed" => ~Decode(stream, expected).ok
StreamInv == Core /\ (~LengthWraps => SoFar /\ ResultIsReference)

\* The source returns what comes next, and nothing only at the end.
LEMMA FragmentIs ==
  ASSUME Peeks \subseteq Nat \ {0}, stream \in Seq(Byte), NEW p \in Nat, p <= Len(stream),
         NEW f \in Fragments(p)
  PROVE  /\ IsPart(f, stream, p) /\ f \in Seq(Byte) /\ Len(f) \in Nat
         /\ (f = <<>>) <=> (p = Len(stream))
<1>0. Len(stream) \in Nat
  OBVIOUS
<1>1. CASE p = Len(stream)
  <2>1. f = <<>>
    BY <1>0, <1>1 DEF Fragments
  <2>2. <<>> \in Seq(Byte) /\ Len(<<>>) = 0
    OBVIOUS
  <2>3. \A i \in 1 .. Len(<<>>) : <<>>[i] = stream[p + i]
    OBVIOUS
  <2>4. IsPart(<<>>, stream, p)
    BY <1>0, <1>1, <2>2, <2>3 DEF IsPart
  <2> QED
    BY <1>1, <2>1, <2>2, <2>4
<1>2. CASE p < Len(stream)
  <2>1. PICK k \in Nat : k >= 1 /\ p + k <= Len(stream) /\ f = SubSeq(stream, p + 1, p + k)
    <3>1. CASE f = SubSeq(stream, p + 1, Len(stream))
      <4> DEFINE k == Len(stream) - p
      <4>1. p + k = Len(stream) /\ k \in Nat /\ k >= 1 /\ p + k <= Len(stream)
        BY <1>0, <1>2
      <4> HIDE DEF k
      <4>2. f = SubSeq(stream, p + 1, p + k)
        BY <3>1, <4>1, Zenon
      <4> QED
        BY <4>1, <4>2, Zenon
    <3>2. CASE f \in {SubSeq(stream, p + 1, p + k) : k \in {m \in Peeks : p + m <= Len(stream)}}
      <4>1. PICK k \in Peeks : p + k <= Len(stream) /\ f = SubSeq(stream, p + 1, p + k)
        BY <3>2
      <4>2. k \in Nat /\ k >= 1
        BY <4>1
      <4> QED
        BY <4>1, <4>2
    <3> QED
      BY <1>0, <1>2, <3>1, <3>2 DEF Fragments
  <2>2. f = Part(stream, p, k)
    BY <2>1, Zenon DEF Part
  <2>5. IsPart(Part(stream, p, k), stream, p) /\ Len(Part(stream, p, k)) = k
    BY <2>1, SubSeqIsPart
  <2>3. IsPart(f, stream, p) /\ Len(f) = k
    BY <2>2, <2>5, Zenon
  <2>4. f \in Seq(Byte)
    BY <2>3 DEF IsPart
  <2>6. f # <<>>
    BY <2>1, <2>3
  <2>7. k >= 1
    BY <2>1
  <2> QED
    BY <1>0, <1>2, <2>6, <2>3, <2>4, <2>7
<1> QED
  BY <1>0, <1>1, <1>2

\* What RefillTag leaves behind of the bytes at ip.
LEMMA UseTagIs ==
  ASSUME stream \in Seq(Byte), NEW bytes, NEW u, IsPart(bytes, stream, u), bytes # <<>>,
         NEW base \in Nat, NEW here \in Nat, base + here = u + Len(bytes),
         UseTag(bytes, base, here)
  PROVE  /\ buf' = bytes /\ bytes \in Seq(Byte) /\ Len(bytes) \in Nat
         /\ pos' \in 0 .. Len(stream) /\ peeked' \in 0 .. Len(stream)
         /\ pos' + peeked' - Len(bytes) = u
         /\ slack' \in 0 .. kMaximumTagLength /\ needed' \in 0 .. kMaximumTagLength
         /\ needed' = EntryExtra(bytes[1]) + 1
         /\ pc' \in {"stitch", "tag"}
         /\ pc' = "tag" => /\ Len(bytes) >= 1 + TagExtra(bytes[1])
                           /\ Len(bytes) + slack' >= kMaximumTagLength
         /\ pc' = "stitch" => peeked' = 0 /\ Len(bytes) < needed'
<1> USE DEF kMaximumTagLength
<1>1. /\ bytes \in Seq(Byte) /\ u \in Nat /\ Len(bytes) \in Nat /\ u + Len(bytes) <= Len(stream)
      /\ Len(bytes) >= 1
  BY DEF IsPart
<1>2. TagExtra(bytes[1]) \in Nat /\ TagExtra(bytes[1]) <= 4 /\ EntryExtra(bytes[1]) = TagExtra(bytes[1])
  BY TagOfPart
<1>3. needed' = EntryExtra(bytes[1]) + 1 /\ buf' = bytes
  BY DEF UseTag, UseTagOf
<1>4. CASE Len(bytes) >= 5
  <2>1. pos' = base /\ peeked' = here /\ slack' = 0 /\ pc' = "tag"
    BY <1>4 DEF UseTag, UseTagOf
  <2> QED
    BY <1>1, <1>2, <1>3, <1>4, <2>1, SMTT(30)
<1>5. CASE ~(Len(bytes) >= 5)
  <2>1. /\ pos' = base + here /\ peeked' = 0 /\ slack' = 5 - Len(bytes)
        /\ pc' = IF Len(bytes) < EntryExtra(bytes[1]) + 1 THEN "stitch" ELSE "tag"
    BY <1>5 DEF UseTag, UseTagOf
  <2> DEFINE k == TagExtra(bytes[1])
             l == Len(bytes)
  <2>2. /\ k \in Nat /\ k <= 4 /\ needed' = k + 1 /\ l \in Nat /\ l >= 1 /\ l <= 4
        /\ pc' = IF l < k + 1 THEN "stitch" ELSE "tag"
        /\ slack' = 5 - l /\ pos' = u + l /\ peeked' = 0 /\ u + l <= Len(stream) /\ u \in Nat
    BY <1>1, <1>2, <1>3, <1>5, <2>1
  <2>3. Len(stream) \in Nat
    OBVIOUS
  <2> HIDE DEF k, l
  <2>4. /\ pos' \in 0 .. Len(stream) /\ peeked' \in 0 .. Len(stream) /\ pos' + peeked' - l = u
        /\ slack' \in 0 .. 5 /\ needed' \in 0 .. 5
    BY <2>2, <2>3
  <2>5. pc' = "tag" => l >= 1 + k /\ l + slack' >= 5
    BY <2>2
  <2>6. pc' = "stitch" => peeked' = 0 /\ l < needed'
    BY <2>2
  <2>7. pc' \in {"stitch", "tag"}
    BY <2>2
  <2> QED
    BY <1>1, <1>3, <2>4, <2>5, <2>6, <2>7 DEF k, l
<1> QED
  BY <1>4, <1>5
LEMMA SameStream == stream' = stream => (LengthWraps' <=> LengthWraps)
BY DEF LengthWraps

\* What the types say, without ranges.
LEMMA TypesAre ==
  ASSUME Core
  PROVE  /\ stream \in Seq(Byte) /\ Len(stream) \in Nat /\ expected \in Nat
         /\ pos \in Nat /\ peeked \in Nat /\ pos <= Len(stream) /\ peeked <= Len(stream)
         /\ buf \in Seq(Byte) /\ Len(buf) \in Nat
         /\ (buf = <<>>) <=> (Len(buf) = 0)
         /\ litLeft \in Nat /\ out \in Seq(Byte) /\ Len(out) \in Nat /\ Len(out) <= expected
<1>1. TypeOK
  BY DEF Core
<1> QED
  BY <1>1 DEF TypeOK

LEMMA BufferIs ==
  ASSUME Core, pc # "done"
  PROVE  /\ IsPart(buf, stream, Used) /\ Used \in Nat /\ Used + Len(buf) <= Len(stream)
         /\ Used + Len(buf) = pos + peeked
<1>1. IsPart(buf, stream, Used)
  BY DEF Core, Buffered
<1>2. Used \in Nat /\ Used + Len(buf) <= Len(stream)
  BY <1>1 DEF IsPart
<1> QED
  BY <1>1, <1>2, TypesAre DEF Used

LEMMA InitStep ==
  ASSUME Init, Streams \subseteq Seq(Byte), \A s \in Streams : Expected(s) \subseteq Nat
  PROVE  StreamInv
<1>1. /\ stream \in Seq(Byte) /\ expected \in Nat
      /\ pos = 0 /\ peeked = 0 /\ buf = <<>> /\ slack = 0 /\ needed = 0 /\ litLeft = 0
      /\ eof = FALSE /\ out = <<>> /\ ok = FALSE /\ pc = "refill"
  BY DEF Init
<1>2. <<>> \in Seq(Byte) /\ Len(<<>>) = 0 /\ Len(stream) \in Nat
  BY <1>1
<1>3. TypeOK
  <2>1. buf \in Seq(Byte) /\ out \in Seq(Byte)
    BY <1>1, <1>2, Zenon
  <2>2. Len(out) = 0 /\ 0 <= expected /\ pc \in {"refill"} /\ Len(stream) \in Nat
    BY <1>1, <1>2
  <2>3. /\ pos \in 0 .. Len(stream) /\ peeked \in 0 .. Len(stream)
        /\ slack \in 0 .. kMaximumTagLength /\ needed \in 0 .. kMaximumTagLength
        /\ litLeft \in Nat /\ eof \in BOOLEAN /\ ok \in BOOLEAN
    <3>1. pos = 0 /\ peeked = 0 /\ slack = 0 /\ needed = 0 /\ litLeft = 0 /\ ~eof /\ ~ok
          /\ eof \in BOOLEAN /\ ok \in BOOLEAN /\ Len(stream) \in Nat
      BY <1>1, <1>2
    <3> QED
      BY <3>1 DEF kMaximumTagLength
  <2> QED
    BY <1>1, <2>1, <2>2, <2>3 DEF TypeOK
<1>4. Used = 0
  <2>1. Len(buf) = 0
    BY <1>1, <1>2, Zenon
  <2>2. pos = 0 /\ peeked = 0
    BY <1>1
  <2> QED
    BY <2>1, <2>2 DEF Used
<1>5. IsPart(<<>>, stream, 0)
  <2>1. \A i \in 1 .. Len(<<>>) : <<>>[i] = stream[0 + i]
    OBVIOUS
  <2> QED
    BY <1>2, <2>1 DEF IsPart
<1>6. Core
  BY <1>1, <1>3, <1>4, <1>5 DEF Core, Buffered, Stitching, TagReadable
<1>7. Says(stream, expected, 0, <<>>)
  BY Zenon DEF Says, Decode
<1>8. SoFar
  BY <1>1, <1>4, <1>7 DEF SoFar
<1> QED
  BY <1>1, <1>6, <1>8 DEF StreamInv, ResultIsReference

\* A tag was found at the end of what was used.
LEMMA TagFound ==
  ASSUME Core, pc = "refill", NEW bytes, IsPart(bytes, stream, Used), bytes # <<>>,
         NEW base \in Nat, NEW here \in Nat, base + here = Used + Len(bytes),
         UseTag(bytes, base, here), UNCHANGED <<stream, expected, litLeft, out, eof, ok>>
  PROVE  Core' /\ Used' = Used /\ pc' \in {"stitch", "tag"}
<1>1. /\ buf' = bytes /\ bytes \in Seq(Byte) /\ Len(bytes) \in Nat
      /\ pos' \in 0 .. Len(stream) /\ peeked' \in 0 .. Len(stream)
      /\ pos' + peeked' - Len(bytes) = Used
      /\ slack' \in 0 .. kMaximumTagLength /\ needed' \in 0 .. kMaximumTagLength
      /\ needed' = EntryExtra(bytes[1]) + 1
      /\ pc' \in {"stitch", "tag"}
      /\ pc' = "tag" => /\ Len(bytes) >= 1 + TagExtra(bytes[1])
                        /\ Len(bytes) + slack' >= kMaximumTagLength
      /\ pc' = "stitch" => peeked' = 0 /\ Len(bytes) < needed'
  BY TypesAre, UseTagIs, Zenon
<1>2. TypeOK'
  BY <1>1, TypesAre DEF Core, TypeOK
<1>3. Used' = Used
  BY <1>1 DEF Used
<1>4. Buffered'
  <2>1. IsPart(buf', stream', Used')
    BY <1>1, <1>3
  <2> QED
    BY <2>1 DEF Buffered
<1>5. Stitching' /\ TagReadable'
  BY <1>1 DEF Stitching, TagReadable
<1> QED
  BY <1>1, <1>2, <1>3, <1>4, <1>5 DEF Core

LEMMA RefillStep ==
  ASSUME StreamInv, Refill, Peeks \subseteq Nat \ {0}
  PROVE  StreamInv'
<1>0. Core /\ pc = "refill" /\ UNCHANGED <<stream, expected, litLeft, out>>
  BY DEF StreamInv, Refill
<1>1. ASSUME Core', Used' = Used, pc' \in {"stitch", "tag"} PROVE StreamInv'
  <2>1. ASSUME ~LengthWraps PROVE SoFar'
    <3>1. Says(stream, expected, Used, out)
      BY <1>0, <2>1 DEF StreamInv, SoFar
    <3>2. Says(stream', expected', Used', out')
      BY <1>0, <1>1, <3>1
    <3> QED
      BY <1>1, <3>2 DEF SoFar
  <2>2. ResultIsReference'
    BY <1>1 DEF ResultIsReference
  <2> QED
    BY <1>0, <1>1, <2>1, <2>2, SameStream DEF StreamInv
<1>2. CASE Len(buf) >= kMaximumTagLength /\ pc' = "tag" /\ UNCHANGED <<sourceVars, needed, eof, ok>>
  <2>1. UNCHANGED <<pos, peeked, buf, slack>>
    BY <1>2 DEF sourceVars
  <2>2. Used' = Used
    BY <2>1 DEF Used
  <2>3. TypeOK'
    BY <1>0, <1>2, <2>1 DEF Core, TypeOK
  <2>4. Buffered' /\ Stitching'
    <3>1. buf # <<>>
      <4>1. Len(buf) >= 5
        BY <1>2 DEF kMaximumTagLength
      <4> QED
        BY <4>1
    <3> QED
      BY <1>0, <1>2, <2>1, <2>2, <3>1 DEF Core, Buffered, Stitching
  <2>5. TagReadable'
    <3>1. Len(buf) >= 5 /\ slack >= 0 /\ slack \in Int /\ Len(buf) \in Nat /\ buf # <<>>
      BY <1>0, <1>2, TypesAre DEF Core, TypeOK, kMaximumTagLength
    <3>2. TagExtra(buf[1]) \in 0 .. 4
      BY <1>0, <3>1, BufferIs, TypesAre, TagOfPart
    <3> QED
      BY <2>1, <3>1, <3>2 DEF TagReadable, kMaximumTagLength
  <2> QED
    BY <1>1, <1>2, <2>2, <2>3, <2>4, <2>5 DEF Core
<1>3. CASE Len(buf) \in 1 .. kMaximumTagLength - 1 /\ UseTag(buf, pos, peeked) /\ UNCHANGED <<eof, ok>>
  <2>1. buf # <<>>
    <3>1. Len(buf) >= 1
      BY <1>3 DEF kMaximumTagLength
    <3> QED
      BY <3>1
  <2>2. Core' /\ Used' = Used /\ pc' \in {"stitch", "tag"}
    BY <1>0, <1>3, <2>1, BufferIs, TypesAre, TagFound
  <2> QED
    BY <1>1, <2>2
<1>4. CASE buf = <<>> /\ \E fragment \in Fragments(pos + peeked) :
             \/ /\ fragment # <<>>
                /\ UseTag(fragment, pos + peeked, Len(fragment))
                /\ UNCHANGED <<eof, ok>>
             \/ /\ fragment = <<>>
                /\ peeked' = 0
                /\ Return(peeked, TRUE)
                /\ UNCHANGED <<buf, slack, needed>>
  <2>1. Used = pos + peeked /\ pos + peeked \in Nat /\ pos + peeked <= Len(stream) /\ Len(buf) = 0
    BY <1>0, <1>4, TypesAre, BufferIs
  <2>2. PICK fragment \in Fragments(Used) :
             \/ /\ fragment # <<>>
                /\ UseTag(fragment, pos + peeked, Len(fragment))
                /\ UNCHANGED <<eof, ok>>
             \/ /\ fragment = <<>>
                /\ peeked' = 0
                /\ Return(peeked, TRUE)
                /\ UNCHANGED <<buf, slack, needed>>
    BY <1>4, <2>1
  <2>3. /\ IsPart(fragment, stream, Used) /\ fragment \in Seq(Byte) /\ Len(fragment) \in Nat
        /\ (fragment = <<>>) <=> (Used = Len(stream))
    BY <1>0, <2>1, TypesAre, FragmentIs
  <2>4. CASE fragment # <<>>
    <3>1. UseTag(fragment, pos + peeked, Len(fragment)) /\ UNCHANGED <<eof, ok>>
      BY <2>2, <2>4
    <3>2. pos + peeked \in Nat /\ pos + peeked + Len(fragment) = Used + Len(fragment)
      BY <2>1
    <3>3. Core' /\ Used' = Used /\ pc' \in {"stitch", "tag"}
      BY <1>0, <2>3, <2>4, <3>1, <3>2, TagFound
    <3> QED
      BY <1>1, <3>3
  <2>5. CASE fragment = <<>>
    <3>1. /\ peeked' = 0 /\ ok' = (Len(out) = expected) /\ pos' = pos + peeked /\ eof' = TRUE
          /\ pc' = "done" /\ UNCHANGED <<buf, slack, needed>>
      BY <2>2, <2>5 DEF Return
    <3>2. Used = Len(stream)
      BY <2>3, <2>5
    <3>3. Core'
      BY <1>0, <2>1, <3>1, TypesAre DEF Core, TypeOK, Buffered, Stitching, TagReadable
    <3>4. ASSUME ~LengthWraps PROVE SoFar' /\ ResultIsReference'
      <4>1. Decode(stream, expected) = DecodeFrom(stream, Used, out, expected)
        BY <1>0, <3>4 DEF StreamInv, SoFar, Says
      <4>0. /\ stream \in Seq(Byte) /\ out \in Seq(Byte) /\ Used \in Nat
            /\ Used >= Len(stream)
        <5>1. Len(stream) \in Nat
          BY <1>0, TypesAre
        <5> QED
          BY <1>0, <3>2, <5>1, TypesAre
      <4>2. DecodeFrom(stream, Used, out, expected) = [out |-> out, ok |-> TRUE]
        BY <4>0, DecodeFromIs
      <4>3. Decode(stream, expected).ok /\ Decode(stream, expected).out = out
        BY <4>1, <4>2
      <4> QED
        BY <1>0, <2>1, <3>1, <3>2, <4>3 DEF SoFar, ResultIsReference
    <3> QED
      BY <1>0, <3>3, <3>4, SameStream DEF StreamInv
  <2> QED
    BY <2>4, <2>5
<1> QED
  BY <1>2, <1>3, <1>4 DEF Refill

\* A step after which the reference makes of the rest what it made before it.
LEMMA WentOn ==
  ASSUME Core', UNCHANGED <<stream, expected>>, pc' \in {"refill", "stitch", "tag"},
         ~LengthWraps => Says(stream, expected, Used', out')
  PROVE  StreamInv'
<1>1. ASSUME ~LengthWraps PROVE SoFar'
  <2>1. Says(stream', expected', Used', out')
    BY <1>1
  <2> QED
    BY <2>1 DEF SoFar
<1>2. ResultIsReference'
  BY DEF ResultIsReference
<1> QED
  BY <1>1, <1>2, SameStream DEF StreamInv

\* A step that refuses the stream.
LEMMA Refuses ==
  ASSUME Core', UNCHANGED <<stream, expected>>, pc' \in {"failed", "done"},
         pc' = "done" => ~ok', ~LengthWraps => ~Decode(stream, expected).ok
  PROVE  StreamInv'
<1>1. ASSUME ~LengthWraps PROVE SoFar' /\ ResultIsReference'
  <2>1. ~Decode(stream', expected').ok
    BY <1>1
  <2>2. SoFar'
    BY <2>1 DEF SoFar
  <2>3. ResultIsReference'
    BY <2>1 DEF ResultIsReference
  <2> QED
    BY <2>2, <2>3
<1> QED
  BY <1>1, SameStream DEF StreamInv

LEMMA FailStep ==
  ASSUME StreamInv, Fail
  PROVE  StreamInv'
<1>1. /\ Core /\ pc = "failed" /\ UNCHANGED <<stream, expected, peeked, buf, slack, needed, litLeft, out>>
      /\ pos' = pos + peeked /\ ok' = FALSE /\ eof' = FALSE /\ pc' = "done"
  BY DEF StreamInv, Fail, Return
<1>2. pos' <= Len(stream) /\ pos' \in Nat
  BY <1>1, TypesAre, BufferIs
<1>3. TypeOK'
  <2>1. pos' \in 0 .. Len(stream)
    BY <1>1, <1>2, TypesAre
  <2> QED
    BY <1>1, <2>1 DEF Core, TypeOK
<1>4. Core'
  BY <1>1, <1>3 DEF Core, Buffered, Stitching, TagReadable
<1> QED
  BY <1>1, <1>4, Refuses DEF StreamInv, SoFar

\* A tag that the stream cuts off.
LEMMA CutOff ==
  ASSUME NEW s \in Seq(Byte), NEW u \in Nat, u < Len(s), NEW o \in Seq(Byte), NEW limit,
         ElementBody(s, u) > Len(s), ElementBody(s, u) \in Nat, Says(s, limit, u, o)
  PROVE  ~Decode(s, limit).ok
<1>1. ~ElementIsLegal(s, u, o, limit)
  <2>1. Len(s) \in Nat
    OBVIOUS
  <2> QED
    BY <2>1 DEF ElementIsLegal
<1>2. DecodeFrom(s, u, o, limit) = [out |-> o, ok |-> FALSE]
  BY <1>1, DecodeFromIs
<1> QED
  BY <1>2 DEF Says

LEMMA StitchStep ==
  ASSUME StreamInv, Stitch, Peeks \subseteq Nat \ {0}
  PROVE  StreamInv'
<1> DEFINE k == TagExtra(buf[1])
<1>0. /\ Core /\ pc = "stitch" /\ peeked = 0 /\ buf # <<>> /\ Len(buf) < needed
      /\ needed = EntryExtra(buf[1]) + 1
      /\ UNCHANGED <<stream, expected, peeked, needed, litLeft, out>>
  BY DEF StreamInv, Core, Stitching, Stitch, StitchOf
<1>1. /\ IsPart(buf, stream, Used) /\ Used \in Nat /\ Used + Len(buf) <= Len(stream)
      /\ Used + Len(buf) = pos /\ pos \in Nat /\ Len(buf) \in Nat /\ Len(buf) >= 1
      /\ Len(stream) \in Nat /\ pos <= Len(stream) /\ stream \in Seq(Byte) /\ out \in Seq(Byte)
      /\ buf \in Seq(Byte)
  <2>1. IsPart(buf, stream, Used) /\ Used \in Nat /\ Used + Len(buf) <= Len(stream)
        /\ Used + Len(buf) = pos + peeked
    BY <1>0, BufferIs
  <2>2. /\ pos \in Nat /\ Len(buf) \in Nat /\ Len(stream) \in Nat /\ pos <= Len(stream)
        /\ stream \in Seq(Byte) /\ out \in Seq(Byte) /\ buf \in Seq(Byte)
    BY <1>0, TypesAre, Zenon
  <2>3. Len(buf) >= 1
    BY <1>0, <2>2
  <2> QED
    BY <1>0, <2>1, <2>2, <2>3
<1>2. /\ k \in Nat /\ k <= 4 /\ needed = k + 1 /\ ElementBody(stream, Used) = Used + needed
      /\ Used < Len(stream)
  <2>1. /\ k \in 0 .. 4 /\ EntryExtra(buf[1]) = k /\ ElementBody(stream, Used) = Used + 1 + k
    BY <1>0, <1>1, TagOfPart
  <2> QED
    BY <1>0, <1>1, <2>1, SMTT(30)
<1> HIDE DEF k
<1>3. PICK fragment \in Fragments(pos) :
           \/ /\ fragment = <<>>
              /\ Return(0, FALSE)
              /\ UNCHANGED <<buf, slack>>
           \/ /\ fragment # <<>>
              /\ buf' = buf \o SubSeq(fragment, 1, Least(needed - Len(buf), Len(fragment)))
              /\ pos' = pos + Least(needed - Len(buf), Len(fragment))
              /\ IF Len(buf') = needed
                 THEN pc' = "tag" /\ slack' = kMaximumTagLength - needed
                 ELSE pc' = "stitch" /\ UNCHANGED slack
              /\ UNCHANGED <<eof, ok>>
  BY DEF Stitch, StitchOf
<1>4. /\ IsPart(fragment, stream, pos) /\ fragment \in Seq(Byte) /\ Len(fragment) \in Nat
      /\ (fragment = <<>>) <=> (pos = Len(stream))
  BY <1>1, FragmentIs
<1>5. CASE fragment = <<>>
  <2>1. /\ ok' = FALSE /\ pos' = pos /\ eof' = FALSE /\ pc' = "done" /\ UNCHANGED <<buf, slack>>
    <3>1. Return(0, FALSE) /\ UNCHANGED <<buf, slack>>
      BY <1>3, <1>5
    <3>2. ok' = FALSE /\ eof' = FALSE /\ pc' = "done"
      BY <3>1, Zenon DEF Return
    <3>3. pos' = pos
      BY <1>1, <3>1 DEF Return
    <3> QED
      BY <3>1, <3>2, <3>3, Zenon
  <2>2. Core'
    BY <1>0, <2>1 DEF Core, TypeOK, Buffered, Stitching, TagReadable
  <2>3. ElementBody(stream, Used) > Len(stream) /\ ElementBody(stream, Used) \in Nat
    BY <1>0, <1>1, <1>2, <1>4, <1>5
  <2>4. ~LengthWraps => ~Decode(stream, expected).ok
    BY <1>0, <1>1, <1>2, <2>3, CutOff DEF StreamInv, SoFar
  <2> QED
    BY <1>0, <2>1, <2>2, <2>4, Refuses
<1>6. CASE fragment # <<>>
  <2> DEFINE add == Least(needed - Len(buf), Len(fragment))
  <2>1. /\ buf' = buf \o SubSeq(fragment, 1, add) /\ pos' = pos + add
        /\ IF Len(buf') = needed
           THEN pc' = "tag" /\ slack' = kMaximumTagLength - needed
           ELSE pc' = "stitch" /\ UNCHANGED slack
        /\ UNCHANGED <<eof, ok>>
    BY <1>3, <1>6
  <2>2. /\ add \in Nat /\ add <= Len(fragment) /\ add <= needed - Len(buf)
    BY <1>0, <1>1, <1>2, <1>4 DEF Least
  <2> HIDE DEF add
  <2>3. buf' = buf \o Part(fragment, 0, add)
    <3>1. 0 + 1 = 1 /\ 0 + add = add
      BY <2>2
    <3> QED
      BY <2>1, <3>1, Zenon DEF Part
  <2>4. /\ IsPart(buf', stream, Used)
        /\ Len(buf') = Len(buf) + add /\ buf'[1] = buf[1]
    <3>1. IsPart(buf \o Part(fragment, 0, add), stream, Used)
      BY <1>1, <1>4, <2>2, PartGrows
    <3>2. Len(buf \o Part(fragment, 0, add)) = Len(buf) + add
      BY <1>1, <1>4, <2>2, PartGrows
    <3>3. (buf \o Part(fragment, 0, add))[1] = buf[1]
      BY <1>0, <1>1, <1>4, <2>2, PartGrows
    <3> QED
      BY <2>3, <3>1, <3>2, <3>3, Zenon
  <2>5. /\ buf' \in Seq(Byte) /\ Used + Len(buf') <= Len(stream) /\ Len(buf') \in Nat
    BY <2>4 DEF IsPart
  <2>6. pos' \in 0 .. Len(stream) /\ pos' - Len(buf') = Used
    <3> DEFINE u == Used
    <3>1. u \in Nat /\ u + Len(buf) = pos /\ u + Len(buf') <= Len(stream)
      BY <1>1, <2>5
    <3> HIDE DEF u
    <3>2. pos' = pos + add /\ pos \in Nat /\ Len(buf) \in Nat /\ Len(stream) \in Nat
      BY <1>1, <2>1
    <3>3. pos' \in 0 .. Len(stream) /\ pos' - Len(buf') = u
      BY <2>2, <2>4, <3>1, <3>2
    <3> QED
      BY <3>3 DEF u
  <2>7. Used' = Used
    BY <1>0, <1>1, <2>5, <2>6 DEF Used
  <2>8. pc' \in {"stitch", "tag"} /\ slack' \in 0 .. kMaximumTagLength
    <3>1. slack \in 0 .. kMaximumTagLength
      BY <1>0 DEF Core, TypeOK
    <3> QED
      BY <1>2, <2>1, <3>1, SMTT(30) DEF kMaximumTagLength
  <2>9. TypeOK'
    BY <1>0, <2>1, <2>5, <2>6, <2>8 DEF Core, TypeOK
  <2>10. Buffered'
    <3>1. IsPart(buf', stream', Used')
      BY <1>0, <2>4, <2>7
    <3> QED
      BY <3>1 DEF Buffered
  <2>11. Stitching'
    <3>1. buf' # <<>>
      BY <1>1, <2>2, <2>4, <2>5
    <3>2. pc' = "stitch" => Len(buf') < needed
      <4>1. Len(buf') <= needed /\ needed \in Nat
        BY <1>1, <1>2, <2>2, <2>4
      <4>2. pc' = "stitch" => Len(buf') # needed
        BY <2>1, Zenon
      <4> QED
        BY <2>5, <4>1, <4>2
    <3> QED
      BY <1>0, <2>4, <3>1, <3>2 DEF Stitching
  <2>12. TagReadable'
    <3>1. TagExtra(buf'[1]) = k
      BY <2>4 DEF k
    <3>2. pc' = "tag" => Len(buf') = k + 1 /\ slack' = 5 - (k + 1)
      BY <1>2, <2>1 DEF kMaximumTagLength
    <3>3. pc' = "tag" => Len(buf') >= 1 + k /\ Len(buf') + slack' >= 5
      BY <1>2, <3>2
    <3> QED
      BY <3>1, <3>3 DEF TagReadable, kMaximumTagLength
  <2>13. Core'
    BY <2>9, <2>10, <2>11, <2>12 DEF Core
  <2>14. ~LengthWraps => Says(stream, expected, Used', out')
    BY <1>0, <2>7 DEF StreamInv, SoFar
  <2> QED
    BY <1>0, <2>8, <2>13, <2>14, WentOn
<1> QED
  BY <1>5, <1>6

\* Bytes of a part are those of the stream.
LEMMA PartOfPart ==
  ASSUME NEW s \in Seq(Byte), NEW b, NEW u, IsPart(b, s, u),
         NEW j \in Nat, NEW m \in Nat, j + m <= Len(b), NEW q, q = u + j
  PROVE  Part(b, j, m) = Part(s, q, m)
<1>1. /\ b \in Seq(Byte) /\ u \in Nat /\ Len(b) \in Nat /\ u + Len(b) <= Len(s)
      /\ \A i \in 1 .. Len(b) : b[i] = s[u + i]
  BY DEF IsPart
<1> DEFINE v == Part(b, j, m)
<1>2. IsPart(v, b, j) /\ Len(v) = m
  BY <1>1, SubSeqIsPart
<1> HIDE DEF v
<1>3. v \in Seq(Byte) /\ \A i \in 1 .. m : v[i] = b[j + i]
  BY <1>2 DEF IsPart
<1>4. \A i \in 1 .. Len(v) : v[i] = s[q + i]
  <2> TAKE i \in 1 .. Len(v)
  <2>1. j + i \in 1 .. Len(b) /\ u + (j + i) = q + i
    BY <1>1, <1>2
  <2> QED
    BY <1>1, <1>2, <1>3, <2>1
<1>5. IsPart(v, s, q)
  BY <1>1, <1>2, <1>3, <1>4 DEF IsPart
<1>6. v = Part(s, q, Len(v))
  BY <1>5, PartIsSubSeq
<1> QED
  BY <1>2, <1>6, Zenon DEF v

\* The first k of the bytes are used.
LEMMA Dropped ==
  ASSUME Core, pc # "done", NEW k \in Nat, k <= Len(buf), buf' = Drop(k),
         UNCHANGED <<stream, pos, peeked>>
  PROVE  /\ IsPart(buf', stream, Used + k) /\ buf' \in Seq(Byte) /\ Len(buf') = Len(buf) - k
         /\ Used' = Used + k /\ Used + k \in Nat /\ Used + k <= Len(stream)
<1>1. /\ IsPart(buf, stream, Used) /\ Used \in Nat /\ Used + Len(buf) <= Len(stream)
      /\ Used + Len(buf) = pos + peeked
  BY BufferIs
<1>2. pos \in Nat /\ peeked \in Nat /\ Len(buf) \in Nat /\ Len(stream) \in Nat /\ stream \in Seq(Byte)
  BY TypesAre
<1>3. IsPart(buf', stream, Used + k)
  BY <1>1, <1>2, PartIsCut, Zenon DEF Drop
<1>4. Len(buf') = Len(buf) - k
  BY <1>1, <1>2, PartIsCut, Zenon DEF Drop
<1>5. buf' \in Seq(Byte)
  BY <1>3 DEF IsPart
<1>6. Used' = Used + k
  <2>1. Used' = pos + peeked - (Len(buf) - k)
    BY <1>4 DEF Used
  <2> QED
    BY <1>1, <1>2, <2>1
<1> QED
  BY <1>1, <1>2, <1>3, <1>4, <1>5, <1>6

\* A tag that is read is that of the element which comes next.
LEMMA AtTag ==
  ASSUME StreamInv, pc = "tag"
  PROVE  /\ Core /\ buf # <<>> /\ Used \in Nat /\ Used < Len(stream)
         /\ buf[1] = stream[Used + 1] /\ buf[1] \in 0 .. 255
         /\ TagExtra(buf[1]) \in 0 .. 4 /\ EntryExtra(buf[1]) = TagExtra(buf[1])
         /\ 1 + TagExtra(buf[1]) <= Len(buf)
         /\ ElementBody(stream, Used) = Used + (1 + TagExtra(buf[1]))
         /\ ElementBody(stream, Used) <= Len(stream)
         /\ Load32Masked(buf, 1, TagExtra(buf[1])) =
              Load32Masked(stream, Used + 1, TagExtra(buf[1]))
         /\ ~LengthWraps => Says(stream, expected, Used, out)
<1>1. Core /\ buf # <<>> /\ Len(buf) >= 1 + TagExtra(buf[1])
  BY DEF StreamInv, Core, Stitching, TagReadable
<1>2. IsPart(buf, stream, Used) /\ stream \in Seq(Byte) /\ Used \in Nat
  BY <1>1, BufferIs, TypesAre, Zenon
<1>3. /\ buf[1] = stream[Used + 1] /\ buf[1] \in 0 .. 255
      /\ Used < Len(stream) /\ TagExtra(buf[1]) \in 0 .. 4
      /\ EntryExtra(buf[1]) = TagExtra(buf[1])
      /\ ElementBody(stream, Used) = Used + 1 + TagExtra(buf[1])
      /\ ElementBody(stream, Used) <= Len(stream)
      /\ Load32Masked(buf, 1, TagExtra(buf[1])) =
           Load32Masked(stream, Used + 1, TagExtra(buf[1]))
  BY <1>1, <1>2, TagOfPart, ZenonT(60)
<1>4. /\ Used + 1 + TagExtra(buf[1]) = Used + (1 + TagExtra(buf[1]))
      /\ 1 + TagExtra(buf[1]) <= Len(buf)
  <2> DEFINE k == TagExtra(buf[1])
  <2>1. k \in Int /\ Len(buf) >= 1 + k /\ Len(buf) \in Nat
    BY <1>1, <1>3, TypesAre
  <2> HIDE DEF k
  <2>2. Used + 1 + k = Used + (1 + k) /\ 1 + k <= Len(buf)
    BY <1>2, <2>1
  <2> QED
    BY <2>2 DEF k
<1>5. ~LengthWraps => Says(stream, expected, Used, out)
  BY DEF StreamInv, SoFar
<1> QED
  BY <1>1, <1>2, <1>3, <1>4, <1>5, Zenon

LEMMA LiteralRefusedStep ==
  ASSUME StreamInv, LiteralRefused
  PROVE  StreamInv'
<1>1. /\ Core /\ pc = "literal" /\ Len(out) + Least(litLeft, Len(buf)) > expected /\ pc' = "failed"
      /\ UNCHANGED <<stream, expected, pos, peeked, buf, slack, needed, litLeft, eof, out, ok>>
      /\ ~LengthWraps => SaysAfter(stream, expected, Used, out, litLeft)
  BY DEF StreamInv, SoFar, LiteralRefused, sourceVars
<1>2. Used' = Used
  BY <1>1 DEF Used
<1>3. Core'
  BY <1>1, <1>2 DEF Core, TypeOK, Buffered, Stitching, TagReadable
<1>4. ~(Len(out) + litLeft <= expected)
  <2>1. Least(litLeft, Len(buf)) <= litLeft /\ Least(litLeft, Len(buf)) \in Nat
    BY <1>1, TypesAre DEF Least
  <2> QED
    BY <1>1, <2>1, TypesAre
<1>5. ~LengthWraps => ~Decode(stream, expected).ok
  BY <1>1, <1>4, Zenon DEF SaysAfter
<1> QED
  BY <1>1, <1>3, <1>5, Refuses

LEMMA LiteralEndStep ==
  ASSUME StreamInv, LiteralEnd
  PROVE  StreamInv'
<1>1. /\ Core /\ pc = "literal" /\ Len(buf) >= litLeft /\ Len(out) + litLeft <= expected
      /\ out' = out \o SubSeq(buf, 1, litLeft) /\ buf' = Drop(litLeft) /\ litLeft' = 0
      /\ pc' = "refill" /\ UNCHANGED <<stream, expected, pos, peeked, slack, needed, eof, ok>>
      /\ ~LengthWraps => SaysAfter(stream, expected, Used, out, litLeft)
  BY DEF StreamInv, SoFar, LiteralEnd
<1>2. /\ litLeft \in Nat /\ litLeft <= Len(buf) /\ stream \in Seq(Byte) /\ Len(stream) \in Nat
      /\ out \in Seq(Byte) /\ Len(out) \in Nat /\ expected \in Nat
  BY <1>1, TypesAre
<1>3. /\ IsPart(buf', stream, Used + litLeft) /\ buf' \in Seq(Byte)
      /\ Used' = Used + litLeft /\ Used + litLeft \in Nat /\ Used + litLeft <= Len(stream)
  BY <1>1, <1>2, Dropped
<1>4. out' = out \o Part(stream, Used, litLeft)
  <2>1. IsPart(buf, stream, Used)
    BY <1>1, BufferIs
  <2>2. Part(buf, 0, litLeft) = Part(stream, Used, litLeft)
    BY <1>2, <2>1, PartIsCut
  <2>3. 0 + 1 = 1 /\ 0 + litLeft = litLeft
    BY <1>2
  <2> QED
    BY <1>1, <2>2, <2>3, Zenon DEF Part
<1>5. out' \in Seq(Byte) /\ Len(out') <= expected
  <2> DEFINE v == Part(stream, Used, litLeft)
  <2>1. IsPart(v, stream, Used) /\ Len(v) = litLeft
    BY <1>1, <1>2, <1>3, BufferIs, SubSeqIsPart
  <2>2. v \in Seq(Byte)
    BY <2>1 DEF IsPart
  <2> HIDE DEF v
  <2>3. out \o v \in Seq(Byte) /\ Len(out \o v) = Len(out) + Len(v)
    BY <1>2, <2>2
  <2> QED
    BY <1>1, <1>4, <2>1, <2>3 DEF v
<1>6. TypeOK'
  BY <1>1, <1>3, <1>5 DEF Core, TypeOK
<1>7. IsPart(buf', stream', Used')
  BY <1>1, <1>3
<1>8. Core'
  BY <1>1, <1>6, <1>7 DEF Core, Buffered, Stitching, TagReadable
<1>9. ~LengthWraps => Says(stream, expected, Used', out')
  BY <1>1, <1>3, <1>4, Zenon DEF SaysAfter
<1> QED
  BY <1>1, <1>8, <1>9, WentOn

LEMMA LiteralFragmentStep ==
  ASSUME StreamInv, LiteralFragment, Peeks \subseteq Nat \ {0}
  PROVE  StreamInv'
<1> DEFINE p == pos + peeked
<1>1. /\ Core /\ pc = "literal" /\ Len(buf) < litLeft /\ Len(out) + Len(buf) <= expected
      /\ out' = out \o buf /\ litLeft' = litLeft - Len(buf) /\ slack' = 0 /\ pos' = p
      /\ UNCHANGED <<stream, expected, needed, eof, ok>>
      /\ ~LengthWraps => SaysAfter(stream, expected, Used, out, litLeft)
  BY DEF StreamInv, SoFar, LiteralFragment, LiteralFrom
<1>2. PICK fragment \in Fragments(p) :
        /\ buf' = fragment /\ peeked' = Len(fragment)
        /\ pc' = IF fragment = <<>> THEN "failed" ELSE pc
  BY DEF LiteralFragment, LiteralFrom
<1>3. /\ IsPart(buf, stream, Used) /\ Used \in Nat /\ Used + Len(buf) <= Len(stream)
      /\ Used + Len(buf) = p
  BY <1>1, BufferIs
<1>4. /\ stream \in Seq(Byte) /\ Len(stream) \in Nat /\ litLeft \in Nat /\ Len(buf) \in Nat
      /\ out \in Seq(Byte) /\ Len(out) \in Nat /\ expected \in Nat /\ buf \in Seq(Byte)
  BY <1>1, TypesAre
<1>5. p \in Nat /\ p <= Len(stream)
  BY <1>3, <1>4
<1> HIDE DEF p
<1>6. /\ IsPart(fragment, stream, p) /\ fragment \in Seq(Byte) /\ Len(fragment) \in Nat
      /\ (fragment = <<>>) <=> (p = Len(stream))
  BY <1>4, <1>5, FragmentIs
<1>7. p + Len(fragment) <= Len(stream)
  BY <1>6 DEF IsPart
<1>8. Used' = p
  BY <1>1, <1>2, <1>5, <1>6 DEF Used
<1>9. TypeOK'
  <2>1. pos' \in 0 .. Len(stream) /\ peeked' \in 0 .. Len(stream) /\ litLeft' \in Nat
    BY <1>1, <1>2, <1>4, <1>5, <1>6, <1>7
  <2>2. out' \in Seq(Byte) /\ Len(out') <= expected
    <3>1. out \o buf \in Seq(Byte) /\ Len(out \o buf) = Len(out) + Len(buf)
      BY <1>4
    <3> QED
      BY <1>1, <3>1
  <2>3. pc' \in {"literal", "failed"}
    BY <1>1, <1>2
  <2>4. slack' \in 0 .. kMaximumTagLength
    BY <1>1 DEF kMaximumTagLength
  <2> QED
    BY <1>1, <1>2, <1>6, <2>1, <2>2, <2>3, <2>4 DEF Core, TypeOK
<1>10. Core'
  <2>1. IsPart(buf', stream', Used')
    BY <1>1, <1>2, <1>6, <1>8
  <2>2. pc' \in {"literal", "failed"}
    BY <1>1, <1>2
  <2> QED
    BY <1>9, <2>1, <2>2 DEF Core, Buffered, Stitching, TagReadable
<1>11. ASSUME ~LengthWraps PROVE SaysAfter(stream, expected, p, out', litLeft')
  <2>1. buf = Part(stream, Used, Len(buf))
    BY <1>3, <1>4, PartIsSubSeq
  <2>2. SaysAfter(stream, expected, p, out \o buf, litLeft - Len(buf))
    BY <1>1, <1>3, <1>4, <1>11, <2>1, LiteralMoves, SMTT(30)
  <2> QED
    BY <1>1, <2>2
<1>12. CASE fragment = <<>>
  <2>1. ~(p + litLeft' <= Len(stream))
    BY <1>1, <1>4, <1>5, <1>6, <1>12
  <2>2. ~LengthWraps => ~Decode(stream, expected).ok
    BY <1>11, <2>1, Zenon DEF SaysAfter
  <2> QED
    BY <1>1, <1>2, <1>10, <1>12, <2>2, Refuses
<1>13. CASE fragment # <<>>
  <2>1. pc' = "literal"
    BY <1>1, <1>2, <1>13
  <2>2. ASSUME ~LengthWraps PROVE SoFar'
    <3>1. SaysAfter(stream', expected', Used', out', litLeft')
      BY <1>1, <1>8, <1>11, <2>2
    <3> QED
      BY <2>1, <3>1 DEF SoFar
  <2> QED
    BY <1>1, <1>10, <2>1, <2>2, SameStream DEF StreamInv, ResultIsReference
<1> QED
  BY <1>12, <1>13

LEMMA TagsInFours ==
  ASSUME NEW c \in 0 .. 255
  PROVE  c \in Int /\ c \div 4 \in Nat /\ (c % 4 = 0 /\ c \div 4 = 63 => c = 252)
OBVIOUS

\* The length of a literal, unless it wraps.
LEMMA LongLengthIs ==
  ASSUME StreamInv, pc = "tag", IsLiteral(buf[1]), buf[1] \div 4 >= 60
  PROVE  /\ LongLength(TagExtra(buf[1])) \in Nat
         /\ ~LengthWraps => LongLength(TagExtra(buf[1])) = ElementLength(stream, Used)
<1> DEFINE c == buf[1]
           k == TagExtra(c)
           load == Load32Masked(buf, 1, k)
<1>1. /\ Core /\ buf # <<>> /\ Used \in Nat /\ Used < Len(stream)
      /\ c = stream[Used + 1] /\ c \in 0 .. 255
      /\ k \in 0 .. 4 /\ 1 + k <= Len(buf)
      /\ ElementBody(stream, Used) <= Len(stream)
      /\ ElementBody(stream, Used) = Used + (1 + k)
      /\ load = Load32Masked(stream, Used + 1, k)
  BY AtTag, Zenon
<1>2. buf \in Seq(Byte) /\ stream \in Seq(Byte) /\ IsPart(buf, stream, Used)
  BY <1>1, BufferIs, TypesAre, Zenon
<1>3. load \in Nat
  BY <1>1, <1>2, LoadIs
<1>4. LongLength(k) = IF k = 4 /\ \A i \in 2 .. 5 : buf[i] = 255 THEN 0 ELSE load + 1
  BY DEF LongLength
<1>5. ElementLength(stream, Used) = load + 1
  <2>1. c \in Int /\ IsLiteral(stream[Used + 1]) /\ stream[Used + 1] \div 4 >= 60
        /\ stream[Used + 1] \in Int
    BY <1>1
  <2>2. ElementLength(stream, Used) =
          Load32Masked(stream, Used + 1, TagExtra(stream[Used + 1])) + 1
    BY <2>1, LiteralLengthIs
  <2> QED
    BY <1>1, <2>2
<1>6. ASSUME k = 4, \A i \in 2 .. 5 : buf[i] = 255 PROVE LengthWraps
  <2>1. c = 252
    <3>1. k = (c \div 4) - 59 /\ c % 4 = 0 /\ c \in 0 .. 255 /\ c \div 4 \in Nat
      BY <1>1, TagIs, TagsInFours
    <3>2. k = 4
      BY <1>6
    <3> HIDE DEF k, c
    <3>3. c \div 4 = 63
      BY <3>1, <3>2
    <3> QED
      BY <3>1, <3>3, TagsInFours
  <2> DEFINE u == Used
  <2>2. u \in Nat /\ Len(stream) \in Nat /\ u + 5 <= Len(stream) /\ 5 <= Len(buf)
    BY <1>1, <1>2, <1>6
  <2>3. \A i \in 1 .. Len(buf) : buf[i] = stream[u + i]
    BY <1>2 DEF IsPart
  <2>4. stream[u + 1] = 252
    BY <1>1, <2>1
  <2> HIDE DEF u
  <2>5. \A j \in u + 1 + 1 .. u + 1 + 4 : stream[j] = 255
    <3> TAKE j \in u + 1 + 1 .. u + 1 + 4
    <3>1. PICK i \in 2 .. 5 : j = u + i
      <4>1. j - u \in 2 .. 5 /\ j = u + (j - u)
        BY <2>2
      <4> QED
        BY <4>1
    <3>2. i \in 1 .. Len(buf)
      BY <1>2, <2>2
    <3> QED
      BY <1>6, <2>3, <3>1, <3>2
  <2>6. u + 1 \in 1 .. Len(stream) - 4
    BY <2>2
  <2> SUFFICES \E i \in 1 .. Len(stream) - 4 :
                 stream[i] = 252 /\ \A j \in i + 1 .. i + 4 : stream[j] = 255
    BY DEF LengthWraps
  <2> WITNESS u + 1 \in 1 .. Len(stream) - 4
  <2> QED
    BY <2>4, <2>5, <2>6, Zenon
<1> QED
  BY <1>3, <1>4, <1>5, <1>6

LEMMA SlowLiteralStep ==
  ASSUME StreamInv, SlowLiteral
  PROVE  StreamInv'
<1> DEFINE c == buf[1]
           k == TagExtra(c)
<1>1. /\ Core /\ buf # <<>> /\ Used \in Nat /\ Used < Len(stream)
      /\ c = stream[Used + 1] /\ c \in 0 .. 255
      /\ k \in 0 .. 4 /\ 1 + k <= Len(buf)
      /\ ElementBody(stream, Used) = Used + (1 + k)
      /\ ElementBody(stream, Used) <= Len(stream)
      /\ ~LengthWraps => Says(stream, expected, Used, out)
  BY AtTag, Zenon DEF SlowLiteral
<1>2. /\ pc = "tag" /\ IsLiteral(c) /\ pc' = "literal"
      /\ UNCHANGED <<stream, expected, pos, peeked, slack, needed, eof, out, ok>>
      /\ IF (c \div 4) + 1 - 60 > 0
         THEN litLeft' = LongLength((c \div 4) + 1 - 60) /\ buf' = Drop(1 + ((c \div 4) + 1 - 60))
         ELSE litLeft' = (c \div 4) + 1 /\ buf' = Drop(1)
  BY DEF SlowLiteral
<1>3. /\ stream \in Seq(Byte) /\ Len(stream) \in Nat /\ Len(buf) \in Nat
      /\ out \in Seq(Byte) /\ expected \in Nat
  BY <1>1, TypesAre
<1>4. /\ c \div 4 < 60 => k = 0 /\ ElementLength(stream, Used) = (c \div 4) + 1
      /\ c \div 4 >= 60 => k = (c \div 4) - 59
  <2>1. /\ IsLiteral(c) /\ c \div 4 < 60 => TagExtra(c) = 0
        /\ IsLiteral(c) /\ c \div 4 >= 60 => TagExtra(c) = (c \div 4) - 59
    BY <1>1, TagIs
  <2>2. stream[Used + 1] \in Int
    BY <1>1, TagsInFours, Zenon
  <2>3. c \div 4 < 60 => ElementLength(stream, Used) = c \div 4 + 1
    BY <1>1, <1>2, <2>2, LiteralLengthIs, SMTT(30)
  <2> QED
    BY <1>2, <2>1, <2>3
<1>5. /\ buf' = Drop(1 + k) /\ litLeft' \in Nat
      /\ ~LengthWraps => litLeft' = ElementLength(stream, Used)
  <2>0. c \div 4 \in Nat
    BY <1>1, TagsInFours, Zenon
  <2>1. CASE c \div 4 < 60
    <3>1. litLeft' = (c \div 4) + 1 /\ buf' = Drop(1) /\ k = 0
      BY <1>2, <1>4, <2>0, <2>1
    <3>2. 1 + k = 1
      BY <3>1
    <3> QED
      BY <1>4, <2>0, <2>1, <3>1, <3>2
  <2>2. CASE c \div 4 >= 60
    <3>1. k = (c \div 4) + 1 - 60 /\ (c \div 4) + 1 - 60 > 0
      BY <1>4, <2>0, <2>2
    <3>2. litLeft' = LongLength(k) /\ buf' = Drop(1 + k)
      BY <1>2, <3>1
    <3> QED
      BY <1>2, <2>2, <3>2, LongLengthIs
  <2> QED
    BY <2>0, <2>1, <2>2
<1> HIDE DEF k
<1> DEFINE m == 1 + k
<1>6. m \in Nat /\ m <= Len(buf)
  BY <1>1
<1>7. buf' = Drop(m)
  BY <1>5
<1> HIDE DEF m
<1>8. /\ IsPart(buf', stream, Used + m) /\ buf' \in Seq(Byte)
      /\ Used' = Used + m /\ Used + m \in Nat /\ Used + m <= Len(stream)
  BY <1>1, <1>2, <1>6, <1>7, Dropped
<1>9. TypeOK'
  BY <1>1, <1>2, <1>5, <1>8 DEF Core, TypeOK
<1>10. Core'
  <2>1. IsPart(buf', stream', Used')
    BY <1>2, <1>8
  <2> QED
    BY <1>2, <1>9, <2>1 DEF Core, Buffered, Stitching, TagReadable
<1>11. ASSUME ~LengthWraps PROVE SoFar'
  <2>1. Used' = ElementBody(stream, Used) /\ litLeft' = ElementLength(stream, Used)
    BY <1>1, <1>5, <1>8, <1>11 DEF m
  <2>2. SaysAfter(stream, expected, ElementBody(stream, Used), out, ElementLength(stream, Used))
    <3>1. IsLiteral(stream[Used + 1])
      BY <1>1, <1>2
    <3> QED
      BY <1>1, <1>3, <1>11, <3>1, LiteralBegins
  <2>3. SaysAfter(stream', expected', Used', out', litLeft')
    BY <1>2, <2>1, <2>2
  <2> QED
    BY <1>2, <2>3 DEF SoFar
<1> QED
  BY <1>2, <1>10, <1>11, SameStream DEF StreamInv, ResultIsReference

LEMMA FastLiteralStep ==
  ASSUME StreamInv, FastLiteral
  PROVE  StreamInv'
<1> DEFINE c == buf[1]
           n == (c \div 4) + 1
<1>1. /\ Core /\ buf # <<>> /\ Used \in Nat /\ Used < Len(stream)
      /\ c = stream[Used + 1] /\ c \in 0 .. 255
      /\ 1 + TagExtra(c) <= Len(buf)
      /\ ElementBody(stream, Used) = Used + (1 + TagExtra(c))
      /\ ElementBody(stream, Used) <= Len(stream)
      /\ ~LengthWraps => Says(stream, expected, Used, out)
  BY AtTag, Zenon DEF FastLiteral
<1>2. /\ pc = "tag" /\ IsLiteral(c) /\ n < 61 /\ n <= expected - Len(out)
      /\ Len(buf) - 1 >= n + kMaximumTagLength
      /\ out' = out \o SubSeq(buf, 2, n + 1) /\ buf' = Drop(n + 1)
      /\ UNCHANGED <<stream, expected, pos, peeked, slack, needed, litLeft, eof, ok, pc>>
  BY DEF FastLiteral
<1>3. /\ stream \in Seq(Byte) /\ Len(stream) \in Nat /\ Len(buf) \in Nat /\ buf \in Seq(Byte)
      /\ out \in Seq(Byte) /\ Len(out) \in Nat /\ expected \in Nat /\ IsPart(buf, stream, Used)
      /\ Used + Len(buf) <= Len(stream)
  <2>1. pc # "done"
    BY <1>2
  <2> QED
    BY <1>1, <2>1, TypesAre, BufferIs, Zenon
<1>4. c \in Int /\ c \div 4 \in Nat /\ stream[Used + 1] \in Int
  BY <1>1, TagsInFours, Zenon
<1>5. n \in Nat /\ c \div 4 < 60
  BY <1>2, <1>4, SMTT(30)
<1>6. TagExtra(c) = 0
  BY <1>1, <1>2, <1>5, TagIs
<1>7. ElementLength(stream, Used) = n
  <2>1. IsLiteral(stream[Used + 1]) /\ stream[Used + 1] \div 4 < 60
    BY <1>1, <1>2, <1>5, Zenon
  <2>2. ElementLength(stream, Used) = stream[Used + 1] \div 4 + 1
    BY <1>4, <2>1, LiteralLengthIs
  <2> QED
    BY <1>1, <2>2, Zenon
<1> HIDE DEF n, c
<1>8. ElementBody(stream, Used) = Used + 1
  BY <1>1, <1>6
<1>9. /\ n + 1 \in Nat /\ n + 1 <= Len(buf) /\ Len(buf) - (n + 1) >= 5 /\ Len(out) + n <= expected
      /\ 1 + n <= Len(buf) /\ Used + 1 \in Nat /\ Used + 1 + n = Used + (n + 1)
      /\ Used + 1 + n <= Len(stream)
  BY <1>1, <1>2, <1>3, <1>5 DEF kMaximumTagLength
<1>10. /\ IsPart(buf', stream, Used + (n + 1)) /\ buf' \in Seq(Byte)
       /\ Len(buf') = Len(buf) - (n + 1) /\ Used' = Used + (n + 1)
  BY <1>1, <1>2, <1>9, Dropped
<1>11. out' = out \o Part(stream, Used + 1, n)
  <2>1. Part(buf, 1, n) = Part(stream, Used + 1, n)
    BY <1>3, <1>5, <1>9, PartOfPart
  <2>2. 1 + 1 = 2 /\ 1 + n = n + 1
    BY <1>5
  <2> QED
    BY <1>2, <2>1, <2>2, Zenon DEF Part
<1>12. out' \in Seq(Byte) /\ Len(out') <= expected
  <2> DEFINE v == Part(stream, Used + 1, n)
  <2>1. IsPart(v, stream, Used + 1) /\ Len(v) = n
    BY <1>3, <1>5, <1>9, SubSeqIsPart
  <2>2. v \in Seq(Byte)
    BY <2>1 DEF IsPart
  <2> HIDE DEF v
  <2>3. out \o v \in Seq(Byte) /\ Len(out \o v) = Len(out) + Len(v)
    BY <1>3, <2>2
  <2> QED
    BY <1>9, <1>11, <2>1, <2>3 DEF v
<1>13. TypeOK'
  BY <1>1, <1>2, <1>10, <1>12 DEF Core, TypeOK
<1>14. Buffered'
  <2>1. IsPart(buf', stream', Used')
    BY <1>2, <1>10
  <2> QED
    BY <2>1 DEF Buffered
<1>15. buf' # <<>> /\ Len(buf') >= 5
  <2>1. Len(buf') >= 5
    BY <1>9, <1>10
  <2> QED
    BY <2>1
<1>16. TagReadable'
  <2>1. TagExtra(buf'[1]) \in 0 .. 4
    BY <1>3, <1>10, <1>15, TagOfPart
  <2>2. slack \in Nat /\ slack' = slack
    BY <1>1, <1>2 DEF Core, TypeOK, kMaximumTagLength
  <2>3. Len(buf') \in Nat
    BY <1>10
  <2> QED
    BY <1>15, <2>1, <2>2, <2>3 DEF TagReadable, kMaximumTagLength
<1>17. Core'
  BY <1>2, <1>13, <1>14, <1>15, <1>16 DEF Core, Stitching
<1>18. ASSUME ~LengthWraps PROVE Says(stream, expected, Used', out')
  <2>1. IsLiteral(stream[Used + 1])
    BY <1>1, <1>2, Zenon
  <2>2. SaysAfter(stream, expected, Used + 1, out, n)
    BY <1>1, <1>3, <1>7, <1>8, <1>18, <2>1, LiteralBegins
  <2>3. Says(stream, expected, Used + 1 + n, out \o Part(stream, Used + 1, n))
    BY <1>9, <2>2, Zenon DEF SaysAfter
  <2> QED
    BY <1>9, <1>10, <1>11, <2>3, Zenon
<1> QED
  BY <1>2, <1>17, <1>18, WentOn

LEMMA CopyStep ==
  ASSUME StreamInv, Copy
  PROVE  StreamInv'
<1> DEFINE c == buf[1]
           k == TagExtra(c)
           base == EntryOffset(c)
           offset == base + Load32Masked(buf, 1, EntryExtra(c))
           n == EntryLength(c)
<1>1. /\ Core /\ buf # <<>> /\ Used \in Nat /\ Used < Len(stream)
      /\ c = stream[Used + 1] /\ c \in 0 .. 255
      /\ k \in 0 .. 4 /\ EntryExtra(c) = k /\ 1 + k <= Len(buf)
      /\ ElementBody(stream, Used) = Used + (1 + k)
      /\ ElementBody(stream, Used) <= Len(stream)
      /\ Load32Masked(buf, 1, k) = Load32Masked(stream, Used + 1, k)
      /\ ~LengthWraps => Says(stream, expected, Used, out)
  BY AtTag, Zenon DEF Copy, CopyUsing
<1>2. /\ pc = "tag" /\ ~IsLiteral(c) /\ buf' = Drop(1 + EntryExtra(c))
      /\ IF offset \in 1 .. Len(out) /\ Len(out) + n <= expected
         THEN out' = out \o Repeated(out, offset, n) /\ pc' = "refill"
         ELSE pc' = "failed" /\ UNCHANGED out
      /\ UNCHANGED <<stream, expected, pos, peeked, slack, needed, litLeft, eof, ok>>
  BY DEF Copy, CopyUsing
<1>3. /\ stream \in Seq(Byte) /\ Len(stream) \in Nat /\ Len(buf) \in Nat
      /\ out \in Seq(Byte) /\ Len(out) \in Nat /\ Len(out) <= expected /\ expected \in Nat
  BY <1>1, TypesAre
<1>4. c % 4 # 0
  BY <1>1, <1>2, TagIs
<1>5. n = ElementLength(stream, Used) /\ offset = ElementOffset(stream, Used)
  <2>1. n = IF c % 4 = 1 THEN ((c \div 4) % 8) + 4 ELSE c \div 4 + 1
    BY <1>1, <1>4, TableIs
  <2>2. EntryOffset(c) = IF c % 4 = 1 THEN (c \div 32) * 256 ELSE 0
    BY <1>1, <1>4, TableIs
  <2>3. ElementOffset(stream, Used) =
          (IF c % 4 = 1 THEN (c \div 32) * 256 ELSE 0) + Load32Masked(stream, Used + 1, k)
    BY <1>1, Zenon DEF ElementOffset, COPY_1_BYTE_OFFSET
  <2>4. offset = EntryOffset(c) + Load32Masked(stream, Used + 1, k)
    BY <1>1, Zenon
  <2>5. ElementLength(stream, Used) = IF c % 4 = 1 THEN ((c \div 4) % 8) + 4 ELSE c \div 4 + 1
    <3> DEFINE a == ((c \div 4) % 8) + 4
               b == c \div 4 + 1
               d == Load32Masked(stream, Used + 1, k) + 1
    <3>1. ElementLength(stream, Used) =
            CASE IsLiteral(c) /\ c \div 4 < 60 -> b
              [] IsLiteral(c) /\ c \div 4 >= 60 -> d
              [] c % 4 = COPY_1_BYTE_OFFSET -> a
              [] OTHER -> b
      BY <1>1, Zenon DEF ElementLength
    <3> HIDE DEF a, b, c, d
    <3>2. ~IsLiteral(c) /\ COPY_1_BYTE_OFFSET = 1
      BY <1>2 DEF COPY_1_BYTE_OFFSET
    <3> DEFINE r == c % 4
    <3>3. ElementLength(stream, Used) = IF r = 1 THEN a ELSE b
      <4> DEFINE e == c \div 4
                 l == IsLiteral(c)
      <4>1. ElementLength(stream, Used) =
            CASE l /\ e < 60 -> b [] l /\ e >= 60 -> d [] r = 1 -> a [] OTHER -> b
        BY <3>1, <3>2, Zenon
      <4>2. ~l
        BY <3>2
      <4> HIDE DEF e, l, r
      <4> QED
        BY <4>1, <4>2
    <3> QED
      BY <3>3, Zenon DEF a, b
  <2>6. offset = ElementOffset(stream, Used)
    <3> DEFINE load == Load32Masked(stream, Used + 1, k)
               high == IF c % 4 = 1 THEN (c \div 32) * 256 ELSE 0
    <3>1. offset = base + load /\ base = high /\ ElementOffset(stream, Used) = high + load
      BY <2>2, <2>3, <2>4, Zenon
    <3> HIDE DEF load, high, base, offset
    <3> QED
      BY <3>1, Zenon
  <2>7. n = ElementLength(stream, Used)
    <3> HIDE DEF n
    <3> QED
      BY <2>1, <2>5, Zenon
  <2> QED
    BY <2>6, <2>7, Zenon
<1>6. ElementLength(stream, Used) \in Nat
  BY <1>1, <1>3, ElementIs
<1>7. n \in Nat
  BY <1>5, <1>6, Zenon
<1>8. buf' = Drop(1 + k)
  BY <1>1, <1>2, Zenon
<1> HIDE DEF k, offset, n
<1> DEFINE m == 1 + k
<1>9. m \in Nat /\ m <= Len(buf) /\ buf' = Drop(m) /\ ElementBody(stream, Used) = Used + m
  BY <1>1, <1>8
<1> HIDE DEF m
<1>10. /\ IsPart(buf', stream, Used + m) /\ buf' \in Seq(Byte) /\ Used' = Used + m
  BY <1>1, <1>2, <1>9, Dropped
<1>11. pc' \in {"refill", "failed"} => Buffered' /\ Stitching' /\ TagReadable'
  <2>1. IsPart(buf', stream', Used')
    BY <1>2, <1>10
  <2> QED
    BY <2>1 DEF Buffered, Stitching, TagReadable
<1>12. /\ IsLiteral(stream[Used + 1]) = IsLiteral(c)
  BY <1>1, Zenon
<1>13. ASSUME ~LengthWraps
       PROVE  IF offset \in 1 .. Len(out) /\ Len(out) + n <= expected
              THEN Says(stream, expected, Used', out \o Repeated(out, offset, n))
              ELSE ~Decode(stream, expected).ok
  <2>1. IF offset \in 1 .. Len(out) /\ Len(out) + n <= expected
        THEN DecodeFrom(stream, Used, out, expected) =
               DecodeFrom(stream, ElementBody(stream, Used), out \o Repeated(out, offset, n), expected)
        ELSE ~DecodeFrom(stream, Used, out, expected).ok
    BY <1>1, <1>2, <1>3, <1>5, <1>12, CopyRuns, SMTT(30)
  <2>2. Says(stream, expected, Used, out)
    BY <1>1, <1>13
  <2> QED
    BY <1>9, <1>10, <2>1, <2>2, Zenon DEF Says
<1>14. CASE offset \in 1 .. Len(out) /\ Len(out) + n <= expected
  <2>1. out' = out \o Repeated(out, offset, n) /\ pc' = "refill"
    BY <1>2, <1>14
  <2>2. out' \in Seq(Byte) /\ Len(out') <= expected
    <3> DEFINE v == Repeated(out, offset, n)
    <3>1. v \in Seq(Byte) /\ Len(v) = n
      BY <1>3, <1>7, <1>14, RepeatedIs
    <3>3. out \in Seq(Byte)
      BY <1>3
    <3> HIDE DEF v
    <3>2. out \o v \in Seq(Byte) /\ Len(out \o v) = Len(out) + Len(v)
      BY <3>1, <3>3
    <3> QED
      BY <1>14, <2>1, <3>1, <3>2 DEF v
  <2>3. TypeOK'
    BY <1>1, <1>2, <1>10, <2>1, <2>2 DEF Core, TypeOK
  <2>4. Core'
    BY <1>11, <2>1, <2>3 DEF Core
  <2>5. ~LengthWraps => Says(stream, expected, Used', out')
    BY <1>13, <1>14, <2>1, Zenon
  <2> QED
    BY <1>2, <2>1, <2>4, <2>5, WentOn
<1>15. CASE ~(offset \in 1 .. Len(out) /\ Len(out) + n <= expected)
  <2>1. out' = out /\ pc' = "failed"
    BY <1>2, <1>15
  <2>2. TypeOK'
    BY <1>1, <1>2, <1>10, <2>1 DEF Core, TypeOK
  <2>3. Core'
    BY <1>11, <2>1, <2>2 DEF Core
  <2>4. ~LengthWraps => ~Decode(stream, expected).ok
    BY <1>13, <1>15, Zenon
  <2> QED
    BY <1>2, <2>1, <2>3, <2>4, Refuses
<1> QED
  BY <1>14, <1>15

\* A stuttering step, and the steps after the return.
LEMMA StutterStep ==
  ASSUME StreamInv, UNCHANGED vars
  PROVE  StreamInv'
<1>1. UNCHANGED <<stream, expected, pos, peeked, buf, slack, needed, litLeft, eof, out, ok, pc>>
  BY Zenon DEF vars
<1>2. Used' = Used /\ (LengthWraps' <=> LengthWraps)
  BY <1>1, SameStream DEF Used
<1>3. Core'
  BY <1>1, <1>2 DEF StreamInv, Core, TypeOK, Buffered, Stitching, TagReadable
<1>4. ~LengthWraps => SoFar' /\ ResultIsReference'
  BY <1>1, <1>2 DEF StreamInv, SoFar, ResultIsReference
<1> QED
  BY <1>2, <1>3, <1>4 DEF StreamInv

LEMMA NextStep ==
  ASSUME StreamInv, [Next]_vars, Peeks \subseteq Nat \ {0}
  PROVE  StreamInv'
<1>1. CASE Refill
  BY <1>1, RefillStep
<1>2. CASE Stitch
  BY <1>2, StitchStep
<1>3. CASE FastLiteral
  BY <1>3, FastLiteralStep
<1>4. CASE SlowLiteral
  BY <1>4, SlowLiteralStep
<1>5. CASE LiteralFragment
  BY <1>5, LiteralFragmentStep
<1>6. CASE LiteralEnd
  BY <1>6, LiteralEndStep
<1>7. CASE LiteralRefused
  BY <1>7, LiteralRefusedStep
<1>8. CASE Copy
  BY <1>8, CopyStep
<1>9. CASE Fail
  BY <1>9, FailStep
<1>10. CASE UNCHANGED vars
  BY <1>10, StutterStep
<1> QED
  BY <1>1, <1>2, <1>3, <1>4, <1>5, <1>6, <1>7, <1>8, <1>9, <1>10 DEF Next, Returned

\* What the invariant is for.
LEMMA InvariantSays ==
  ASSUME StreamInv
  PROVE  BufferIsNext /\ TagReadable /\ ResultIsReference /\ TypeOK
<1>1. Core /\ TypeOK /\ TagReadable
  BY DEF StreamInv, Core
<1>2. ResultIsReference
  BY DEF StreamInv, ResultIsReference
<1>3. ASSUME pc # "done"
      PROVE  Used >= 0 /\ buf = SubSeq(stream, Used + 1, Used + Len(buf))
  <2>1. IsPart(buf, stream, Used) /\ stream \in Seq(Byte)
    BY <1>1, <1>3, BufferIs, TypesAre, Zenon
  <2>2. Used >= 0
    BY <2>1 DEF IsPart
  <2>3. buf = Part(stream, Used, Len(buf))
    BY <2>1, PartIsSubSeq, Zenon
  <2> QED
    BY <2>2, <2>3, Zenon DEF Part
<1> QED
  BY <1>1, <1>2, <1>3, Zenon DEF BufferIsNext

(***************************************************************************)
(* For any streams, lengths and ways to cut a stream into fragments: what  *)
(* is buffered is what comes next, a tag is read when it is whole, and the *)
(* call returns what the reference makes of the stream.                    *)
(***************************************************************************)
THEOREM AnyFragmentsDecode ==
  ASSUME Streams \subseteq Seq(Byte), \A s \in Streams : Expected(s) \subseteq Nat,
         Peeks \subseteq Nat \ {0}
  PROVE  Spec => [](BufferIsNext /\ TagReadable /\ ResultIsReference)
<1>1. Init => StreamInv
  BY InitStep
<1>2. StreamInv /\ [Next]_vars => StreamInv'
  BY NextStep
<1>3. StreamInv => BufferIsNext /\ TagReadable /\ ResultIsReference
  BY InvariantSays
<1> QED
  BY <1>1, <1>2, <1>3, PTL DEF Spec

-----------------------------------------------------------------------------
(***************************************************************************)
(* The decompressor gets on.  The bytes of the stream that are not used,   *)
(* and where it is with the next ones, make a number that every step       *)
(* lowers; 10 outweighs what a step that uses a byte can add.              *)
(***************************************************************************)
Rank == IF pc = "failed" THEN 1
        ELSE IF pc = "tag" THEN 2
        ELSE IF pc = "stitch" THEN 2 + (needed - Len(buf))
        ELSE IF pc = "refill" THEN 8
        ELSE IF buf # <<>> THEN 9 ELSE 10
ToDo == IF pc = "done" THEN 0 ELSE 10 * (Len(stream) - Used) + Rank

RankBounds == Core /\ pc # "done" =>
                /\ Rank \in 1 .. 10 /\ Used \in Nat /\ Len(stream) \in Nat
                /\ Used <= Len(stream) /\ ToDo = 10 * (Len(stream) - Used) + Rank
                /\ pc = "stitch" => Rank \in 3 .. 6

LEMMA RankIs == RankBounds
<1> SUFFICES ASSUME Core, pc # "done"
             PROVE  /\ Rank \in 1 .. 10 /\ Used \in Nat /\ Len(stream) \in Nat
                    /\ Used <= Len(stream) /\ ToDo = 10 * (Len(stream) - Used) + Rank
                    /\ pc = "stitch" => Rank \in 3 .. 6
  BY DEF RankBounds
<1>1. Used \in Nat /\ Used + Len(buf) <= Len(stream) /\ Len(buf) \in Nat /\ Len(stream) \in Nat
  BY BufferIs, TypesAre, Zenon
<1>2. pc = "stitch" => needed \in 0 .. 5 /\ Len(buf) < needed /\ Len(buf) # 0
  BY TypesAre DEF Core, Stitching, TypeOK, kMaximumTagLength
<1>3. pc = "stitch" => Rank = 2 + (needed - Len(buf))
  BY DEF Rank
<1>4. pc = "stitch" => Rank \in 3 .. 6
  BY <1>1, <1>2, <1>3
<1>5. pc # "stitch" => Rank \in 1 .. 10
  BY DEF Rank
<1>6. Used <= Len(stream)
  BY <1>1
<1>7. Rank \in 1 .. 10
  BY <1>4, <1>5
<1> QED
  BY <1>1, <1>4, <1>6, <1>7 DEF ToDo

LEMMA RankWillBe == RankBounds'
BY RankIs, PTL

LEMMA ToDoIs ==
  ASSUME Core
  PROVE  ToDo \in Nat
<1>1. CASE pc = "done"
  BY <1>1 DEF ToDo
<1>2. CASE pc # "done"
  BY <1>2, RankIs DEF RankBounds
<1> QED
  BY <1>1, <1>2

\* A return ends it all, ...
LEMMA EndLowers ==
  ASSUME Core, pc # "done", pc' = "done"
  PROVE  ToDo' < ToDo
<1>1. ToDo >= 1
  BY RankIs DEF RankBounds
<1>2. ToDo' = 0
  BY DEF ToDo
<1> QED
  BY <1>1, <1>2, ToDoIs

\* ... a byte that is used is one less to do, ...
LEMMA UseLowers ==
  ASSUME Core, Core', pc # "done", pc' # "done", stream' = stream, Used' > Used
  PROVE  ToDo' < ToDo
<1>1. /\ Rank \in 1 .. 10 /\ Used \in Nat /\ Len(stream) \in Nat
      /\ ToDo = 10 * (Len(stream) - Used) + Rank
  BY RankIs DEF RankBounds
<1>2. /\ Rank' \in 1 .. 10 /\ Used' \in Nat
      /\ ToDo' = 10 * (Len(stream) - Used') + Rank'
  BY RankWillBe DEF RankBounds
<1> QED
  BY <1>1, <1>2

\* ... and without one the work on the next bytes gets on.
LEMMA RankLowers ==
  ASSUME Core, Core', pc # "done", pc' # "done", stream' = stream, Used' = Used, Rank' < Rank
  PROVE  ToDo' < ToDo
<1>1. /\ Rank \in 1 .. 10 /\ Used \in Nat /\ Len(stream) \in Nat
      /\ ToDo = 10 * (Len(stream) - Used) + Rank
  BY RankIs DEF RankBounds
<1>2. Rank' \in 1 .. 10 /\ ToDo' = 10 * (Len(stream) - Used) + Rank'
  BY RankWillBe DEF RankBounds
<1> QED
  BY <1>1, <1>2

LEMMA RefillLowers ==
  ASSUME Core, Core', Refill, Peeks \subseteq Nat \ {0}
  PROVE  ToDo' < ToDo
<1>1. pc = "refill" /\ stream' = stream
  BY DEF Refill
<1>2. CASE pc' = "done"
  BY <1>1, <1>2, EndLowers
<1>3. CASE pc' # "done"
  <2>1. pc' \in {"tag", "stitch"} /\ Used' = Used
    <3>0. /\ Used \in Nat /\ Used + Len(buf) = pos + peeked /\ IsPart(buf, stream, Used)
          /\ pos \in Nat /\ peeked \in Nat /\ stream \in Seq(Byte) /\ Len(buf) \in Nat
          /\ Used + Len(buf) <= Len(stream) /\ Len(stream) \in Nat
      BY <1>1, BufferIs, TypesAre
    <3>1. CASE pc' = "tag" /\ UNCHANGED <<sourceVars, needed, eof, ok>>
      BY <3>1 DEF Used, sourceVars
    <3>2. CASE Len(buf) \in 1 .. kMaximumTagLength - 1 /\ UseTag(buf, pos, peeked)
      <4>1. buf # <<>>
        BY <3>2 DEF kMaximumTagLength
      <4>2. /\ buf' = buf /\ pos' + peeked' - Len(buf) = Used
            /\ pc' \in {"stitch", "tag"}
        BY <3>0, <3>2, <4>1, UseTagIs
      <4> QED
        BY <4>2 DEF Used
    <3>3. CASE /\ buf = <<>>
               /\ \E fragment \in Fragments(pos + peeked) :
                    /\ fragment # <<>>
                    /\ UseTag(fragment, pos + peeked, Len(fragment))
      <4>1. PICK fragment \in Fragments(pos + peeked) :
              /\ fragment # <<>>
              /\ UseTag(fragment, pos + peeked, Len(fragment))
        BY <3>3
      <4>2. Len(buf) = 0
        BY <3>3
      <4>3. pos + peeked = Used /\ pos + peeked \in Nat /\ Used <= Len(stream)
        BY <3>0, <4>2
      <4>4. IsPart(fragment, stream, Used) /\ Len(fragment) \in Nat
        BY <3>0, <4>1, <4>3, FragmentIs
      <4>5. /\ buf' = fragment /\ pos' + peeked' - Len(fragment) = Used
            /\ pc' \in {"stitch", "tag"}
        BY <3>0, <4>1, <4>3, <4>4, UseTagIs
      <4> QED
        BY <4>5 DEF Used
    <3> QED
      BY <1>3, <3>1, <3>2, <3>3 DEF Refill, Return
  <2>2. Rank = 8
    BY <1>1 DEF Rank
  <2>3. Rank' \in 1 .. 6
    <3>1. CASE pc' = "tag"
      BY <3>1 DEF Rank
    <3>2. CASE pc' = "stitch"
      BY <3>2, RankWillBe DEF RankBounds
    <3> QED
      BY <2>1, <3>1, <3>2
  <2>4. Rank' < Rank
    BY <2>2, <2>3
  <2> QED
    BY <1>1, <1>3, <2>1, <2>4, RankLowers
<1> QED
  BY <1>2, <1>3

LEMMA StitchLowers ==
  ASSUME Core, Core', Stitch, Peeks \subseteq Nat \ {0}
  PROVE  ToDo' < ToDo
<1>1. /\ pc = "stitch" /\ UNCHANGED <<stream, peeked, needed>>
      /\ buf # <<>> /\ Len(buf) < needed /\ peeked = 0 /\ needed \in 0 .. 5
  BY DEF Core, Stitching, TypeOK, kMaximumTagLength, Stitch, StitchOf
<1>2. CASE pc' = "done"
  BY <1>1, <1>2, EndLowers
<1>3. CASE pc' # "done"
  <2>0. /\ Used \in Nat /\ Used + Len(buf) = pos /\ pos \in Nat /\ Len(buf) \in Nat
        /\ Len(stream) \in Nat /\ stream \in Seq(Byte) /\ buf \in Seq(Byte) /\ pos <= Len(stream)
    BY <1>1, BufferIs, TypesAre
  <2>1. PICK fragment \in Fragments(pos) :
          /\ fragment # <<>>
          /\ buf' = buf \o SubSeq(fragment, 1, Least(needed - Len(buf), Len(fragment)))
          /\ pos' = pos + Least(needed - Len(buf), Len(fragment))
          /\ IF Len(buf') = needed THEN pc' = "tag" ELSE pc' = "stitch"
    BY <1>3 DEF Stitch, StitchOf, Return
  <2>2. fragment \in Seq(Byte) /\ Len(fragment) \in Nat /\ Len(fragment) # 0
    BY <2>0, <2>1, FragmentIs
  <2> DEFINE k == Least(needed - Len(buf), Len(fragment))
  <2>3. k \in Nat /\ k >= 1 /\ k <= Len(fragment) /\ k <= needed - Len(buf)
    BY <1>1, <2>0, <2>2 DEF Least
  <2>4. Len(buf') = Len(buf) + k
    <3>1. buf' = buf \o SubSeq(fragment, 1, k)
      BY <2>1
    <3> HIDE DEF k
    <3>2. SubSeq(fragment, 1, k) \in Seq(Byte) /\ Len(SubSeq(fragment, 1, k)) = k
      BY <2>2, <2>3
    <3> QED
      BY <2>0, <3>1, <3>2
  <2>5. pos' = pos + k
    BY <2>1
  <2> HIDE DEF k
  <2>6. Used' = Used
    <3>1. Used' = (pos + k) + 0 - (Len(buf) + k)
      BY <1>1, <2>4, <2>5 DEF Used
    <3> QED
      BY <2>0, <2>3, <3>1
  <2>7. Rank = 2 + (needed - Len(buf))
    BY <1>1 DEF Rank
  <2>8. Rank' = 2 + (needed - Len(buf'))
    <3>1. CASE pc' = "stitch"
      BY <1>1, <3>1 DEF Rank
    <3>2. CASE pc' = "tag"
      <4>1. Len(buf') = needed /\ Rank' = 2
        BY <2>1, <3>2 DEF Rank
      <4> QED
        BY <1>1, <4>1
    <3> QED
      BY <2>1, <3>1, <3>2
  <2>9. Rank' < Rank
    BY <1>1, <2>0, <2>3, <2>4, <2>7, <2>8
  <2> QED
    BY <1>1, <1>3, <2>6, <2>9, RankLowers
<1> QED
  BY <1>2, <1>3

\* A tag takes at least its first byte.
LEMMA DropLowers ==
  ASSUME Core, Core', pc # "done", pc' # "done", NEW k \in Nat, k >= 1, k <= Len(buf),
         buf' = Drop(k), UNCHANGED <<stream, pos, peeked>>
  PROVE  ToDo' < ToDo
<1>1. Used' = Used + k /\ Used \in Nat
  BY Dropped, BufferIs
<1>2. Used' > Used
  BY <1>1
<1> QED
  BY <1>2, UseLowers

LEMMA FastLiteralLowers ==
  ASSUME Core, Core', FastLiteral, buf[1] \in 0 .. 255
  PROVE  ToDo' < ToDo
<1> DEFINE k == (buf[1] \div 4) + 1
<1>1. buf[1] \div 4 \in Nat
  BY TagsInFours
<1>2. k \in Nat /\ k >= 1
  BY <1>1
<1>3. /\ pc = "tag" /\ Len(buf) - 1 >= k + kMaximumTagLength /\ buf' = Drop(k + 1)
      /\ pc' = pc /\ UNCHANGED <<stream, pos, peeked>>
  BY DEF FastLiteral
<1> HIDE DEF k
<1>4. k + 1 \in Nat /\ k + 1 >= 1 /\ k + 1 <= Len(buf)
  BY <1>2, <1>3, TypesAre DEF kMaximumTagLength
<1> QED
  BY <1>3, <1>4, DropLowers

LEMMA SlowLiteralLowers ==
  ASSUME Core, Core', SlowLiteral, buf[1] \in 0 .. 255
  PROVE  ToDo' < ToDo
<1> DEFINE c == buf[1]
<1>1. /\ pc = "tag" /\ IsLiteral(c) /\ pc' = "literal" /\ UNCHANGED <<stream, pos, peeked>>
      /\ IF (c \div 4) + 1 - 60 > 0 THEN buf' = Drop(1 + ((c \div 4) + 1 - 60))
         ELSE buf' = Drop(1)
  BY DEF SlowLiteral, sourceVars
<1>2. Len(buf) >= 1 + TagExtra(c) /\ Len(buf) \in Nat /\ buf # <<>>
  BY <1>1, TypesAre DEF Core, TagReadable, Stitching
<1>3. c \div 4 \in Nat
  BY TagsInFours
<1> HIDE DEF c
<1>4. CASE (c \div 4) + 1 - 60 > 0
  <2>1. c \div 4 >= 60
    BY <1>3, <1>4
  <2>2. TagExtra(c) = (c \div 4) - 59
    BY <1>1, <2>1, TagIs DEF c
  <2> DEFINE k == 1 + ((c \div 4) + 1 - 60)
  <2>3. k \in Nat /\ k >= 1 /\ k <= Len(buf) /\ buf' = Drop(k)
    BY <1>1, <1>2, <1>3, <1>4, <2>2
  <2> HIDE DEF k
  <2> QED
    BY <1>1, <2>3, DropLowers
<1>5. CASE ~((c \div 4) + 1 - 60 > 0)
  <2>1. 1 \in Nat /\ 1 >= 1 /\ 1 <= Len(buf) /\ buf' = Drop(1)
    BY <1>1, <1>2, <1>5, TypesAre
  <2> QED
    BY <1>1, <2>1, DropLowers
<1> QED
  BY <1>4, <1>5

LEMMA CopyLowers ==
  ASSUME Core, Core', Copy, TagExtra(buf[1]) \in 0 .. 4, EntryExtra(buf[1]) = TagExtra(buf[1])
  PROVE  ToDo' < ToDo
<1> DEFINE k == 1 + EntryExtra(buf[1])
<1>1. /\ pc = "tag" /\ buf' = Drop(k) /\ pc' \in {"refill", "failed"}
      /\ UNCHANGED <<stream, pos, peeked>>
  BY DEF Copy, CopyUsing
<1>2. k \in Nat /\ k >= 1 /\ k <= Len(buf)
  BY <1>1 DEF Core, TagReadable
<1> HIDE DEF k
<1> QED
  BY <1>1, <1>2, DropLowers

LEMMA LiteralFragmentLowers ==
  ASSUME Core, Core', LiteralFragment, Peeks \subseteq Nat \ {0}
  PROVE  ToDo' < ToDo
<1> DEFINE p == pos + peeked
<1>1. pc = "literal" /\ pos' = p /\ stream' = stream
  BY DEF LiteralFragment, LiteralFrom
<1>2. PICK fragment \in Fragments(p) :
        /\ buf' = fragment /\ peeked' = Len(fragment)
        /\ pc' = IF fragment = <<>> THEN "failed" ELSE "literal"
  BY <1>1 DEF LiteralFragment, LiteralFrom
<1>3. /\ Used \in Nat /\ Used + Len(buf) = p /\ Len(buf) \in Nat /\ p \in Nat
      /\ p <= Len(stream) /\ stream \in Seq(Byte) /\ (buf = <<>>) <=> (Len(buf) = 0)
  BY <1>1, BufferIs, TypesAre
<1> HIDE DEF p
<1>4. Len(fragment) \in Nat
  BY <1>3, FragmentIs
<1>5. Used' = p
  BY <1>1, <1>2, <1>3, <1>4 DEF Used
<1>6. pc # "done" /\ pc' # "done"
  BY <1>1, <1>2
<1>7. CASE buf # <<>>
  <2>1. Used' > Used
    BY <1>3, <1>5, <1>7
  <2> QED
    BY <1>1, <1>6, <2>1, UseLowers
<1>8. CASE buf = <<>>
  <2>1. Used' = Used
    BY <1>3, <1>5, <1>8
  <2>2. Rank = 10
    BY <1>1, <1>8 DEF Rank
  <2>3. Rank' = IF fragment = <<>> THEN 1 ELSE 9
    BY <1>2 DEF Rank
  <2>4. Rank' < Rank
    BY <2>2, <2>3
  <2> QED
    BY <1>1, <1>6, <2>1, <2>4, RankLowers
<1> QED
  BY <1>7, <1>8

LEMMA LiteralEndLowers ==
  ASSUME Core, Core', LiteralEnd
  PROVE  ToDo' < ToDo
<1>1. /\ pc = "literal" /\ pc' = "refill" /\ Len(buf) >= litLeft /\ buf' = Drop(litLeft)
      /\ UNCHANGED <<stream, pos, peeked>>
  BY DEF LiteralEnd
<1>2. litLeft \in Nat /\ litLeft <= Len(buf) /\ Used \in Nat
  BY <1>1, TypesAre, BufferIs
<1>3. Used' = Used + litLeft
  BY <1>1, <1>2, Dropped
<1>4. CASE litLeft = 0
  <2>1. Rank' < Rank
    BY <1>1 DEF Rank
  <2>2. Used' = Used
    BY <1>2, <1>3, <1>4
  <2> QED
    BY <1>1, <2>1, <2>2, RankLowers
<1>5. CASE litLeft # 0
  <2>1. Used' > Used
    BY <1>2, <1>3, <1>5
  <2> QED
    BY <1>1, <2>1, UseLowers
<1> QED
  BY <1>4, <1>5

LEMMA LiteralRefusedLowers ==
  ASSUME Core, Core', LiteralRefused
  PROVE  ToDo' < ToDo
<1>1. pc = "literal" /\ pc' = "failed" /\ UNCHANGED <<stream, pos, peeked, buf>>
  BY DEF LiteralRefused, sourceVars
<1>2. Used' = Used
  BY <1>1 DEF Used
<1>3. Rank' < Rank
  BY <1>1 DEF Rank
<1> QED
  BY <1>1, <1>2, <1>3, RankLowers

LEMMA FailLowers ==
  ASSUME Core, Fail
  PROVE  ToDo' < ToDo
<1>1. pc = "failed" /\ pc' = "done"
  BY DEF Fail, Return
<1> QED
  BY <1>1, EndLowers

LEMMA NextLowers ==
  ASSUME StreamInv, StreamInv', [Next]_vars, Peeks \subseteq Nat \ {0}
  PROVE  [ToDo' < ToDo]_vars
<1>1. Core /\ Core'
  BY DEF StreamInv
<1>2. pc = "tag" => /\ buf[1] \in 0 .. 255 /\ TagExtra(buf[1]) \in 0 .. 4
                    /\ EntryExtra(buf[1]) = TagExtra(buf[1])
  BY AtTag
<1>3. CASE Refill
  BY <1>1, <1>3, RefillLowers
<1>4. CASE Stitch
  BY <1>1, <1>4, StitchLowers
<1>5. CASE FastLiteral
  <2>1. pc = "tag"
    BY <1>5 DEF FastLiteral
  <2> QED
    BY <1>1, <1>2, <1>5, <2>1, FastLiteralLowers
<1>6. CASE SlowLiteral
  <2>1. pc = "tag"
    BY <1>6 DEF SlowLiteral
  <2> QED
    BY <1>1, <1>2, <1>6, <2>1, SlowLiteralLowers
<1>7. CASE Copy
  <2>1. pc = "tag"
    BY <1>7 DEF Copy, CopyUsing
  <2> QED
    BY <1>1, <1>2, <1>7, <2>1, CopyLowers
<1>8. CASE LiteralFragment
  BY <1>1, <1>8, LiteralFragmentLowers
<1>9. CASE LiteralEnd
  BY <1>1, <1>9, LiteralEndLowers
<1>10. CASE LiteralRefused
  BY <1>1, <1>10, LiteralRefusedLowers
<1>11. CASE Fail
  BY <1>1, <1>11, FailLowers
<1>12. CASE UNCHANGED vars
  BY <1>12
<1> QED
  BY <1>3, <1>4, <1>5, <1>6, <1>7, <1>8, <1>9, <1>10, <1>11, <1>12 DEF Next, Returned

LEMMA InitToDo == Init => ToDo = 10 * Len(stream) + 8
<1> SUFFICES ASSUME Init PROVE ToDo = 10 * Len(stream) + 8
  OBVIOUS
<1>1. pc = "refill" /\ pos = 0 /\ peeked = 0 /\ buf = <<>>
  BY DEF Init
<1>2. <<>> \in Seq(Byte) /\ Len(<<>>) = 0
  OBVIOUS
<1>3. Len(buf) = 0
  BY <1>1, <1>2, Zenon
<1>4. Used = 0
  <2>1. Used = 0 + 0 - Len(buf)
    BY <1>1, Zenon DEF Used
  <2> QED
    BY <1>3, <2>1
<1>5. Rank = 8
  BY <1>1 DEF Rank
<1> QED
  BY <1>1, <1>4, <1>5 DEF ToDo

(***************************************************************************)
(* The decompressor cannot go on for ever, whatever bytes the stream has   *)
(* and however the source cuts them: what it has to do is at first 10 for  *)
(* each byte of the stream and 8, it is never less than 0, and every step  *)
(* makes it less.  Fragments of one byte, empty literals and a length that *)
(* has wrapped around to 0 are no exception.                               *)
(***************************************************************************)
THEOREM TheStreamIsUsedUp ==
  ASSUME Streams \subseteq Seq(Byte), \A s \in Streams : Expected(s) \subseteq Nat,
         Peeks \subseteq Nat \ {0}
  PROVE  Spec => /\ ToDo = 10 * Len(stream) + 8
                 /\ [](ToDo \in Nat)
                 /\ [][ToDo' < ToDo]_vars
<1>1. Init => StreamInv
  BY InitStep
<1>2. StreamInv /\ [Next]_vars => StreamInv'
  BY NextStep
<1>3. StreamInv => ToDo \in Nat
  BY ToDoIs DEF StreamInv
<1>4. StreamInv /\ StreamInv' /\ [Next]_vars => [ToDo' < ToDo]_vars
  BY NextLowers
<1> QED
  BY <1>1, <1>2, <1>3, <1>4, InitToDo, PTL DEF Spec
=============================================================================
