---------------------------- MODULE WriterProofs ----------------------------
(***************************************************************************)
(* The three writers are writers as the decompressor wants them, whatever  *)
(* the calls, the expected length and the sizes of arrays, buffers and     *)
(* blocks.                                                                 *)
(***************************************************************************)
EXTENDS MCDecompression, Memory, SequenceTheorems, TLAPS

\* The one about least elements is needed here.
Facts == INSTANCE SnappyFormatProofs

(***************************************************************************)
(* Bytes in memory.                                                        *)
(***************************************************************************)
LEMMA OneMemory ==
  /\ \A b, at, bytes : /\ Array!Overwrite(b, at, bytes) = Overwrite(b, at, bytes)
                       /\ IOVec!Overwrite(b, at, bytes) = Overwrite(b, at, bytes)
                       /\ Blocks!Overwrite(b, at, bytes) = Overwrite(b, at, bytes)
  /\ \A s, o, n : /\ Array!Repeated(s, o, n) = Repeated(s, o, n)
                  /\ IOVec!Repeated(s, o, n) = Repeated(s, o, n)
                  /\ Blocks!Repeated(s, o, n) = Repeated(s, o, n)
  /\ \A n : Array!Blank(n) = Blank(n) /\ IOVec!Blank(n) = Blank(n) /\ Blocks!Blank(n) = Blank(n)
BY DEF Array!Overwrite, IOVec!Overwrite, Blocks!Overwrite, Overwrite,
       Array!Repeated, IOVec!Repeated, Blocks!Repeated, Repeated,
       Array!Blank, IOVec!Blank, Blocks!Blank, Blank

LEMMA JoinIs ==
  ASSUME NEW b \in Seq(Nat), NEW c \in Seq(Nat)
  PROVE  /\ b \o c \in Seq(Nat) /\ Len(b \o c) = Len(b) + Len(c)
         /\ \A i \in 1 .. Len(b) : (b \o c)[i] = b[i]
         /\ \A i \in 1 .. Len(c) : (b \o c)[Len(b) + i] = c[i]
OBVIOUS

LEMMA PartIs ==
  ASSUME NEW b \in Seq(Nat), NEW k \in Nat, NEW l \in Nat, 1 <= k, l <= Len(b), k <= l + 1
  PROVE  /\ SubSeq(b, k, l) \in Seq(Nat) /\ Len(SubSeq(b, k, l)) = l - k + 1
         /\ \A i \in 1 .. l - k + 1 : SubSeq(b, k, l)[i] = b[k + i - 1]
OBVIOUS

LEMMA PrefixIs ==
  ASSUME NEW b \in Seq(Nat), NEW l \in Nat, l <= Len(b)
  PROVE  /\ SubSeq(b, 1, l) \in Seq(Nat) /\ Len(SubSeq(b, 1, l)) = l
         /\ \A i \in 1 .. l : SubSeq(b, 1, l)[i] = b[i]
OBVIOUS

LEMMA SameBytes ==
  ASSUME NEW b \in Seq(Nat), NEW c \in Seq(Nat), Len(b) = Len(c),
         \A i \in 1 .. Len(b) : b[i] = c[i]
  PROVE  b = c
BY SeqEqual

LEMMA OverwriteIs ==
  ASSUME NEW b \in Seq(Nat), NEW at \in Nat, NEW bytes \in Seq(Nat), at + Len(bytes) <= Len(b)
  PROVE  /\ Overwrite(b, at, bytes) \in Seq(Nat) /\ Len(Overwrite(b, at, bytes)) = Len(b)
         /\ \A i \in 1 .. at : Overwrite(b, at, bytes)[i] = b[i]
         /\ \A i \in 1 .. Len(bytes) : Overwrite(b, at, bytes)[at + i] = bytes[i]
         /\ \A i \in at + Len(bytes) + 1 .. Len(b) : Overwrite(b, at, bytes)[i] = b[i]
<1> DEFINE low == SubSeq(b, 1, at)
           high == SubSeq(b, at + Len(bytes) + 1, Len(b))
           first == low \o bytes
           all == first \o high
<1>0. Len(b) \in Nat /\ Len(bytes) \in Nat
  OBVIOUS
<1>1. low \in Seq(Nat) /\ Len(low) = at /\ \A i \in 1 .. at : low[i] = b[i]
  BY <1>0, PartIs
<1>2. /\ high \in Seq(Nat) /\ Len(high) = Len(b) - at - Len(bytes)
      /\ \A i \in 1 .. Len(b) - at - Len(bytes) : high[i] = b[at + Len(bytes) + i]
  <2> DEFINE k == at + Len(bytes) + 1
  <2>1. k \in Nat /\ 1 <= k /\ k <= Len(b) + 1
    BY <1>0
  <2>2. /\ SubSeq(b, k, Len(b)) \in Seq(Nat) /\ Len(SubSeq(b, k, Len(b))) = Len(b) - k + 1
        /\ \A i \in 1 .. Len(b) - k + 1 : SubSeq(b, k, Len(b))[i] = b[k + i - 1]
    <3> HIDE DEF k
    <3> QED
      BY <1>0, <2>1, PartIs
  <2>3. Len(b) - k + 1 = Len(b) - at - Len(bytes)
    BY <1>0
  <2>4. \A i \in 1 .. Len(b) - at - Len(bytes) : k + i - 1 = at + Len(bytes) + i
    BY <1>0
  <2> HIDE DEF k
  <2>5. high = SubSeq(b, k, Len(b))
    BY DEF k
  <2> HIDE DEF high
  <2> QED
    BY <2>2, <2>3, <2>4, <2>5
<1> HIDE DEF low, high
<1>3. /\ first \in Seq(Nat) /\ Len(first) = at + Len(bytes)
      /\ \A i \in 1 .. at : first[i] = low[i]
      /\ \A i \in 1 .. Len(bytes) : first[at + i] = bytes[i]
  BY <1>1, JoinIs
<1> HIDE DEF first
<1>4. /\ all \in Seq(Nat) /\ Len(all) = Len(first) + Len(high)
      /\ \A i \in 1 .. Len(first) : all[i] = first[i]
      /\ \A i \in 1 .. Len(high) : all[Len(first) + i] = high[i]
  BY <1>2, <1>3, JoinIs
<1> HIDE DEF all
<1>5. Overwrite(b, at, bytes) = all
  BY DEF Overwrite, all, first, low, high
<1>6. \A i \in 1 .. at : all[i] = b[i]
  <2> TAKE i \in 1 .. at
  <2>1. i \in 1 .. Len(first)
    BY <1>0, <1>3
  <2> QED
    BY <1>1, <1>3, <1>4, <2>1
<1>7. \A i \in 1 .. Len(bytes) : all[at + i] = bytes[i]
  <2> TAKE i \in 1 .. Len(bytes)
  <2>1. at + i \in 1 .. Len(first)
    BY <1>0, <1>3
  <2> QED
    BY <1>3, <1>4, <2>1
<1>8. \A i \in at + Len(bytes) + 1 .. Len(b) : all[i] = b[i]
  <2> TAKE i \in at + Len(bytes) + 1 .. Len(b)
  <2>1. i - at - Len(bytes) \in 1 .. Len(high)
    BY <1>0, <1>2
  <2>2. Len(first) + (i - at - Len(bytes)) = i /\ at + Len(bytes) + (i - at - Len(bytes)) = i
    BY <1>0, <1>3
  <2> QED
    BY <1>2, <1>4, <2>1, <2>2
<1> QED
  BY <1>0, <1>2, <1>3, <1>4, <1>5, <1>6, <1>7, <1>8

(***************************************************************************)
(* Copies: what a copy adds has the period of its offset, and a sequence   *)
(* of that period is what copies of pieces of it give, one by one.         *)
(***************************************************************************)
LEMMA Around ==
  ASSUME NEW o \in Nat, o >= 1, NEW x \in Nat
  PROVE  /\ x % o \in Nat /\ x % o < o
         /\ x < o => x % o = x
         /\ x >= o => x - o \in Nat /\ x % o = (x - o) % o
<1> DEFINE q == x \div o
           r == x % o
<1>1. q \in Int /\ x = o * q + r /\ r \in 0 .. o - 1
  OBVIOUS
<1>2. CASE x < o
  BY <1>2
<1>3. CASE x >= o
  <2> DEFINE p == (x - o) \div o
             t == (x - o) % o
  <2>1. x - o \in Nat
    BY <1>3
  <2>2. p \in Int /\ x - o = o * p + t /\ t \in 0 .. o - 1
    BY <2>1
  <2> HIDE DEF q, r, p, t
  <2>3. x = o * (p + 1) + t
    BY <2>2
  <2> DEFINE d == q - (p + 1)
  <2>4. d \in Int /\ o * d = t - r
    BY <1>1, <2>2, <2>3
  <2> HIDE DEF d
  <2>5. d = 0
    <3>1. CASE d >= 1
      <4>1. o * d >= o
        BY <2>4, <3>1
      <4> QED
        BY <1>1, <2>2, <2>4, <4>1
    <3>2. CASE d <= -1
      <4>1. o * d <= -o
        BY <2>4, <3>2
      <4> QED
        BY <1>1, <2>2, <2>4, <4>1
    <3> QED
      BY <2>4, <3>1, <3>2
  <2>6. r = t
    BY <1>1, <2>2, <2>4, <2>5
  <2> QED
    BY <1>1, <1>3, <2>1, <2>6 DEF r, t
<1> QED
  BY <1>1, <1>2, <1>3

LEMMA RepeatedIs ==
  ASSUME NEW b \in Seq(Nat), NEW o \in Nat, o >= 1, o <= Len(b), NEW k \in Nat
  PROVE  /\ Repeated(b, o, k) \in Seq(Nat) /\ Len(Repeated(b, o, k)) = k
         /\ \A i \in 1 .. k : Repeated(b, o, k)[i] = b[Len(b) - o + 1 + ((i - 1) % o)]
<1> DEFINE r == [i \in 1 .. k |-> b[Len(b) - o + 1 + ((i - 1) % o)]]
<1>1. Repeated(b, o, k) = r
  BY DEF Repeated
<1>2. ASSUME NEW i \in 1 .. k PROVE b[Len(b) - o + 1 + ((i - 1) % o)] \in Nat
  <2>1. i - 1 \in Nat
    OBVIOUS
  <2>2. (i - 1) % o \in Nat /\ (i - 1) % o < o
    BY <2>1, Around
  <2> DEFINE x == (i - 1) % o
  <2> HIDE DEF x
  <2>3. Len(b) - o + 1 + x \in 1 .. Len(b)
    BY <2>2 DEF x
  <2> QED
    BY <2>3 DEF x
<1>3. r \in Seq(Nat) /\ Len(r) = k
  BY <1>2
<1> QED
  BY <1>1, <1>3

\* A copy goes on with the period that it begins with.
LEMMA CopyHasPeriod ==
  ASSUME NEW b \in Seq(Nat), NEW o \in Nat, o >= 1, o <= Len(b), NEW k \in Nat,
         NEW i \in 1 .. k
  PROVE  (b \o Repeated(b, o, k))[Len(b) + i] = (b \o Repeated(b, o, k))[Len(b) + i - o]
<1> DEFINE r == Repeated(b, o, k)
           all == b \o r
<1>0. Len(b) \in Nat /\ i - 1 \in Nat
  OBVIOUS
<1>1. r \in Seq(Nat) /\ Len(r) = k /\ \A j \in 1 .. k : r[j] = b[Len(b) - o + 1 + ((j - 1) % o)]
  BY RepeatedIs
<1> HIDE DEF r
<1>2. /\ \A j \in 1 .. Len(b) : all[j] = b[j]
      /\ \A j \in 1 .. k : all[Len(b) + j] = r[j]
  BY <1>1, JoinIs
<1> HIDE DEF all
<1>3. all[Len(b) + i] = all[Len(b) + i - o]
  <2>1. CASE i - 1 < o
    <3>1. (i - 1) % o = i - 1
      BY <1>0, <2>1, Around
    <3>2. Len(b) - o + 1 + (i - 1) = Len(b) + i - o /\ Len(b) + i - o \in 1 .. Len(b)
      BY <1>0, <2>1
    <3> QED
      BY <1>1, <1>2, <3>1, <3>2, ZenonT(60)
  <2>2. CASE i - 1 >= o
    <3>1. (i - 1) % o = (i - 1 - o) % o
      BY <1>0, <2>2, Around
    <3>2. i - o \in 1 .. k /\ (i - o) - 1 = i - 1 - o /\ Len(b) + (i - o) = Len(b) + i - o
      BY <1>0, <2>2
    <3>3. r[i - o] = b[Len(b) - o + 1 + (((i - o) - 1) % o)] /\ all[Len(b) + (i - o)] = r[i - o]
      BY <1>1, <1>2, <3>2
    <3> QED
      BY <1>1, <1>2, <3>1, <3>2, <3>3, ZenonT(60)
  <2> QED
    BY <1>0, <2>1, <2>2
<1> QED
  BY <1>3 DEF all, r

LEMMA PeriodIsCopied ==
  ASSUME NEW g \in Seq(Nat), NEW o \in Nat, o >= 1, NEW t \in Nat, o <= t, NEW k \in Nat,
         t + k <= Len(g), \A p \in t + 1 .. t + k : g[p] = g[p - o]
  PROVE  \A i \in 1 .. k : g[t + i] = g[t - o + 1 + ((i - 1) % o)]
<1> DEFINE Differ == {i \in 1 .. k : g[t + i] # g[t - o + 1 + ((i - 1) % o)]}
<1> SUFFICES ASSUME Differ # {} PROVE FALSE
  OBVIOUS
<1>1. PICK i \in Differ : \A j \in Differ : i <= j
  <2>1. Differ \in SUBSET Nat
    OBVIOUS
  <2> HIDE DEF Differ
  <2> QED
    BY <2>1, Facts!LeastOfNat
<1>2. i \in 1 .. k /\ i - 1 \in Nat /\ g[t + i] = g[t + i - o]
  OBVIOUS
<1>3. CASE i - 1 < o
  <2>1. (i - 1) % o = i - 1
    BY <1>2, <1>3, Around
  <2>2. t - o + 1 + (i - 1) = t + i - o
    BY <1>2
  <2> QED
    BY <1>1, <1>2, <2>1, <2>2
<1>4. CASE i - 1 >= o
  <2>1. (i - 1) % o = (i - 1 - o) % o
    BY <1>2, <1>4, Around
  <2>2. i - o \in 1 .. k /\ i - o < i /\ (i - o) - 1 = i - 1 - o /\ t + (i - o) = t + i - o
    BY <1>2, <1>4
  <2>3. g[t + (i - o)] = g[t - o + 1 + (((i - o) - 1) % o)]
    <3> DEFINE j == i - o
    <3>1. j \in 1 .. k /\ j < i /\ i \in Nat /\ j \in Nat
      BY <1>2, <2>2
    <3> HIDE DEF j
    <3>2. j \notin Differ
      <4> HIDE DEF Differ
      <4> QED
        BY <1>1, <3>1
    <3>3. g[t + j] = g[t - o + 1 + ((j - 1) % o)]
      BY <3>1, <3>2
    <3> QED
      BY <3>3 DEF j
  <2> QED
    BY <1>1, <1>2, <2>1, <2>2, <2>3
<1> QED
  BY <1>2, <1>3, <1>4

\* Bytes that count, and others behind them, stored behind those that are there.
LEMMA StoreIs ==
  ASSUME NEW b \in Seq(Nat), NEW at \in Nat, NEW bytes \in Seq(Nat), NEW added \in Seq(Nat),
         at + Len(bytes) <= Len(b), Len(added) <= Len(bytes),
         \A i \in 1 .. Len(added) : bytes[i] = added[i]
  PROVE  /\ Overwrite(b, at, bytes) \in Seq(Nat) /\ Len(Overwrite(b, at, bytes)) = Len(b)
         /\ \A i \in 1 .. at : Overwrite(b, at, bytes)[i] = b[i]
         /\ \A i \in 1 .. Len(added) : Overwrite(b, at, bytes)[at + i] = added[i]
<1> DEFINE c == Overwrite(b, at, bytes)
<1>0. Len(bytes) \in Nat /\ Len(added) \in Nat
  OBVIOUS
<1>1. /\ c \in Seq(Nat) /\ Len(c) = Len(b)
      /\ \A i \in 1 .. at : c[i] = b[i]
      /\ \A i \in 1 .. Len(bytes) : c[at + i] = bytes[i]
  BY OverwriteIs
<1> HIDE DEF c
<1>2. \A i \in 1 .. Len(added) : c[at + i] = added[i]
  <2> TAKE i \in 1 .. Len(added)
  <2>1. i \in 1 .. Len(bytes)
    BY <1>0
  <2> QED
    BY <1>1, <2>1
<1> QED
  BY <1>1, <1>2 DEF c

LEMMA BlankIs ==
  ASSUME NEW n \in Nat
  PROVE  Blank(n) \in Seq(Nat) /\ Len(Blank(n)) = n
BY DEF Blank

\* The first bytes of what holds the bytes of b and then those of c.
LEMMA BeginsWith ==
  ASSUME NEW b \in Seq(Nat), NEW c \in Seq(Nat), NEW all \in Seq(Nat), NEW n \in Nat,
         n = Len(b) + Len(c), n <= Len(all),
         \A i \in 1 .. Len(b) : all[i] = b[i],
         \A i \in 1 .. Len(c) : all[Len(b) + i] = c[i]
  PROVE  SubSeq(all, 1, n) = b \o c
<1> DEFINE left == SubSeq(all, 1, n)
           right == b \o c
<1>0. Len(b) \in Nat /\ Len(c) \in Nat /\ Len(all) \in Nat
  OBVIOUS
<1>1. left \in Seq(Nat) /\ Len(left) = n /\ \A i \in 1 .. n : left[i] = all[i]
  BY <1>0, PartIs, SMTT(30)
<1>2. /\ right \in Seq(Nat) /\ Len(right) = n
      /\ \A i \in 1 .. Len(b) : right[i] = b[i]
      /\ \A i \in 1 .. Len(c) : right[Len(b) + i] = c[i]
  BY JoinIs
<1> HIDE DEF left, right
<1>3. ASSUME NEW i \in 1 .. n PROVE left[i] = right[i]
  <2>1. CASE i <= Len(b)
    <3>1. i \in 1 .. Len(b)
      BY <1>0, <2>1
    <3> QED
      BY <1>1, <1>2, <3>1
  <2>2. CASE i > Len(b)
    <3>1. i - Len(b) \in 1 .. Len(c) /\ Len(b) + (i - Len(b)) = i
      BY <1>0, <2>2
    <3> QED
      BY <1>1, <1>2, <3>1, ZenonT(60)
  <2> QED
    BY <1>0, <2>1, <2>2
<1>4. left = right
  BY <1>1, <1>2, <1>3, SameBytes
<1> QED
  BY <1>4 DEF left, right

-----------------------------------------------------------------------------
(* SnappyArrayWriter and SnappyDecompressionValidator *)

(***************************************************************************)
(* The inductive invariant: the array keeps its size, its first bytes are  *)
(* what the calls have written, and the validator has counted as many      *)
(* until both give up.                                                     *)
(***************************************************************************)
ArrayInv == /\ Array!TypeOK
            /\ Len(array) = arrayLimit
            /\ arrayDone = SubSeq(array, 1, arrayOp)
            /\ arrayRefused = invalid
            /\ ~arrayRefused => arrayProduced = arrayOp
            /\ arrayRefused => arrayCall = Array!NoCall

LEMMA ArrayCallIs ==
  ASSUME NEW c \in Array!Calls
  PROVE  /\ c.kind \in {"literal", "copy"} /\ c.offset \in Nat /\ c.len \in Nat
         /\ c.kind = "literal" => c.offset = 0
         /\ c # Array!NoCall
<1> USE WritersAssumption DEF Array!Calls, Array!Literals, Array!Copies, Array!NoCall
<1>1. CASE c \in Array!Literals
  BY <1>1
<1>2. CASE c \in Array!Copies
  BY <1>2
<1> QED
  BY <1>1, <1>2

LEMMA ArrayNumbers ==
  /\ ArrayLimits \subseteq Nat /\ ArrayWide \in Nat /\ ArrayWide >= 1
  /\ \A n \in ArrayLimits : n <= Array!MaxSize
  /\ Array!MaxSize \in Nat
<1>1. Array!MaxSize \in Nat
  BY SMT DEF Array!MaxSize
<1>2. ArrayWide \in Nat /\ ArrayWide >= 1 /\ ArrayLimits \subseteq 0 .. Array!MaxSize
  BY WritersAssumption
<1> QED
  BY <1>1, <1>2

LEMMA ArrayInitInv == Array!Init => ArrayInv
<1> SUFFICES ASSUME Array!Init PROVE ArrayInv
  OBVIOUS
<1>0. arrayLimit \in Nat
  BY ArrayNumbers DEF Array!Init
<1>1. array = Blank(arrayLimit) /\ array \in Seq(Nat) /\ Len(array) = arrayLimit
  BY <1>0, OneMemory, BlankIs DEF Array!Init
<1>2. SubSeq(array, 1, 0) = <<>>
  BY <1>1
<1>3. /\ arrayOp = 0 /\ arrayRefused = FALSE /\ arrayProduced = 0 /\ invalid = FALSE
      /\ arrayCall = Array!NoCall /\ arrayDone = <<>> /\ arrayLimit \in ArrayLimits
  BY DEF Array!Init
<1>4. arrayDone = SubSeq(array, 1, arrayOp)
  BY <1>2, <1>3
<1>5. arrayDone \in Seq(Nat)
  BY <1>3
<1>6. arrayOp \in 0 .. arrayLimit /\ arrayProduced \in Nat
  BY <1>0, <1>3
<1>7. arrayRefused \in BOOLEAN /\ invalid \in BOOLEAN
  BY <1>3
<1>8. arrayCall \in Array!Calls \cup {Array!NoCall}
  BY <1>3
<1>9. Array!TypeOK
  BY <1>1, <1>3, <1>5, <1>6, <1>7, <1>8 DEF Array!TypeOK
<1> QED
  BY <1>1, <1>3, <1>4, <1>9 DEF ArrayInv

\* The bytes of a literal, as in WriterCalls.
Literal(p, n) == [i \in 1 .. n |-> p + i]

LEMMA OneLiteral ==
  /\ \A p, n : /\ Array!LiteralBytes(p, n) = Literal(p, n)
               /\ IOVec!LiteralBytes(p, n) = Literal(p, n)
               /\ Blocks!LiteralBytes(p, n) = Literal(p, n)
  /\ \A p, n : /\ Array!WideBytes(p, n) = Literal(p, n) \o Blank(ArrayWide - n)
               /\ IOVec!WideBytes(p, n) = Literal(p, n) \o Blank(IOVecWide - n)
               /\ Blocks!WideBytes(p, n) = Literal(p, n) \o Blank(BlocksWide - n)
BY DEF Array!LiteralBytes, IOVec!LiteralBytes, Blocks!LiteralBytes, Literal,
       Array!WideBytes, IOVec!WideBytes, Blocks!WideBytes, Array!Blank, IOVec!Blank, Blocks!Blank, Blank

\* What the abstract writer adds to the content.
LEMMA WantedBytes ==
  /\ \A p, n : /\ Array!Writer!LiteralBytes(p, n) = Literal(p, n)
               /\ IOVec!Writer!LiteralBytes(p, n) = Literal(p, n)
               /\ Blocks!Writer!LiteralBytes(p, n) = Literal(p, n)
  /\ \A s, o, n : /\ Array!Writer!Repeated(s, o, n) = Repeated(s, o, n)
                  /\ IOVec!Writer!Repeated(s, o, n) = Repeated(s, o, n)
                  /\ Blocks!Writer!Repeated(s, o, n) = Repeated(s, o, n)
BY DEF Array!Writer!LiteralBytes, IOVec!Writer!LiteralBytes, Blocks!Writer!LiteralBytes, Literal,
       Array!Writer!Repeated, IOVec!Writer!Repeated, Blocks!Writer!Repeated, Repeated

LEMMA WantedCalls ==
  /\ Array!Writer!Calls = Array!Calls /\ Array!Writer!NoCall = Array!NoCall
  /\ IOVec!Writer!Calls = IOVec!Calls /\ IOVec!Writer!NoCall = IOVec!NoCall
  /\ Blocks!Writer!Calls = Blocks!Calls /\ Blocks!Writer!NoCall = Blocks!NoCall
BY DEF Array!Writer!Calls, Array!Writer!Literals, Array!Writer!Copies, Array!Writer!NoCall,
       Array!Calls, Array!Literals, Array!Copies, Array!NoCall,
       IOVec!Writer!Calls, IOVec!Writer!Literals, IOVec!Writer!Copies, IOVec!Writer!NoCall,
       IOVec!Calls, IOVec!Literals, IOVec!Copies, IOVec!NoCall,
       Blocks!Writer!Calls, Blocks!Writer!Literals, Blocks!Writer!Copies, Blocks!Writer!NoCall,
       Blocks!Calls, Blocks!Literals, Blocks!Copies, Blocks!NoCall

LEMMA LiteralIs ==
  ASSUME NEW p \in Nat, NEW n \in Nat
  PROVE  /\ Literal(p, n) \in Seq(Nat) /\ Len(Literal(p, n)) = n
         /\ \A i \in 1 .. n : Literal(p, n)[i] = p + i
BY DEF Literal

\* Bytes stored behind the first "at" ones.
LEMMA GrowsBy ==
  ASSUME NEW b \in Seq(Nat), NEW c \in Seq(Nat), NEW at \in Nat, NEW added \in Seq(Nat),
         Len(c) = Len(b), at + Len(added) <= Len(c),
         \A i \in 1 .. at : c[i] = b[i],
         \A i \in 1 .. Len(added) : c[at + i] = added[i]
  PROVE  SubSeq(c, 1, at + Len(added)) = SubSeq(b, 1, at) \o added
<1> DEFINE old == SubSeq(b, 1, at)
<1>0. Len(added) \in Nat /\ at <= Len(b) /\ Len(b) \in Nat
  OBVIOUS
<1>1. old \in Seq(Nat) /\ Len(old) = at /\ \A i \in 1 .. at : old[i] = b[i]
  BY <1>0, PartIs, SMTT(30)
<1> HIDE DEF old
<1> DEFINE n == at + Len(added)
<1>2. n \in Nat /\ n = Len(old) + Len(added) /\ n <= Len(c)
  BY <1>0, <1>1
<1>3. /\ \A i \in 1 .. Len(old) : c[i] = old[i]
      /\ \A i \in 1 .. Len(added) : c[Len(old) + i] = added[i]
  BY <1>1
<1> HIDE DEF n
<1>4. SubSeq(c, 1, n) = old \o added
  BY <1>1, <1>2, <1>3, BeginsWith, ZenonT(60)
<1> USE DEF n
<1> QED
  BY <1>4 DEF old

\* An accepted call adds the bytes that count.
LEMMA ArrayAccepts ==
  ASSUME ArrayInv, NEW bytes \in Seq(Nat), NEW added \in Seq(Nat),
         Len(added) = arrayCall.len, arrayOp + Len(bytes) <= arrayLimit, Len(added) <= Len(bytes),
         \A i \in 1 .. Len(added) : bytes[i] = added[i],
         Array!Accept(bytes)
  PROVE  /\ array' \in Seq(Nat) /\ Len(array') = arrayLimit
         /\ arrayOp' = arrayOp + arrayCall.len /\ arrayRefused' = arrayRefused
         /\ arrayDone' = SubSeq(array', 1, arrayOp')
         /\ arrayDone' = arrayDone \o added /\ arrayDone' \in Seq(Nat)
         /\ Len(arrayDone) = arrayOp
<1>0. /\ array \in Seq(Nat) /\ arrayOp \in Nat /\ Len(array) = arrayLimit /\ arrayOp <= arrayLimit
      /\ arrayDone = SubSeq(array, 1, arrayOp) /\ Len(array) \in Nat /\ Len(added) \in Nat
  BY ArrayNumbers DEF ArrayInv, Array!TypeOK
<1>1. /\ array' = Overwrite(array, arrayOp, bytes) /\ arrayOp' = arrayOp + arrayCall.len
      /\ arrayDone' = SubSeq(array', 1, arrayOp') /\ arrayRefused' = arrayRefused
  BY OneMemory DEF Array!Accept
<1>2. /\ array' \in Seq(Nat) /\ Len(array') = Len(array)
      /\ \A i \in 1 .. arrayOp : array'[i] = array[i]
      /\ \A i \in 1 .. Len(added) : array'[arrayOp + i] = added[i]
  <2>1. arrayOp + Len(bytes) <= Len(array)
    BY <1>0
  <2> DEFINE c == Overwrite(array, arrayOp, bytes)
  <2>2. /\ c \in Seq(Nat) /\ Len(c) = Len(array)
        /\ \A i \in 1 .. arrayOp : c[i] = array[i]
        /\ \A i \in 1 .. Len(added) : c[arrayOp + i] = added[i]
    BY <1>0, <2>1, StoreIs, ZenonT(60)
  <2> HIDE DEF c
  <2>3. array' = c
    BY <1>1 DEF c
  <2> QED
    BY <2>2, <2>3
<1>3. arrayOp + Len(added) <= Len(array) /\ Len(bytes) \in Nat
  BY <1>0
<1>4. SubSeq(array', 1, arrayOp + Len(added)) = arrayDone \o added
  <2>1. /\ array \in Seq(Nat) /\ array' \in Seq(Nat) /\ arrayOp \in Nat /\ added \in Seq(Nat)
        /\ Len(array') = Len(array) /\ arrayOp + Len(added) <= Len(array')
    BY <1>0, <1>2, <1>3
  <2>2. SubSeq(array', 1, arrayOp + Len(added)) = SubSeq(array, 1, arrayOp) \o added
    BY <1>2, <2>1, GrowsBy, ZenonT(60)
  <2> QED
    BY <1>0, <2>2, Zenon
<1>5. arrayDone \in Seq(Nat) /\ Len(arrayDone) = arrayOp
  BY <1>0, PartIs
<1>6. arrayDone \o added \in Seq(Nat)
  BY <1>5
<1> QED
  BY <1>0, <1>1, <1>2, <1>4, <1>5, <1>6

\* A step of the array writer is one of the abstract writer, or none.
ArraySteps == ArrayInv' /\ [Array!Writer!Next]_(Array!Writer!vars)

LEMMA ArrayCalls ==
  ASSUME ArrayInv, NEW c \in Array!Calls, Array!Call(c)
  PROVE  ArraySteps
<1>1. /\ arrayCall = Array!NoCall /\ arrayCall' = c /\ ~arrayRefused
      /\ UNCHANGED <<array, arrayOp, arrayLimit, arrayRefused, arrayProduced, invalid, arrayDone>>
  BY DEF Array!Call
<1>2. arrayCall' \in Array!Calls \cup {Array!NoCall}
  BY <1>1
<1>3. ArrayInv'
  BY <1>1, <1>2 DEF ArrayInv, Array!TypeOK
<1>4. Array!Writer!Call(c)
  BY <1>1, WantedCalls DEF Array!Writer!Call
<1> QED
  BY <1>3, <1>4, WantedCalls DEF ArraySteps, Array!Writer!Next

\* What both writers do with a call that the array writer accepts.
LEMMA ArrayTakes ==
  ASSUME ArrayInv, arrayCall \in Array!Calls, NEW bytes \in Seq(Nat), NEW added \in Seq(Nat),
         Len(added) = arrayCall.len, arrayOp + Len(bytes) <= arrayLimit, Len(added) <= Len(bytes),
         \A i \in 1 .. Len(added) : bytes[i] = added[i],
         ~arrayRefused, Array!Accept(bytes), Array!Count, Array!Finish,
         arrayCall.kind = "literal" => added = Literal(arrayOp, arrayCall.len),
         arrayCall.kind = "copy" => /\ arrayCall.offset \in 1 .. arrayOp
                                    /\ added = Repeated(arrayDone, arrayCall.offset, arrayCall.len)
  PROVE  ArraySteps
<1>1. /\ array' \in Seq(Nat) /\ Len(array') = arrayLimit
      /\ arrayOp' = arrayOp + arrayCall.len /\ arrayRefused' = arrayRefused
      /\ arrayDone' = SubSeq(array', 1, arrayOp')
      /\ arrayDone' = arrayDone \o added /\ arrayDone' \in Seq(Nat)
      /\ Len(arrayDone) = arrayOp
  BY ArrayAccepts
<1>2. /\ arrayCall.kind \in {"literal", "copy"} /\ arrayCall.len \in Nat /\ arrayCall # Array!NoCall
  BY ArrayCallIs
<1>3. /\ arrayLimit \in ArrayLimits /\ arrayLimit \in Nat /\ arrayOp \in 0 .. arrayLimit
      /\ arrayRefused \in BOOLEAN /\ arrayRefused = invalid /\ arrayProduced = arrayOp
  BY ArrayNumbers DEF ArrayInv, Array!TypeOK
<1>4. arrayOp + arrayCall.len <= arrayLimit /\ Len(bytes) \in Nat
  BY <1>2, <1>3
<1>5. /\ arrayProduced' = arrayOp + arrayCall.len /\ invalid' = (arrayProduced' > arrayLimit)
      /\ arrayCall' = Array!NoCall /\ arrayLimit' = arrayLimit
  BY <1>3 DEF Array!Count, Array!Finish
<1>6. invalid' = FALSE
  BY <1>2, <1>3, <1>4, <1>5
<1>7. arrayOp' \in 0 .. arrayLimit' /\ arrayProduced' \in Nat
  BY <1>1, <1>2, <1>3, <1>4, <1>5
<1>8. Array!TypeOK'
  <2>1. arrayCall' \in Array!Calls \cup {Array!NoCall}
    BY <1>5
  <2> QED
    BY <1>1, <1>3, <1>5, <1>6, <1>7, <2>1 DEF Array!TypeOK
<1>9. ArrayInv'
  BY <1>1, <1>3, <1>5, <1>6, <1>8 DEF ArrayInv
<1>10. Array!Writer!Legal
  BY <1>1, <1>3, <1>4 DEF Array!Writer!Legal
<1>11. added = IF arrayCall.kind = "literal" THEN Literal(Len(arrayDone), arrayCall.len)
               ELSE Repeated(arrayDone, arrayCall.offset, arrayCall.len)
  BY <1>1, <1>2
<1>12. Array!Writer!Succeed
  BY <1>1, <1>2, <1>3, <1>5, <1>10, <1>11, WantedBytes, WantedCalls DEF Array!Writer!Succeed
<1> QED
  BY <1>9, <1>12 DEF ArraySteps, Array!Writer!Next

\* What both do with a call that the array writer refuses.
LEMMA ArrayGivesUp ==
  ASSUME ArrayInv, arrayCall \in Array!Calls, ~arrayRefused, Array!Refuse, Array!Finish,
         invalid' = TRUE, arrayProduced' \in Nat,
         \/ arrayOp + arrayCall.len > arrayLimit
         \/ arrayCall.kind = "copy" /\ arrayCall.offset \notin 1 .. arrayOp
  PROVE  ArraySteps
<1>1. /\ arrayRefused' = TRUE /\ UNCHANGED <<array, arrayOp, arrayDone, arrayLimit>>
      /\ arrayCall' = Array!NoCall
  BY DEF Array!Refuse, Array!Finish
<1>2. ArrayInv'
  BY <1>1 DEF ArrayInv, Array!TypeOK
<1>3. arrayCall # Array!NoCall
  BY ArrayCallIs
<1>4. Len(arrayDone) = arrayOp
  <2>1. array \in Seq(Nat) /\ arrayOp \in Nat /\ arrayOp <= Len(array) /\ Len(array) \in Nat
        /\ arrayDone = SubSeq(array, 1, arrayOp)
    BY ArrayNumbers DEF ArrayInv, Array!TypeOK
  <2> QED
    BY <2>1, PartIs
<1>5. ~Array!Writer!Legal
  <2>1. arrayOp \in Nat /\ arrayLimit \in Nat /\ arrayCall.len \in Nat
    BY ArrayNumbers, ArrayCallIs DEF ArrayInv, Array!TypeOK
  <2> QED
    BY <1>4, <2>1 DEF Array!Writer!Legal
<1>6. Array!Writer!Fail
  BY <1>1, <1>3, <1>5, WantedCalls DEF Array!Writer!Fail
<1> QED
  BY <1>2, <1>6 DEF ArraySteps, Array!Writer!Next

LEMMA ArrayStep == ArrayInv /\ [Array!Next]_Array!vars => ArraySteps
<1> SUFFICES ASSUME ArrayInv, [Array!Next]_Array!vars PROVE ArraySteps
  OBVIOUS
<1>0. /\ arrayLimit \in ArrayLimits /\ arrayLimit \in Nat /\ arrayOp \in 0 .. arrayLimit
      /\ array \in Seq(Nat) /\ Len(array) = arrayLimit
      /\ arrayDone = SubSeq(array, 1, arrayOp) /\ arrayDone \in Seq(Nat) /\ arrayProduced \in Nat
      /\ arrayRefused \in BOOLEAN /\ arrayRefused = invalid
      /\ ~arrayRefused => arrayProduced = arrayOp
      /\ arrayRefused => arrayCall = Array!NoCall
      /\ arrayCall \in Array!Calls \cup {Array!NoCall}
      /\ arrayLimit <= Array!MaxSize /\ Array!MaxSize \in Nat
      /\ ArrayWide \in Nat
  BY ArrayNumbers DEF ArrayInv, Array!TypeOK
<1>1. ASSUME NEW c \in Array!Calls, Array!Call(c) PROVE ArraySteps
  BY <1>1, ArrayCalls
<1>2. ASSUME arrayCall.kind \in {"literal", "copy"}
      PROVE  /\ arrayCall \in Array!Calls /\ ~arrayRefused
             /\ arrayCall.len \in Nat /\ arrayCall.offset \in Nat
  <2>1. arrayCall # Array!NoCall
    BY <1>2 DEF Array!NoCall
  <2> QED
    BY <1>0, <2>1, ArrayCallIs
<1>3. ASSUME Array!Count, arrayCall.kind \in {"literal", "copy"}
      PROVE  /\ arrayProduced' = arrayOp + arrayCall.len /\ arrayProduced' \in Nat
             /\ arrayOp + arrayCall.len > arrayLimit => invalid' = TRUE
  <2>1. arrayProduced' = arrayProduced + arrayCall.len /\ invalid' = (arrayProduced' > arrayLimit)
    BY <1>3 DEF Array!Count
  <2>2. arrayProduced' = arrayOp + arrayCall.len /\ arrayProduced' \in Nat
    BY <1>0, <1>2, <1>3, <2>1
  <2> QED
    BY <2>1, <2>2
<1>4. CASE Array!Append_
  <2>1. arrayCall.kind = "literal" /\ Array!Count /\ Array!Finish
    BY <1>4 DEF Array!Append_
  <2>2. arrayCall \in Array!Calls /\ ~arrayRefused /\ arrayCall.len \in Nat
    BY <1>2, <2>1
  <2>3. CASE arrayLimit - arrayOp < arrayCall.len
    <3>1. Array!Refuse
      BY <1>4, <2>3 DEF Array!Append_
    <3>2. arrayOp + arrayCall.len > arrayLimit
      BY <1>0, <2>2, <2>3
    <3> QED
      BY <1>3, <2>1, <2>2, <3>1, <3>2, ArrayGivesUp
  <2>4. CASE ~(arrayLimit - arrayOp < arrayCall.len)
    <3> DEFINE added == Literal(arrayOp, arrayCall.len)
    <3>1. Array!Accept(added)
      BY <1>4, <2>4, OneLiteral DEF Array!Append_
    <3>2. added \in Seq(Nat) /\ Len(added) = arrayCall.len
      BY <1>0, <2>2, LiteralIs
    <3>3. added = Literal(arrayOp, arrayCall.len)
      OBVIOUS
    <3> HIDE DEF added
    <3>4. arrayOp + Len(added) <= arrayLimit /\ Len(added) <= Len(added)
      BY <1>0, <2>2, <2>4, <3>2
    <3> QED
      BY <2>1, <2>2, <3>1, <3>2, <3>3, <3>4, ArrayTakes
  <2> QED
    BY <2>3, <2>4
<1>5. CASE Array!TryFastAppend
  <2>1. arrayCall.kind = "literal" /\ Array!Count /\ Array!Finish
    BY <1>5 DEF Array!TryFastAppend
  <2>2. arrayCall \in Array!Calls /\ ~arrayRefused /\ arrayCall.len \in Nat
    BY <1>2, <2>1
  <2>3. arrayCall.len <= ArrayWide /\ arrayLimit - arrayOp >= ArrayWide
    BY <1>5 DEF Array!TryFastAppend, Array!FastRoom
  <2> DEFINE added == Literal(arrayOp, arrayCall.len)
             bytes == added \o Blank(ArrayWide - arrayCall.len)
  <2>4. Array!Accept(bytes)
    BY <1>5, OneLiteral DEF Array!TryFastAppend
  <2>5. added \in Seq(Nat) /\ Len(added) = arrayCall.len
    BY <1>0, <2>2, LiteralIs
  <2>6. added = Literal(arrayOp, arrayCall.len)
    OBVIOUS
  <2> HIDE DEF added
  <2>7. ArrayWide - arrayCall.len \in Nat
    BY <1>0, <2>2, <2>3
  <2>8. Blank(ArrayWide - arrayCall.len) \in Seq(Nat) /\ Len(Blank(ArrayWide - arrayCall.len)) = ArrayWide - arrayCall.len
    BY <2>7, BlankIs
  <2>9. bytes \in Seq(Nat) /\ Len(bytes) = Len(added) + (ArrayWide - arrayCall.len)
        /\ \A i \in 1 .. Len(added) : bytes[i] = added[i]
    BY <2>5, <2>8, JoinIs, SMTT(30)
  <2> HIDE DEF bytes
  <2>10. arrayOp + Len(bytes) <= arrayLimit /\ Len(added) <= Len(bytes)
    BY <1>0, <2>2, <2>3, <2>5, <2>9
  <2> QED
    BY <2>1, <2>2, <2>4, <2>5, <2>6, <2>9, <2>10, ArrayTakes
<1>6. CASE Array!AppendFromSelf
  <2>1. arrayCall.kind = "copy" /\ Array!Finish /\ Array!ArrayCopy /\ Array!ValidatorCopy
    BY <1>6 DEF Array!AppendFromSelf
  <2>2. /\ arrayCall \in Array!Calls /\ ~arrayRefused
        /\ arrayCall.len \in Nat /\ arrayCall.offset \in Nat
    BY <1>2, <2>1
  <2>3. arrayOp <= Array!Minus1u(arrayCall.offset) <=> arrayCall.offset \notin 1 .. arrayOp
    <3>1. CASE arrayCall.offset = 0
      <4>1. Array!Minus1u(arrayCall.offset) = Array!MaxSize
        BY <3>1 DEF Array!Minus1u
      <4> QED
        BY <1>0, <3>1, <4>1
    <3>2. CASE arrayCall.offset # 0
      <4>1. Array!Minus1u(arrayCall.offset) = arrayCall.offset - 1
        BY <3>2 DEF Array!Minus1u
      <4> QED
        BY <1>0, <2>2, <3>2, <4>1
    <3> QED
      BY <3>1, <3>2
  <2>4. arrayProduced = arrayOp
    BY <1>0, <2>2
  <2>5. CASE arrayCall.offset \notin 1 .. arrayOp
    <3>1. Array!Refuse
      BY <2>1, <2>3, <2>5 DEF Array!ArrayCopy
    <3>2. invalid' = TRUE /\ arrayProduced' = arrayProduced
      BY <2>1, <2>3, <2>4, <2>5 DEF Array!ValidatorCopy
    <3> QED
      BY <1>0, <2>1, <2>2, <2>5, <3>1, <3>2, ArrayGivesUp
  <2>6. CASE arrayCall.offset \in 1 .. arrayOp /\ arrayOp + arrayCall.len > arrayLimit
    <3>1. Array!Refuse
      BY <2>1, <2>3, <2>6 DEF Array!ArrayCopy
    <3>2. Array!Count
      BY <2>1, <2>3, <2>4, <2>6 DEF Array!ValidatorCopy
    <3> QED
      BY <1>3, <2>1, <2>2, <2>6, <3>1, <3>2, ArrayGivesUp
  <2>7. CASE arrayCall.offset \in 1 .. arrayOp /\ ~(arrayOp + arrayCall.len > arrayLimit)
    <3>1. Array!Count
      BY <2>1, <2>3, <2>4, <2>7 DEF Array!ValidatorCopy
    <3>2. PICK slop \in 0 .. arrayLimit - arrayOp - arrayCall.len :
             Array!Accept(Array!CopyBytes(slop))
      BY <2>1, <2>3, <2>7 DEF Array!ArrayCopy
    <3> DEFINE added == Repeated(arrayDone, arrayCall.offset, arrayCall.len)
               bytes == added \o Blank(slop)
    <3>3. Array!Accept(bytes)
      BY <1>0, <3>2, OneMemory DEF Array!CopyBytes
    <3>4. Len(arrayDone) = arrayOp
      BY <1>0, PartIs
    <3>5. added \in Seq(Nat) /\ Len(added) = arrayCall.len
      <4>1. /\ arrayDone \in Seq(Nat) /\ arrayCall.offset \in Nat /\ arrayCall.len \in Nat
            /\ arrayCall.offset >= 1 /\ arrayCall.offset <= Len(arrayDone)
        BY <1>0, <2>2, <2>7, <3>4
      <4> QED
        BY <4>1, RepeatedIs
    <3>6. added = Repeated(arrayDone, arrayCall.offset, arrayCall.len)
      OBVIOUS
    <3> HIDE DEF added
    <3>7. slop \in Nat /\ arrayOp + arrayCall.len + slop <= arrayLimit
      BY <1>0, <2>2, <2>7, <3>2
    <3>8. Blank(slop) \in Seq(Nat) /\ Len(Blank(slop)) = slop
      BY <3>7, BlankIs
    <3>9. bytes \in Seq(Nat) /\ Len(bytes) = Len(added) + slop
          /\ \A i \in 1 .. Len(added) : bytes[i] = added[i]
      <4> DEFINE more == Blank(slop)
      <4>1. more \in Seq(Nat) /\ Len(more) = slop
        BY <3>8
      <4> HIDE DEF more
      <4>2. /\ added \o more \in Seq(Nat) /\ Len(added \o more) = Len(added) + slop
            /\ \A i \in 1 .. Len(added) : (added \o more)[i] = added[i]
        BY <3>5, <4>1, JoinIs
      <4> QED
        BY <4>2 DEF more
    <3> HIDE DEF bytes
    <3>10. arrayOp + Len(bytes) <= arrayLimit /\ Len(added) <= Len(bytes)
      BY <1>0, <2>2, <3>5, <3>7, <3>9
    <3> QED
      BY <2>1, <2>2, <2>7, <3>1, <3>3, <3>5, <3>6, <3>9, <3>10, ArrayTakes
  <2> QED
    BY <2>5, <2>6, <2>7
<1>7. CASE UNCHANGED Array!vars
  <2>1. ArrayInv'
    BY <1>7 DEF ArrayInv, Array!TypeOK, Array!vars
  <2>2. UNCHANGED Array!Writer!vars
    BY <1>7 DEF Array!Writer!vars, Array!vars
  <2> QED
    BY <2>1, <2>2 DEF ArraySteps
<1> QED
  BY <1>1, <1>4, <1>5, <1>6, <1>7 DEF Array!Next, Array!Stopped

-----------------------------------------------------------------------------
(* Lengths and contents of buffers, one after the other *)

\* Where n turns lead from z.
Turns(f, S, z, n, take) == /\ f \in [0 .. n -> S]
                           /\ f[0] = z /\ \A k \in 1 .. n : f[k] = take[k][f[k - 1]]

LEMMA Iterates ==
  ASSUME NEW S, NEW z \in S, NEW n \in Nat, NEW take \in [1 .. n -> [S -> S]]
  PROVE  \E f : Turns(f, S, z, n, take)
<1> DEFINE Good(f, m) == f[0] = z /\ \A k \in 1 .. m : f[k] = take[k][f[k - 1]]
           Bad == {m \in 0 .. n : ~ \E f \in [0 .. m -> S] : Good(f, m)}
<1>1. SUFFICES Bad = {}
  <2>1. n \in 0 .. n /\ n \notin Bad
    <3> HIDE DEF Bad
    <3> QED
      BY <1>1
  <2>2. \E f \in [0 .. n -> S] : Good(f, n)
    BY <2>1
  <2> QED
    BY <2>2 DEF Turns
<1>2. SUFFICES ASSUME Bad # {} PROVE FALSE
  OBVIOUS
<1>3. PICK m \in Bad : \A j \in Bad : m <= j
  <2>1. Bad \in SUBSET Nat
    OBVIOUS
  <2> HIDE DEF Bad
  <2> QED
    BY <1>2, <2>1, Facts!LeastOfNat
<1>4. m \in 0 .. n /\ ~ \E f \in [0 .. m -> S] : Good(f, m)
  OBVIOUS
<1>5. CASE m = 0
  <2> DEFINE f == [k \in 0 .. m |-> z]
  <2>1. f \in [0 .. m -> S] /\ Good(f, m)
    BY <1>5
  <2> HIDE DEF f
  <2> QED
    BY <1>4, <2>1
<1>6. CASE m # 0
  <2>1. m - 1 \in 0 .. n /\ m \in 1 .. n /\ ~(m <= m - 1)
    BY <1>4, <1>6
  <2>2. m - 1 \notin Bad
    <3> HIDE DEF Bad
    <3> QED
      BY <1>3, <2>1
  <2>3. PICK f \in [0 .. m - 1 -> S] : Good(f, m - 1)
    BY <2>1, <2>2
  <2> DEFINE g == [k \in 0 .. m |-> IF k = m THEN take[m][f[m - 1]] ELSE f[k]]
  <2>4. take[m] \in [S -> S] /\ f[m - 1] \in S
    BY <2>1, <2>3
  <2>5. take[m][f[m - 1]] \in S
    BY <2>4
  <2>6. \A k \in 0 .. m - 1 : f[k] \in S /\ k # m
    BY <2>1, <2>3
  <2>7. g \in [0 .. m -> S]
    <3>1. ASSUME NEW k \in 0 .. m PROVE (IF k = m THEN take[m][f[m - 1]] ELSE f[k]) \in S
      <4>1. k # m => k \in 0 .. m - 1
        BY <2>1
      <4> QED
        BY <2>5, <2>6, <4>1
    <3> QED
      BY <3>1
  <2>8. g[m] = take[m][f[m - 1]] /\ \A k \in 0 .. m - 1 : g[k] = f[k]
    <3>1. m \in 0 .. m /\ \A k \in 0 .. m - 1 : k \in 0 .. m /\ k # m
      BY <2>1
    <3> QED
      BY <3>1
  <2> HIDE DEF g
  <2>9. Good(g, m)
    <3>1. 0 \in 0 .. m - 1 /\ m - 1 \in 0 .. m - 1
      BY <2>1
    <3>2. g[0] = z /\ g[m] = take[m][g[m - 1]]
      BY <2>3, <2>8, <3>1
    <3>3. ASSUME NEW k \in 1 .. m, k # m PROVE g[k] = take[k][g[k - 1]]
      <4>1. k \in 0 .. m - 1 /\ k - 1 \in 0 .. m - 1 /\ k \in 1 .. m - 1
        BY <2>1, <3>3
      <4> QED
        BY <2>3, <2>8, <4>1
    <3> QED
      BY <3>2, <3>3
  <2> QED
    BY <1>4, <2>7, <2>9
<1> QED
  BY <1>5, <1>6

\* As Before and Flat of the writers: the sums of the first elements of l, and the
\* first n elements of v put together.
Sum(l) == CHOOSE f : f = [k \in 0 .. Len(l) |-> IF k = 0 THEN 0 ELSE f[k - 1] + l[k]]
Joined(v, n) == CHOOSE f : f = [k \in 0 .. n |-> IF k = 0 THEN <<>> ELSE f[k - 1] \o v[k]]

LEMMA SumIs ==
  ASSUME NEW l \in Seq(Nat)
  PROVE  /\ Sum(l) \in [0 .. Len(l) -> Nat] /\ Sum(l)[0] = 0
         /\ \A k \in 1 .. Len(l) : Sum(l)[k] = Sum(l)[k - 1] + l[k]
<1> DEFINE n == Len(l)
           take == [k \in 1 .. n |-> [x \in Nat |-> x + l[k]]]
           Body(f, k) == IF k = 0 THEN 0 ELSE f[k - 1] + l[k]
<1>0. n \in Nat /\ \A k \in 1 .. n : l[k] \in Nat
  OBVIOUS
<1>1. take \in [1 .. n -> [Nat -> Nat]]
  BY <1>0
<1>2. \A k \in 1 .. n : \A x \in Nat : take[k][x] = x + l[k]
  OBVIOUS
<1> HIDE DEF take
<1>3. PICK f \in [0 .. n -> Nat] : f[0] = 0 /\ \A k \in 1 .. n : f[k] = take[k][f[k - 1]]
  <2> HIDE DEF n
  <2>1. 0 \in Nat /\ n \in Nat
    BY <1>0
  <2>2. \E f : Turns(f, Nat, 0, n, take)
    BY <1>1, <2>1, Iterates
  <2> QED
    BY <2>2 DEF Turns
<1>4. \A k \in 1 .. n : k - 1 \in 0 .. n /\ f[k] = f[k - 1] + l[k]
  <2> TAKE k \in 1 .. n
  <2>1. k - 1 \in 0 .. n
    BY <1>0
  <2>2. f[k - 1] \in Nat
    BY <1>3, <2>1
  <2> QED
    BY <1>2, <1>3, <2>1, <2>2
<1>5. f = [k \in 0 .. n |-> Body(f, k)]
  <2>1. ASSUME NEW k \in 0 .. n PROVE f[k] = Body(f, k)
    BY <1>0, <1>3, <1>4
  <2> QED
    BY <1>3, <2>1
<1>6. Sum(l) = [k \in 0 .. n |-> Body(Sum(l), k)]
  <2> DEFINE sum == CHOOSE g : g = [k \in 0 .. n |-> Body(g, k)]
  <2>1. sum = [k \in 0 .. n |-> Body(sum, k)]
    <3> HIDE DEF Body
    <3> QED
      BY <1>5
  <2>2. Sum(l) = sum
    BY DEF Sum
  <2> HIDE DEF sum
  <2> QED
    BY <2>1, <2>2
<1> DEFINE s == Sum(l)
<1> HIDE DEF s
<1>7. s = [k \in 0 .. n |-> Body(s, k)]
  BY <1>6 DEF s
<1>8. s[0] = 0 /\ \A k \in 1 .. n : s[k] = s[k - 1] + l[k]
  <2>1. \A k \in 0 .. n : s[k] = Body(s, k)
    BY <1>7
  <2>2. 0 \in 0 .. n /\ \A k \in 1 .. n : k \in 0 .. n /\ k # 0
    BY <1>0
  <2> QED
    BY <2>1, <2>2
<1>9. \A k \in 0 .. n : s[k] = f[k]
  <2> DEFINE Differ == {k \in 0 .. n : s[k] # f[k]}
  <2> SUFFICES ASSUME Differ # {} PROVE FALSE
    OBVIOUS
  <2>1. PICK k \in Differ : \A j \in Differ : k <= j
    <3>1. Differ \in SUBSET Nat
      OBVIOUS
    <3> HIDE DEF Differ
    <3> QED
      BY <3>1, Facts!LeastOfNat
  <2>2. k \in 0 .. n /\ s[k] # f[k]
    OBVIOUS
  <2>3. k # 0
    BY <1>3, <1>8, <2>2
  <2>4. k \in 1 .. n /\ k - 1 \in 0 .. n /\ ~(k <= k - 1)
    BY <1>0, <2>2, <2>3
  <2>5. k - 1 \notin Differ
    <3> HIDE DEF Differ
    <3> QED
      BY <2>1, <2>4
  <2>6. s[k - 1] = f[k - 1]
    BY <2>4, <2>5
  <2> QED
    BY <1>4, <1>8, <2>2, <2>4, <2>6
<1>10. s \in [0 .. n -> Nat]
  <2>1. \A k \in 0 .. n : s[k] \in Nat
    BY <1>3, <1>9
  <2> QED
    BY <1>7, <2>1
<1> QED
  BY <1>8, <1>10 DEF s

LEMMA SumGrows ==
  ASSUME NEW l \in Seq(Nat), NEW i \in 0 .. Len(l), NEW j \in 0 .. Len(l), i <= j
  PROVE  Sum(l)[i] <= Sum(l)[j]
<1> DEFINE n == Len(l)
           s == Sum(l)
           Less == {k \in i .. n : s[k] < s[i]}
<1>0. n \in Nat /\ i \in Nat /\ j \in i .. n /\ \A k \in 1 .. n : l[k] \in Nat
  OBVIOUS
<1>1. s \in [0 .. n -> Nat] /\ \A k \in 1 .. n : s[k] = s[k - 1] + l[k]
  BY SumIs
<1>2. s[i] \in Nat /\ s[j] \in Nat
  BY <1>0, <1>1
<1> HIDE DEF s, n
<1>3. Less = {}
  <2> SUFFICES ASSUME Less # {} PROVE FALSE
    OBVIOUS
  <2>1. PICK k \in Less : \A m \in Less : k <= m
    <3>1. Less \in SUBSET Nat
      BY <1>0
    <3> HIDE DEF Less
    <3> QED
      BY <3>1, Facts!LeastOfNat
  <2>2. k \in i .. n /\ s[k] < s[i]
    OBVIOUS
  <2>3. k # i
    BY <1>2, <2>2
  <2>4. k \in 1 .. n /\ k - 1 \in i .. n /\ k - 1 \in 0 .. n /\ k \in 0 .. n /\ ~(k <= k - 1)
    BY <1>0, <2>2, <2>3
  <2>5. k - 1 \notin Less
    <3> HIDE DEF Less
    <3> QED
      BY <2>1, <2>4
  <2>6. ~(s[k - 1] < s[i])
    BY <2>4, <2>5
  <2>7. s[k] = s[k - 1] + l[k] /\ s[k - 1] \in Nat /\ l[k] \in Nat
    BY <1>0, <1>1, <2>4
  <2> QED
    BY <1>2, <2>2, <2>6, <2>7, SMTT(30)
<1>4. ~(s[j] < s[i])
  BY <1>0, <1>3
<1> QED
  BY <1>2, <1>4 DEF s

LEMMA JoinedIs ==
  ASSUME NEW v \in Seq(Seq(Nat)), NEW n \in Nat, n <= Len(v)
  PROVE  /\ Joined(v, n) \in [0 .. n -> Seq(Nat)] /\ Joined(v, n)[0] = <<>>
         /\ \A k \in 1 .. n : Joined(v, n)[k] = Joined(v, n)[k - 1] \o v[k]
<1> DEFINE S == Seq(Nat)
           take == [k \in 1 .. n |-> [x \in S |-> x \o v[k]]]
           Body(f, k) == IF k = 0 THEN <<>> ELSE f[k - 1] \o v[k]
<1>0. \A k \in 1 .. n : v[k] \in S
  OBVIOUS
<1>1. /\ \A k \in 1 .. n : \A x \in S : x \o v[k] \in S
      /\ <<>> \in S
  BY <1>0
<1> HIDE DEF S
<1>2. take \in [1 .. n -> [S -> S]]
  BY <1>1
<1>3. \A k \in 1 .. n : \A x \in S : take[k][x] = x \o v[k]
  OBVIOUS
<1> HIDE DEF take
<1>4. PICK f : f \in [0 .. n -> S] /\ f[0] = <<>> /\ \A k \in 1 .. n : f[k] = take[k][f[k - 1]]
  <2>1. \E f : Turns(f, S, <<>>, n, take)
    BY <1>1, <1>2, Iterates
  <2> QED
    BY <2>1 DEF Turns
<1>5. \A k \in 1 .. n : k - 1 \in 0 .. n /\ f[k] = f[k - 1] \o v[k]
  <2> TAKE k \in 1 .. n
  <2>1. k - 1 \in 0 .. n
    OBVIOUS
  <2>2. f[k - 1] \in S
    BY <1>4, <2>1
  <2> QED
    BY <1>3, <1>4, <2>1, <2>2
<1>6. f = [k \in 0 .. n |-> Body(f, k)]
  <2>1. ASSUME NEW k \in 0 .. n PROVE f[k] = Body(f, k)
    <3>1. k # 0 => k \in 1 .. n
      OBVIOUS
    <3> QED
      BY <1>4, <1>5, <3>1
  <2> QED
    BY <1>4, <2>1
<1>7. Joined(v, n) = [k \in 0 .. n |-> Body(Joined(v, n), k)]
  <2> DEFINE all == CHOOSE g : g = [k \in 0 .. n |-> Body(g, k)]
  <2>1. all = [k \in 0 .. n |-> Body(all, k)]
    <3> HIDE DEF Body
    <3> QED
      BY <1>6
  <2>2. Joined(v, n) = all
    BY DEF Joined
  <2> HIDE DEF all
  <2> QED
    BY <2>1, <2>2
<1> DEFINE s == Joined(v, n)
<1> HIDE DEF s
<1>8. s = [k \in 0 .. n |-> Body(s, k)]
  BY <1>7 DEF s
<1>9. s[0] = <<>> /\ \A k \in 1 .. n : s[k] = s[k - 1] \o v[k]
  <2>1. \A k \in 0 .. n : s[k] = Body(s, k)
    BY <1>8
  <2>2. 0 \in 0 .. n /\ \A k \in 1 .. n : k \in 0 .. n /\ k # 0
    OBVIOUS
  <2> QED
    BY <2>1, <2>2
<1>10. \A k \in 0 .. n : s[k] = f[k]
  <2> DEFINE Differ == {k \in 0 .. n : s[k] # f[k]}
  <2> SUFFICES ASSUME Differ # {} PROVE FALSE
    OBVIOUS
  <2>1. PICK k \in Differ : \A j \in Differ : k <= j
    <3>1. Differ \in SUBSET Nat
      OBVIOUS
    <3> HIDE DEF Differ
    <3> QED
      BY <3>1, Facts!LeastOfNat
  <2>2. k \in 0 .. n /\ s[k] # f[k]
    OBVIOUS
  <2>3. k # 0
    BY <1>4, <1>9, <2>2
  <2>4. k \in 1 .. n /\ k - 1 \in 0 .. n /\ ~(k <= k - 1)
    BY <2>2, <2>3
  <2>5. k - 1 \notin Differ
    <3> HIDE DEF Differ
    <3> QED
      BY <2>1, <2>4
  <2>6. s[k - 1] = f[k - 1]
    BY <2>4, <2>5
  <2>7. f[k] = f[k - 1] \o v[k] /\ s[k] = s[k - 1] \o v[k]
    BY <1>5, <1>9, <2>4
  <2> QED
    BY <2>2, <2>6, <2>7
<1>11. s \in [0 .. n -> S]
  <2>1. \A k \in 0 .. n : s[k] \in S
    BY <1>4, <1>10
  <2> QED
    BY <1>8, <2>1
<1> QED
  BY <1>9, <1>11 DEF s, S

\* Buffers of the lengths l whose bytes v are those of g, in order, put together.
LEMMA JoinedHolds ==
  ASSUME NEW l \in Seq(Nat), NEW v \in Seq(Seq(Nat)), Len(v) = Len(l),
         \A i \in 1 .. Len(l) : Len(v[i]) = l[i],
         NEW g \in Seq(Nat), NEW c \in 0 .. Len(l), Sum(l)[c] <= Len(g),
         \A i \in 1 .. c : \A x \in 1 .. l[i] : v[i][x] = g[Sum(l)[i - 1] + x]
  PROVE  Joined(v, Len(l))[c] = SubSeq(g, 1, Sum(l)[c])
<1> DEFINE n == Len(l)
           s == Sum(l)
           a == Joined(v, n)
           Differ == {k \in 0 .. c : a[k] # SubSeq(g, 1, s[k])}
<1>0. n \in Nat /\ c \in Nat /\ c <= n /\ Len(g) \in Nat /\ Len(v) = n
  OBVIOUS
<1>1. /\ \A k \in 1 .. n : l[k] \in Nat /\ v[k] \in Seq(Nat) /\ Len(v[k]) = l[k]
      /\ \A i \in 1 .. c : \A x \in 1 .. l[i] : v[i][x] = g[s[i - 1] + x]
  BY <1>0
<1>2. s \in [0 .. n -> Nat] /\ s[0] = 0 /\ \A k \in 1 .. n : s[k] = s[k - 1] + l[k]
  BY SumIs
<1>3. a \in [0 .. n -> Seq(Nat)] /\ a[0] = <<>> /\ \A k \in 1 .. n : a[k] = a[k - 1] \o v[k]
  <2>1. n \in Nat /\ n <= Len(v)
    BY <1>0
  <2> HIDE DEF n
  <2> QED
    BY <2>1, JoinedIs
<1>4. \A k \in 0 .. c : s[k] <= s[c] /\ s[k] \in Nat /\ s[c] <= Len(g) /\ s[c] \in Nat
  <2> TAKE k \in 0 .. c
  <2>1. k \in 0 .. n /\ c \in 0 .. n /\ k <= c
    BY <1>0
  <2>2. s[k] <= s[c]
    BY <2>1, SumGrows
  <2>3. s[k] \in Nat /\ s[c] \in Nat /\ s[c] <= Len(g)
    BY <1>2, <2>1
  <2> QED
    BY <2>2, <2>3
<1> HIDE DEF n, s, a
<1>5. Differ = {}
  <2> SUFFICES ASSUME Differ # {} PROVE FALSE
    OBVIOUS
  <2>1. PICK k \in Differ : \A m \in Differ : k <= m
    <3>1. Differ \in SUBSET Nat
      BY <1>0
    <3> HIDE DEF Differ
    <3> QED
      BY <3>1, Facts!LeastOfNat
  <2>2. k \in 0 .. c /\ a[k] # SubSeq(g, 1, s[k])
    OBVIOUS
  <2>3. SubSeq(g, 1, 0) = <<>>
    OBVIOUS
  <2>4. k # 0
    BY <1>2, <1>3, <2>2, <2>3
  <2>5. k \in 1 .. n /\ k \in 1 .. c /\ k - 1 \in 0 .. c /\ k - 1 \in 0 .. n /\ ~(k <= k - 1)
    BY <1>0, <2>2, <2>4, SMTT(30)
  <2>6. k - 1 \notin Differ
    <3> HIDE DEF Differ
    <3> QED
      BY <2>1, <2>5
  <2>7. a[k - 1] = SubSeq(g, 1, s[k - 1])
    BY <2>5, <2>6
  <2>8. /\ a[k] = a[k - 1] \o v[k] /\ s[k] = s[k - 1] + l[k] /\ s[k - 1] \in Nat /\ l[k] \in Nat
        /\ v[k] \in Seq(Nat) /\ Len(v[k]) = l[k] /\ s[k] <= Len(g) /\ s[k] \in Nat
    <3>1. a[k] = a[k - 1] \o v[k] /\ s[k] = s[k - 1] + l[k]
      BY <1>2, <1>3, <2>5
    <3>2. l[k] \in Nat /\ v[k] \in Seq(Nat) /\ Len(v[k]) = l[k]
      BY <1>1, <2>5
    <3>3. s[k - 1] \in Nat /\ s[k] <= s[c] /\ s[k] \in Nat /\ s[c] <= Len(g) /\ s[c] \in Nat
      BY <1>4, <2>2, <2>5
    <3>4. s[k] <= Len(g)
      BY <1>0, <3>3
    <3> QED
      BY <3>1, <3>2, <3>3, <3>4
  <2> DEFINE b == SubSeq(g, 1, s[k - 1])
  <2>9. b \in Seq(Nat) /\ Len(b) = s[k - 1] /\ \A i \in 1 .. s[k - 1] : b[i] = g[i]
    <3> DEFINE m == s[k - 1]
    <3>1. m \in Nat /\ m <= Len(g)
      BY <1>0, <2>8, SMTT(30)
    <3> HIDE DEF m
    <3>2. /\ SubSeq(g, 1, m) \in Seq(Nat) /\ Len(SubSeq(g, 1, m)) = m
          /\ \A i \in 1 .. m : SubSeq(g, 1, m)[i] = g[i]
      BY <3>1, PartIs, SMTT(30)
    <3> QED
      BY <3>2 DEF m
  <2>10. a[k] = b \o v[k]
    BY <2>7, <2>8
  <2> HIDE DEF b
  <2>11. s[k] = Len(b) + Len(v[k])
    BY <2>8, <2>9
  <2>12. \A i \in 1 .. Len(b) : g[i] = b[i]
    BY <2>9
  <2>13. \A i \in 1 .. Len(v[k]) : g[Len(b) + i] = v[k][i]
    BY <1>1, <2>5, <2>8, <2>9
  <2> DEFINE w == v[k]
             m == s[k]
  <2>14. w \in Seq(Nat) /\ m \in Nat /\ m = Len(b) + Len(w) /\ m <= Len(g)
         /\ \A i \in 1 .. Len(w) : g[Len(b) + i] = w[i]
    BY <2>8, <2>11, <2>13
  <2> HIDE DEF w, m
  <2>15. SubSeq(g, 1, m) = b \o w
    BY <2>9, <2>12, <2>14, BeginsWith
  <2> QED
    BY <2>2, <2>10, <2>15 DEF w, m
<1>6. c \in 0 .. c
  BY <1>0
<1> QED
  BY <1>5, <1>6 DEF a, s, n

\* Buffers v of the lengths l.
Hold(l, v) == /\ l \in Seq(Nat) /\ v \in Seq(Seq(Nat)) /\ Len(v) = Len(l)
              /\ \A i \in 1 .. Len(l) : Len(v[i]) = l[i]

\* The first t bytes of g are in them.
Held(l, v, g, t) == \A i \in 1 .. Len(l) : \A x \in 1 .. l[i] :
                      Sum(l)[i - 1] + x <= t => v[i][x] = g[Sum(l)[i - 1] + x]

\* They are filled with the first t bytes of g up to byte w of buffer c.
Filled(l, v, g, c, w, t) ==
  /\ Hold(l, v) /\ g \in Seq(Nat)
  /\ c \in 1 .. Len(l) /\ w \in 0 .. l[c]
  /\ t = Sum(l)[c - 1] + w /\ t <= Len(g)
  /\ Held(l, v, g, t)

Filling(l, v, c, w) == Joined(v, Len(l))[c - 1] \o SubSeq(v[c], 1, w)

\* Up to byte w of buffer c, they hold this much.
LEMMA PlaceIs ==
  ASSUME NEW l \in Seq(Nat), NEW c \in 1 .. Len(l), NEW w \in 0 .. l[c]
  PROVE  /\ Sum(l)[c - 1] \in Nat /\ Sum(l)[c] \in Nat /\ l[c] \in Nat
         /\ Sum(l)[c] = Sum(l)[c - 1] + l[c]
         /\ Sum(l)[c - 1] + w \in Nat /\ Sum(l)[c - 1] + w <= Sum(l)[c]
         /\ Sum(l)[Len(l)] \in Nat /\ Sum(l)[c] <= Sum(l)[Len(l)]
         /\ \A i \in 1 .. Len(l) :
              /\ Sum(l)[i - 1] \in Nat /\ Sum(l)[i] \in Nat /\ l[i] \in Nat
              /\ Sum(l)[i] = Sum(l)[i - 1] + l[i]
              /\ i < c => Sum(l)[i] <= Sum(l)[c - 1]
              /\ i > c => Sum(l)[c] <= Sum(l)[i - 1]
<1> DEFINE n == Len(l)
           s == Sum(l)
<1>0. n \in Nat /\ c \in 0 .. n /\ c - 1 \in 0 .. n /\ n \in 0 .. n /\ c <= n
  OBVIOUS
<1>1. s \in [0 .. n -> Nat] /\ \A k \in 1 .. n : s[k] = s[k - 1] + l[k] /\ l[k] \in Nat
  BY SumIs
<1>2. s[c] <= s[n]
  BY <1>0, SumGrows
<1>3. ASSUME NEW i \in 1 .. n
      PROVE  /\ s[i - 1] \in Nat /\ s[i] \in Nat /\ l[i] \in Nat
             /\ s[i] = s[i - 1] + l[i]
             /\ i < c => s[i] <= s[c - 1]
             /\ i > c => s[c] <= s[i - 1]
  <2>1. i \in 0 .. n /\ i - 1 \in 0 .. n
    BY <1>0
  <2>2. i < c => s[i] <= s[c - 1]
    <3>1. i < c => i <= c - 1
      BY <1>0
    <3> QED
      BY <1>0, <2>1, <3>1, SumGrows
  <2>3. i > c => s[c] <= s[i - 1]
    <3>1. i > c => c <= i - 1
      BY <1>0
    <3> QED
      BY <1>0, <2>1, <3>1, SumGrows
  <2> HIDE DEF s, n
  <2> QED
    BY <1>1, <2>1, <2>2, <2>3
<1>4. s[c - 1] \in Nat /\ s[c] \in Nat /\ l[c] \in Nat /\ s[c] = s[c - 1] + l[c] /\ s[n] \in Nat
  <2> HIDE DEF s
  <2> QED
    BY <1>0, <1>1
<1> HIDE DEF s
<1>5. s[c - 1] + w \in Nat /\ s[c - 1] + w <= s[c]
  BY <1>4
<1> QED
  BY <1>2, <1>3, <1>4, <1>5 DEF s

LEMMA ContentIs ==
  ASSUME NEW l, NEW v, NEW g, NEW c, NEW w, NEW t, Filled(l, v, g, c, w, t)
  PROVE  Filling(l, v, c, w) = SubSeq(g, 1, t)
<1>a. /\ Hold(l, v) /\ g \in Seq(Nat) /\ c \in 1 .. Len(l) /\ w \in 0 .. l[c]
      /\ t = Sum(l)[c - 1] + w /\ t <= Len(g) /\ Held(l, v, g, t)
  BY DEF Filled
<1> USE <1>a
<1> DEFINE p == Sum(l)[c - 1]
           a == Joined(v, Len(l))[c - 1]
           b == SubSeq(v[c], 1, w)
<1>0. /\ l \in Seq(Nat) /\ v \in Seq(Seq(Nat)) /\ Len(v) = Len(l)
      /\ \A i \in 1 .. Len(l) : Len(v[i]) = l[i]
      /\ Len(l) \in Nat /\ c - 1 \in 0 .. Len(l) /\ Len(g) \in Nat /\ t \in Nat
  <2>1. /\ l \in Seq(Nat) /\ v \in Seq(Seq(Nat)) /\ Len(v) = Len(l)
        /\ \A i \in 1 .. Len(l) : Len(v[i]) = l[i]
    BY DEF Hold
  <2>2. t \in Nat
    BY <2>1, PlaceIs
  <2> QED
    BY <2>1, <2>2
<1>1. /\ p \in Nat /\ l[c] \in Nat
      /\ \A i \in 1 .. Len(l) : /\ Sum(l)[i - 1] \in Nat /\ Sum(l)[i] \in Nat /\ l[i] \in Nat
                                /\ Sum(l)[i] = Sum(l)[i - 1] + l[i]
                                /\ i < c => Sum(l)[i] <= p
  BY <1>0, PlaceIs
<1>2. p <= Len(g) /\ p <= t /\ t = p + w /\ w \in Nat /\ w <= l[c]
  BY <1>0, <1>1
<1>3. \A i \in 1 .. c - 1 : \A x \in 1 .. l[i] : v[i][x] = g[Sum(l)[i - 1] + x]
  <2> TAKE i \in 1 .. c - 1
  <2> TAKE x \in 1 .. l[i]
  <2>1. i \in 1 .. Len(l) /\ i < c
    BY <1>0
  <2> HIDE DEF p
  <2>2. Sum(l)[i - 1] + x <= t
    <3>1. /\ Sum(l)[i - 1] \in Nat /\ Sum(l)[i] \in Nat /\ l[i] \in Nat
          /\ Sum(l)[i] = Sum(l)[i - 1] + l[i] /\ Sum(l)[i] <= p
      BY <1>1, <2>1
    <3> DEFINE q == Sum(l)[i - 1]
               r == Sum(l)[i]
               m == l[i]
    <3>2. q \in Nat /\ r \in Nat /\ m \in Nat /\ r = q + m /\ r <= p /\ x \in 1 .. m /\ p \in Nat
      BY <1>1, <3>1
    <3> HIDE DEF q, r, m
    <3>3. q + x <= t
      BY <1>2, <3>2
    <3> QED
      BY <3>3 DEF q
  <2> QED
    BY <2>1, <2>2 DEF Held
<1>4. a = SubSeq(g, 1, p)
  BY <1>0, <1>2, <1>3, JoinedHolds
<1>5. a \in Seq(Nat) /\ Len(a) = p /\ \A i \in 1 .. p : a[i] = g[i]
  <2> HIDE DEF p, a
  <2>1. /\ SubSeq(g, 1, p) \in Seq(Nat) /\ Len(SubSeq(g, 1, p)) = p
        /\ \A i \in 1 .. p : SubSeq(g, 1, p)[i] = g[i]
    BY <1>1, <1>2, PrefixIs
  <2> QED
    BY <1>4, <2>1
<1>6. b \in Seq(Nat) /\ Len(b) = w /\ \A i \in 1 .. w : b[i] = v[c][i]
  <2> DEFINE u == v[c]
  <2>1. u \in Seq(Nat) /\ Len(u) = l[c]
    BY <1>0
  <2> HIDE DEF u
  <2>2. /\ SubSeq(u, 1, w) \in Seq(Nat) /\ Len(SubSeq(u, 1, w)) = w
        /\ \A i \in 1 .. w : SubSeq(u, 1, w)[i] = u[i]
    <3>1. w \in Nat /\ u \in Seq(Nat) /\ w <= Len(u)
      BY <1>2, <2>1
    <3> QED
      BY <3>1, PrefixIs, Zenon
  <2> QED
    BY <2>2 DEF u
<1>7. \A i \in 1 .. w : v[c][i] = g[p + i]
  <2> TAKE i \in 1 .. w
  <2>1. i \in 1 .. l[c] /\ p + i <= t
    <3> HIDE DEF p
    <3> QED
      BY <1>1, <1>2, SMTT(30)
  <2> QED
    BY <2>1 DEF Held
<1> HIDE DEF a, b, p
<1>8. /\ \A i \in 1 .. Len(a) : g[i] = a[i]
      /\ \A i \in 1 .. Len(b) : g[Len(a) + i] = b[i]
      /\ t = Len(a) + Len(b)
  BY <1>2, <1>5, <1>6, <1>7
<1>9. SubSeq(g, 1, t) = a \o b
  BY <1>0, <1>5, <1>6, <1>8, BeginsWith
<1> QED
  BY <1>9 DEF a, b, Filling

\* Bytes of g that are stored behind those that are there.
LEMMA StoresHold ==
  ASSUME NEW l, NEW v, NEW g, NEW c, NEW w, NEW t, Filled(l, v, g, c, w, t),
         NEW k \in Nat, w + k <= l[c], t + k <= Len(g),
         NEW b \in Seq(Nat), Len(b) = l[c],
         \A i \in 1 .. w : b[i] = v[c][i],
         \A i \in 1 .. k : b[w + i] = g[t + i]
  PROVE  Filled(l, [v EXCEPT ![c] = b], g, c, w + k, t + k)
<1>a. /\ Hold(l, v) /\ g \in Seq(Nat) /\ c \in 1 .. Len(l) /\ w \in 0 .. l[c]
      /\ t = Sum(l)[c - 1] + w /\ t <= Len(g) /\ Held(l, v, g, t)
  BY DEF Filled
<1> USE <1>a
<1>0. /\ l \in Seq(Nat) /\ v \in Seq(Seq(Nat)) /\ Len(v) = Len(l)
      /\ \A i \in 1 .. Len(l) : Len(v[i]) = l[i]
      /\ Len(l) \in Nat /\ t \in Nat
  <2>1. /\ l \in Seq(Nat) /\ v \in Seq(Seq(Nat)) /\ Len(v) = Len(l)
        /\ \A i \in 1 .. Len(l) : Len(v[i]) = l[i]
    BY Zenon DEF Hold
  <2>2. t \in Nat
    BY <2>1, PlaceIs
  <2> QED
    BY <2>1, <2>2
<1> DEFINE n == [v EXCEPT ![c] = b]
           p == Sum(l)[c - 1]
<1>1. /\ p \in Nat /\ l[c] \in Nat /\ Sum(l)[c] = p + l[c]
      /\ \A i \in 1 .. Len(l) : /\ Sum(l)[i - 1] \in Nat /\ Sum(l)[i] \in Nat /\ l[i] \in Nat
                                /\ Sum(l)[i] = Sum(l)[i - 1] + l[i]
                                /\ i < c => Sum(l)[i] <= p
                                /\ i > c => Sum(l)[c] <= Sum(l)[i - 1]
  BY <1>0, PlaceIs
<1>2. /\ n \in Seq(Seq(Nat)) /\ Len(n) = Len(l)
      /\ n[c] = b /\ \A i \in 1 .. Len(l) : i # c => n[i] = v[i]
  BY <1>0
<1> HIDE DEF n
<1>3. Hold(l, n)
  BY <1>0, <1>2 DEF Hold
<1>4. ASSUME NEW i \in 1 .. Len(l), NEW x \in 1 .. l[i], Sum(l)[i - 1] + x <= t + k
      PROVE  n[i][x] = g[Sum(l)[i - 1] + x]
  <2>1. CASE i < c
    <3>1. Sum(l)[i - 1] + x <= t
      <4> HIDE DEF p
      <4>1. t = p + w
        BY DEF p
      <4>2. /\ Sum(l)[i - 1] \in Nat /\ Sum(l)[i] \in Nat /\ l[i] \in Nat
            /\ Sum(l)[i] = Sum(l)[i - 1] + l[i] /\ Sum(l)[i] <= p
        BY <1>1, <2>1
      <4> DEFINE q == Sum(l)[i - 1]
                 r == Sum(l)[i]
                 m == l[i]
      <4>3. q \in Nat /\ r \in Nat /\ m \in Nat /\ r = q + m /\ r <= p /\ x \in 1 .. m /\ p \in Nat
        BY <1>1, <4>2
      <4> HIDE DEF q, r, m
      <4>4. q + x <= t /\ w \in Nat
        BY <4>1, <4>3
      <4> QED
        BY <4>4 DEF q
    <3>2. n[i] = v[i]
      BY <1>2, <2>1
    <3> QED
      BY <3>1, <3>2 DEF Held
  <2>2. CASE i = c
    <3>1. CASE x <= w
      <4>1. x \in 1 .. w /\ p + x <= t
        BY <1>1, <2>2, <3>1
      <4>2. v[c][x] = g[p + x]
        BY <2>2, <4>1 DEF Held
      <4> QED
        BY <1>2, <2>2, <4>1, <4>2
    <3>2. CASE x > w
      <4>1. x - w \in 1 .. k /\ w + (x - w) = x /\ t + (x - w) = p + x
        BY <1>1, <1>4, <2>2, <3>2
      <4>2. b[w + (x - w)] = g[t + (x - w)]
        BY <4>1
      <4> QED
        BY <1>2, <2>2, <4>1, <4>2
    <3> QED
      BY <1>1, <2>2, <3>1, <3>2
  <2>3. CASE i > c
    <3> HIDE DEF p
    <3>1. t = p + w
      BY DEF p
    <3>2. /\ Sum(l)[i - 1] \in Nat /\ Sum(l)[c] <= Sum(l)[i - 1] /\ Sum(l)[c] = p + l[c]
          /\ l[c] \in Nat /\ p \in Nat
      BY <1>1, <2>3
    <3> DEFINE q == Sum(l)[i - 1]
               r == Sum(l)[c]
               m == l[c]
    <3>3. FALSE
      <4>1. q \in Nat /\ r <= q /\ r = p + m /\ m \in Nat /\ p \in Nat /\ q + x <= t + k /\ w + k <= m
        BY <1>4, <3>2
      <4>2. x \in Nat /\ x >= 1 /\ w \in Nat
        OBVIOUS
      <4> HIDE DEF q, r, m
      <4> QED
        BY <3>1, <4>1, <4>2, SMTT(30)
    <3> QED
      BY <3>3
  <2> QED
    BY <2>1, <2>2, <2>3
<1>5. Held(l, n, g, t + k)
  BY <1>4 DEF Held
<1>6. w + k \in 0 .. l[c] /\ t + k = Sum(l)[c - 1] + (w + k)
  <2> DEFINE m == l[c]
  <2>1. t = p + w /\ w \in 0 .. m /\ m \in Nat /\ p \in Nat /\ w + k <= m
    BY <1>1
  <2> HIDE DEF m, p
  <2>2. w + k \in 0 .. m /\ t + k = p + (w + k)
    BY <2>1, SMTT(30)
  <2> QED
    BY <2>2 DEF m, p
<1>7. Filled(l, n, g, c, w + k, t + k)
  BY <1>3, <1>5, <1>6 DEF Filled
<1> QED
  BY <1>7 DEF n

LEMMA HeldToo ==
  ASSUME NEW l, NEW v, Hold(l, v), NEW t \in Nat, NEW g, NEW h, Held(l, v, g, t),
         \A p \in 1 .. t : h[p] = g[p]
  PROVE  Held(l, v, h, t)
<1> SUFFICES ASSUME NEW i \in 1 .. Len(l), NEW x \in 1 .. l[i], Sum(l)[i - 1] + x <= t
             PROVE  v[i][x] = h[Sum(l)[i - 1] + x]
  BY DEF Held
<1>1. v[i][x] = g[Sum(l)[i - 1] + x]
  BY DEF Held
<1>2. Sum(l)[i - 1] \in Nat
  <2>1. l \in Seq(Nat)
    BY DEF Hold
  <2>2. l[i] \in Nat
    BY <2>1
  <2>3. 0 \in 0 .. l[i]
    BY <2>2
  <2> QED
    BY <2>1, <2>3, PlaceIs
<1>3. Sum(l)[i - 1] + x \in 1 .. t
  <2> DEFINE q == Sum(l)[i - 1]
  <2>1. q \in Nat /\ q + x <= t /\ x \in Nat /\ x >= 1
    BY <1>2
  <2> HIDE DEF q
  <2>2. q + x \in 1 .. t
    BY <2>1
  <2> QED
    BY <2>2 DEF q
<1> QED
  BY <1>1, <1>3

\* The content s with what call c adds to it.
Wanted(c, s) == s \o (IF c.kind = "literal" THEN Literal(Len(s), c.len)
                      ELSE Repeated(s, c.offset, c.len))

LEMMA WantedIs ==
  ASSUME NEW s \in Seq(Nat), NEW c, c.len \in Nat, c.kind \in {"literal", "copy"},
         c.kind = "copy" => c.offset \in 1 .. Len(s)
  PROVE  /\ Wanted(c, s) \in Seq(Nat) /\ Len(Wanted(c, s)) = Len(s) + c.len
         /\ \A i \in 1 .. Len(s) : Wanted(c, s)[i] = s[i]
         /\ c.kind = "literal" => \A i \in 1 .. c.len : Wanted(c, s)[Len(s) + i] = Len(s) + i
         /\ c.kind = "copy" => \A i \in Len(s) + 1 .. Len(s) + c.len :
                                  Wanted(c, s)[i] = Wanted(c, s)[i - c.offset]
<1> DEFINE n == Len(s)
           m == c.len
<1>0. n \in Nat /\ m \in Nat
  OBVIOUS
<1>1. CASE c.kind = "literal"
  <2> DEFINE a == Literal(n, m)
             w == s \o a
  <2>1. a \in Seq(Nat) /\ Len(a) = m /\ \A i \in 1 .. m : a[i] = n + i
    BY <1>0, LiteralIs
  <2> HIDE DEF a
  <2>2. /\ w \in Seq(Nat) /\ Len(w) = n + m
        /\ \A i \in 1 .. n : w[i] = s[i]
        /\ \A i \in 1 .. m : w[n + i] = a[i]
    BY <2>1, JoinIs
  <2> HIDE DEF w
  <2>3. Wanted(c, s) = w
    BY <1>1 DEF Wanted, w, a
  <2>4. \A i \in 1 .. m : w[n + i] = n + i
    BY <2>1, <2>2
  <2> QED
    BY <1>1, <2>2, <2>3, <2>4
<1>2. CASE c.kind = "copy"
  <2> DEFINE o == c.offset
             a == Repeated(s, o, m)
             w == s \o a
  <2>0. o \in Nat /\ o >= 1 /\ o <= n
    BY <1>0, <1>2
  <2>1. a \in Seq(Nat) /\ Len(a) = m
    <3> HIDE DEF m, o
    <3> QED
      BY <1>0, <2>0, RepeatedIs
  <2>2. \A i \in 1 .. m : w[n + i] = w[n + i - o]
    <3> HIDE DEF m, o
    <3> QED
      BY <1>0, <2>0, CopyHasPeriod
  <2> HIDE DEF a
  <2>3. /\ w \in Seq(Nat) /\ Len(w) = n + m
        /\ \A i \in 1 .. n : w[i] = s[i]
    BY <2>1, JoinIs
  <2> HIDE DEF w
  <2>4. Wanted(c, s) = w
    BY <1>2 DEF Wanted, w, a
  <2>5. \A i \in n + 1 .. n + m : w[i] = w[i - o]
    <3> TAKE i \in n + 1 .. n + m
    <3>1. i - n \in 1 .. m /\ n + (i - n) = i /\ n + (i - n) - o = i - o
      <4> HIDE DEF n, m, o
      <4> QED
        BY <1>0, <2>0
    <3> QED
      BY <2>2, <3>1
  <2> QED
    BY <1>2, <2>3, <2>4, <2>5
<1> QED
  BY <1>1, <1>2

-----------------------------------------------------------------------------
(* SnappyIOVecWriter *)

(***************************************************************************)
(* The inductive invariant.  The goal of a call is the content it leaves   *)
(* when it succeeds.  Until a call has found no buffer for its bytes, the  *)
(* buffers hold the beginning of the goal, the bytes to append are those   *)
(* that come next, and the place to copy from is "offset" bytes before     *)
(* them; from then on the writer is at the end of the last buffer, short   *)
(* of the expected length.                                                 *)
(***************************************************************************)
IOVecGoal == IF iovPc \in {"idle", "call"} THEN iovDone ELSE Wanted(iovCall, iovDone)

IOVecShape ==
  /\ len \in IOVecBuffers /\ iovLimit \in IOVecLimits
  /\ Hold(len, iov)
  /\ curr \in 1 .. Len(len) /\ written \in 0 .. len[curr]
  /\ total \in 0 .. iovLimit /\ total = Sum(len)[curr - 1] + written
  /\ iovSrc \in Seq(Nat) /\ iovDone \in Seq(Nat)
  /\ from \in 1 .. curr /\ fromOffset \in 0 .. len[from]
  /\ back \in Nat /\ iovLeft \in Nat
  /\ iovRefused \in BOOLEAN /\ spoiled \in BOOLEAN

IOVecControl ==
  /\ iovPc \in {"idle", "call", "append", "appendSelf", "locate", "copy"}
  /\ IF iovPc = "idle" THEN iovCall = IOVec!NoCall ELSE iovCall \in IOVec!Calls /\ ~iovRefused
  /\ iovPc \notin {"append", "appendSelf"} => iovSrc = <<>>
  /\ iovPc = "append" => iovCall.kind = "literal"
  /\ iovPc \in {"appendSelf", "locate", "copy"} => iovCall.kind = "copy"
  /\ iovPc = "locate" => back <= Sum(len)[from - 1] + fromOffset

IOVecFills ==
  /\ Filled(len, iov, IOVecGoal, curr, written, total)
  /\ iovPc \in {"idle", "call"} => total = Len(iovDone)
  /\ iovPc \notin {"idle", "call"} =>
       /\ Len(iovDone) <= total /\ Len(iovDone) + iovCall.len <= iovLimit
       /\ total + Len(iovSrc) <= Len(iovDone) + iovCall.len
       /\ \A i \in 1 .. Len(iovSrc) : iovSrc[i] = IOVecGoal[total + i]
  /\ iovPc = "append" => total + Len(iovSrc) = Len(iovDone) + iovCall.len
  /\ iovPc \in {"appendSelf", "locate", "copy"} =>
       /\ iovCall.offset \in 1 .. Len(iovDone)
       /\ total + Len(iovSrc) + iovLeft = Len(iovDone) + iovCall.len
       /\ iovLeft > 0 => Sum(len)[from - 1] + fromOffset
                           = total + Len(iovSrc) - iovCall.offset
                               + (IF iovPc = "locate" THEN back ELSE 0)

IOVecSpoilt == curr = Len(len) /\ written = len[curr] /\ total < iovLimit

IOVecInv == /\ IOVecShape /\ IOVecControl
            /\ ~spoiled => IOVecFills
            /\ spoiled => IOVecSpoilt

\* A step of the iovec writer is one of the abstract writer, or none.
IOVecSteps == IOVecInv' /\ [IOVec!Writer!Next]_(IOVec!Writer!vars)

LEMMA IOVecSums ==
  /\ IOVec!Before = Sum(len) /\ IOVec!Flat = Joined(iov, Len(len)) /\ IOVec!Count = Len(len)
  /\ IOVec!Before' = Sum(len') /\ IOVec!Flat' = Joined(iov', Len(len')) /\ IOVec!Count' = Len(len')
BY DEF IOVec!Before, IOVec!Flat, IOVec!Count, Sum, Joined

LEMMA IOVecCallIs ==
  ASSUME NEW c \in IOVec!Calls
  PROVE  /\ c.kind \in {"literal", "copy"} /\ c.offset \in Nat /\ c.len \in Nat
         /\ c.kind = "literal" => c.offset = 0
         /\ c # IOVec!NoCall
<1> USE WritersAssumption DEF IOVec!Calls, IOVec!Literals, IOVec!Copies, IOVec!NoCall
<1>1. CASE c \in IOVec!Literals
  BY <1>1
<1>2. CASE c \in IOVec!Copies
  BY <1>2
<1> QED
  BY <1>1, <1>2

LEMMA IOVecNumbers ==
  /\ IOVecLimits \subseteq Nat /\ IOVecWide \in Nat /\ IOVecWide >= 1
  /\ \A l \in IOVecBuffers : l \in Seq(Nat) /\ l # <<>>
<1>1. Array!MaxSize \in Nat
  BY SMT DEF Array!MaxSize
<1>2. /\ IOVecWide \in Nat /\ IOVecWide >= 1 /\ IOVecLimits \subseteq 0 .. Array!MaxSize
      /\ \A l \in IOVecBuffers : l \in Seq(Nat) /\ l # <<>>
  BY WritersAssumption
<1> QED
  BY <1>1, <1>2

\* What is said of places.
LEMMA IOVecPlaces ==
  ASSUME IOVecShape
  PROVE  /\ len \in Seq(Nat) /\ Len(len) \in Nat /\ Len(len) >= 1 /\ len[curr] \in Nat /\ len[from] \in Nat
         /\ iovLimit \in Nat /\ total \in Nat /\ curr \in Nat /\ from \in Nat /\ written \in Nat
         /\ fromOffset \in Nat /\ from <= curr /\ curr <= Len(len) /\ from >= 1
         /\ Sum(len)[curr - 1] \in Nat /\ Sum(len)[curr] \in Nat
         /\ Sum(len)[curr] = Sum(len)[curr - 1] + len[curr]
         /\ Sum(len)[from - 1] \in Nat /\ Sum(len)[from] \in Nat
         /\ Sum(len)[from] = Sum(len)[from - 1] + len[from]
         /\ from < curr => Sum(len)[from] <= Sum(len)[curr - 1]
         /\ total <= Sum(len)[curr]
         /\ Sum(len)[Len(len)] \in Nat /\ Sum(len)[curr] <= Sum(len)[Len(len)]
<1>1. len \in Seq(Nat) /\ iovLimit \in Nat
  BY IOVecNumbers DEF IOVecShape
<1>2. /\ curr \in 1 .. Len(len) /\ written \in 0 .. len[curr] /\ total \in 0 .. iovLimit
      /\ total = Sum(len)[curr - 1] + written /\ from \in 1 .. curr /\ fromOffset \in 0 .. len[from]
  BY DEF IOVecShape
<1>3. Len(len) \in Nat /\ from \in 1 .. Len(len)
  BY <1>1, <1>2
<1>4. /\ Sum(len)[curr - 1] \in Nat /\ Sum(len)[curr] \in Nat /\ len[curr] \in Nat
      /\ Sum(len)[curr] = Sum(len)[curr - 1] + len[curr]
      /\ Sum(len)[curr - 1] + written <= Sum(len)[curr]
      /\ Sum(len)[Len(len)] \in Nat /\ Sum(len)[curr] <= Sum(len)[Len(len)]
  BY <1>1, <1>2, PlaceIs
<1>5. /\ Sum(len)[from - 1] \in Nat /\ Sum(len)[from] \in Nat /\ len[from] \in Nat
      /\ Sum(len)[from] = Sum(len)[from - 1] + len[from]
      /\ from < curr => Sum(len)[from] <= Sum(len)[curr - 1]
  BY <1>1, <1>2, <1>3, PlaceIs
<1> QED
  BY <1>1, <1>2, <1>3, <1>4, <1>5

LEMMA IOVecInitInv == IOVec!Init => IOVecInv
<1> SUFFICES ASSUME IOVec!Init PROVE IOVecInv
  OBVIOUS
<1>1. /\ len \in IOVecBuffers /\ iovLimit \in IOVecLimits /\ curr = 1 /\ written = 0 /\ total = 0
      /\ iovCall = IOVec!NoCall /\ iovSrc = <<>> /\ from = 1 /\ fromOffset = 0 /\ back = 0
      /\ iovLeft = 0 /\ iovPc = "idle" /\ iovRefused = FALSE /\ spoiled = FALSE /\ iovDone = <<>>
      /\ iov = [i \in 1 .. Len(len) |-> Blank(len[i])]
  BY OneMemory DEF IOVec!Init, IOVec!Count
<1>2. len \in Seq(Nat) /\ iovLimit \in Nat /\ Len(len) \in Nat /\ Len(len) >= 1 /\ len[1] \in Nat
  BY <1>1, IOVecNumbers
<1>3. \A i \in 1 .. Len(len) : Blank(len[i]) \in Seq(Nat) /\ Len(Blank(len[i])) = len[i]
  <2> TAKE i \in 1 .. Len(len)
  <2>1. len[i] \in Nat
    BY <1>2
  <2> QED
    BY <2>1, BlankIs
<1>4. Hold(len, iov)
  <2>1. iov \in Seq(Seq(Nat)) /\ Len(iov) = Len(len)
    BY <1>1, <1>2, <1>3
  <2>2. \A i \in 1 .. Len(len) : Len(iov[i]) = len[i]
    BY <1>1, <1>3
  <2> QED
    BY <1>2, <2>1, <2>2 DEF Hold
<1>5. Sum(len)[0] = 0
  BY <1>2, SumIs
<1>6. Held(len, iov, iovDone, 0)
  <2> SUFFICES ASSUME NEW i \in 1 .. Len(len), NEW x \in 1 .. len[i], Sum(len)[i - 1] + x <= 0
               PROVE  FALSE
    BY DEF Held
  <2>1. Sum(len)[i - 1] \in Nat
    <3>1. 0 \in 0 .. len[i]
      BY <1>2
    <3> QED
      BY <1>2, <3>1, PlaceIs
  <2> QED
    BY <2>1
<1>7. IOVecShape
  <2>1. curr - 1 = 0 /\ Sum(len)[curr - 1] + written = 0
    BY <1>1, <1>5
  <2>2. curr \in 1 .. Len(len) /\ written \in 0 .. len[curr] /\ total \in 0 .. iovLimit
        /\ from \in 1 .. curr /\ fromOffset \in 0 .. len[from]
    BY <1>1, <1>2
  <2>3. iovSrc \in Seq(Nat) /\ iovDone \in Seq(Nat) /\ back \in Nat /\ iovLeft \in Nat
    BY <1>1
  <2>4. iovRefused \in BOOLEAN /\ spoiled \in BOOLEAN
    BY <1>1
  <2> QED
    BY <1>1, <1>4, <2>1, <2>2, <2>3, <2>4 DEF IOVecShape
<1>8. IOVecControl
  BY <1>1 DEF IOVecControl
<1>9. IOVecFills
  <2>1. /\ 1 \in 1 .. Len(len) /\ 0 \in 0 .. len[1] /\ 0 = Sum(len)[1 - 1] + 0
        /\ iovDone \in Seq(Nat) /\ Len(iovDone) = 0 /\ 0 <= Len(iovDone)
    BY <1>1, <1>2, <1>5
  <2>2. Filled(len, iov, iovDone, 1, 0, 0)
    BY <1>4, <1>6, <2>1 DEF Filled
  <2> QED
    BY <1>1, <2>1, <2>2 DEF IOVecFills, IOVecGoal
<1> QED
  BY <1>1, <1>7, <1>8, <1>9 DEF IOVecInv

LEMMA WholeIs ==
  ASSUME NEW w \in Seq(Nat), NEW n, n = Len(w)
  PROVE  SubSeq(w, 1, n) = w
<1>1. Len(w) \in Nat
  OBVIOUS
<1>2. /\ SubSeq(w, 1, Len(w)) \in Seq(Nat) /\ Len(SubSeq(w, 1, Len(w))) = Len(w)
      /\ \A i \in 1 .. Len(w) : SubSeq(w, 1, Len(w))[i] = w[i]
  BY <1>1, PartIs
<1> DEFINE s == SubSeq(w, 1, Len(w))
<1> HIDE DEF s
<1>3. s = w
  BY <1>2, SameBytes DEF s
<1> QED
  BY <1>3 DEF s

\* A call that returns true, and has stored all of its bytes.
LEMMA IOVecSucceeds ==
  ASSUME IOVecInv, ~spoiled, iovCall \in IOVec!Calls, iovPc # "idle",
         iovCall.kind = "copy" => iovCall.offset \in 1 .. Len(iovDone),
         UNCHANGED <<len, iovLimit, spoiled>>, iovSrc' = <<>>,
         total' = Len(iovDone) + iovCall.len, total' <= iovLimit,
         Filled(len, iov', Wanted(iovCall, iovDone), curr', written', total'),
         from' \in 1 .. curr', fromOffset' \in 0 .. len[from'], back' \in Nat, iovLeft' \in Nat,
         IOVec!Returns(TRUE)
  PROVE  IOVecSteps
<1>a. /\ Hold(len, iov') /\ curr' \in 1 .. Len(len) /\ written' \in 0 .. len[curr']
      /\ total' = Sum(len)[curr' - 1] + written'
  BY DEF Filled
<1> USE <1>a
<1> DEFINE w == Wanted(iovCall, iovDone)
<1>0. /\ len \in IOVecBuffers /\ iovLimit \in IOVecLimits /\ iovDone \in Seq(Nat)
      /\ ~iovRefused /\ iovRefused \in BOOLEAN /\ Len(iovDone) \in Nat
  BY DEF IOVecInv, IOVecShape, IOVecControl
<1>1. /\ iovCall.kind \in {"literal", "copy"} /\ iovCall.len \in Nat /\ iovCall # IOVec!NoCall
  BY IOVecCallIs
<1>2. /\ iovPc' = "idle" /\ iovCall' = IOVec!NoCall /\ iovRefused' = FALSE
      /\ iovDone' = IOVec!Content'
  BY DEF IOVec!Returns
<1>3. IOVec!Content' = Joined(iov', Len(len))[curr' - 1] \o SubSeq(iov'[curr'], 1, written')
  BY IOVecSums DEF IOVec!Content
<1>4. w \in Seq(Nat) /\ Len(w) = Len(iovDone) + iovCall.len
  BY <1>0, <1>1, WantedIs
<1>5. total' \in Nat /\ total' <= Len(w) /\ total' = Len(w)
  BY <1>0, <1>1, <1>4
<1>6. Filled(len, iov', w, curr', written', total')
  OBVIOUS
<1> HIDE DEF w
<1>7. IOVec!Content' = SubSeq(w, 1, total')
  <2> DEFINE v == iov'
             c == curr'
             p == written'
             t == total'
  <2>1. Filled(len, v, w, c, p, t)
    BY <1>6
  <2> HIDE DEF v, c, p, t
  <2>2. Filling(len, v, c, p) = SubSeq(w, 1, t)
    BY <2>1, ContentIs
  <2> QED
    BY <1>3, <2>2 DEF v, c, p, t, Filling
<1>8. iovDone' = w
  BY <1>2, <1>4, <1>5, <1>7, WholeIs
<1>9. IOVecShape'
  <2>1. iovRefused' \in BOOLEAN /\ spoiled' \in BOOLEAN
    <3>1. spoiled' = spoiled /\ spoiled \in BOOLEAN
      BY DEF IOVecInv, IOVecShape
    <3> QED
      BY <1>2, <3>1
  <2>2. total' \in 0 .. iovLimit' /\ iovLimit' \in IOVecLimits /\ len' \in IOVecBuffers
    <3>1. iovLimit \in Nat /\ iovLimit' = iovLimit /\ len' = len
      BY <1>0, IOVecNumbers
    <3> QED
      BY <1>0, <1>5, <3>1
  <2>3. iovSrc' \in Seq(Nat) /\ iovDone' \in Seq(Nat)
    BY <1>4, <1>8
  <2> QED
    BY <2>1, <2>2, <2>3 DEF IOVecShape
<1>10. IOVecControl'
  BY <1>2 DEF IOVecControl
<1>11. IOVecFills'
  BY <1>2, <1>4, <1>5, <1>6, <1>8 DEF IOVecFills, IOVecGoal
<1>12. IOVecInv'
  BY <1>9, <1>10, <1>11 DEF IOVecInv
<1>13. IOVec!Writer!Legal
  <2>1. IOVec!Before[IOVec!Count] = Sum(len)[Len(len)] /\ Len(iovDone) + iovCall.len <= Sum(len)[Len(len)]
    <3>1. len \in Seq(Nat)
      BY <1>0, IOVecNumbers
    <3>2. Sum(len)[curr' - 1] + written' <= Sum(len)[curr'] /\ Sum(len)[curr'] <= Sum(len)[Len(len)]
          /\ Sum(len)[curr'] \in Nat /\ Sum(len)[Len(len)] \in Nat
      BY <3>1, PlaceIs
    <3>3. Len(iovDone) + iovCall.len = Sum(len)[curr' - 1] + written' /\ Len(iovDone) + iovCall.len \in Nat
      <4>1. total' = Len(iovDone) + iovCall.len /\ total' = Sum(len)[curr' - 1] + written'
        OBVIOUS
      <4>2. Len(iovDone) + iovCall.len \in Nat
        <5> DEFINE n == Len(iovDone)
                   m == iovCall.len
        <5>1. n \in Nat /\ m \in Nat
          BY <1>0, <1>1
        <5> HIDE DEF n, m
        <5>2. n + m \in Nat
          BY <5>1
        <5> QED
          BY <5>2 DEF n, m
      <4> QED
        BY <4>1, <4>2, Zenon
    <3> DEFINE a == Len(iovDone) + iovCall.len
               b == Sum(len)[curr']
               c == Sum(len)[Len(len)]
    <3>4. a \in Nat /\ b \in Nat /\ c \in Nat /\ a <= b /\ b <= c
      BY <3>2, <3>3
    <3> HIDE DEF a, b, c
    <3>5. a <= c
      BY <3>4
    <3> QED
      BY <3>5, IOVecSums DEF a, c
  <2> QED
    BY <2>1 DEF IOVec!Writer!Legal
<1>14. iovDone' = iovDone \o (IF iovCall.kind = "literal"
                               THEN IOVec!Writer!LiteralBytes(Len(iovDone), iovCall.len)
                               ELSE IOVec!Writer!Repeated(iovDone, iovCall.offset, iovCall.len))
  BY <1>8, WantedBytes DEF w, Wanted
<1>15. UNCHANGED <<iovLimit, IOVec!Before[IOVec!Count], iovRefused \/ spoiled>>
  BY <1>0, <1>2, IOVecSums
<1>16. IOVec!Writer!Succeed
  BY <1>0, <1>1, <1>2, <1>13, <1>14, <1>15, WantedCalls DEF IOVec!Writer!Succeed
<1> QED
  BY <1>12, <1>16 DEF IOVecSteps, IOVec!Writer!Next

\* A call that does not fit makes the writer useless, and nothing changes that.
LEMMA IOVecDies ==
  ASSUME IOVecInv, iovCall \in IOVec!Calls, iovPc # "idle",
         UNCHANGED <<len, iovLimit, iovDone>>,
         iovRefused' \/ spoiled', iovRefused' \in BOOLEAN, spoiled' \in BOOLEAN,
         iovCall' \in {iovCall, IOVec!NoCall},
         ~spoiled => \/ Len(iovDone) + iovCall.len > iovLimit
                     \/ Len(iovDone) + iovCall.len > Sum(len)[Len(len)]
                     \/ iovCall.kind = "copy" /\ iovCall.offset \notin 1 .. Len(iovDone)
  PROVE  [IOVec!Writer!Next]_(IOVec!Writer!vars)
<1>0. /\ iovDone \in Seq(Nat) /\ Len(iovDone) \in Nat /\ iovLimit \in Nat /\ Sum(len)[Len(len)] \in Nat
      /\ ~iovRefused
  BY IOVecPlaces DEF IOVecInv, IOVecShape, IOVecControl
<1>1. iovCall # IOVec!NoCall /\ iovCall.len \in Nat
  BY IOVecCallIs
<1>2. UNCHANGED <<iovLimit, IOVec!Before[IOVec!Count], iovDone>>
  BY IOVecSums
<1>3. (iovRefused' \/ spoiled') = TRUE
  OBVIOUS
<1>4. CASE ~spoiled
  <2>1. ~IOVec!Writer!Legal
    BY <1>0, <1>1, <1>4, IOVecSums DEF IOVec!Writer!Legal
  <2>2. IOVec!Writer!Fail
    BY <1>0, <1>1, <1>2, <1>3, <1>4, <2>1, WantedCalls DEF IOVec!Writer!Fail
  <2> QED
    BY <2>2 DEF IOVec!Writer!Next
<1>5. CASE spoiled
  <2>1. UNCHANGED (iovRefused \/ spoiled)
    <3>1. (iovRefused \/ spoiled) = TRUE
      BY <1>5
    <3> QED
      BY <1>3, <3>1
  <2>2. CASE iovCall' = IOVec!NoCall
    <3>1. IOVec!Writer!Return
      BY <1>1, <1>2, <1>5, <2>1, <2>2, WantedCalls DEF IOVec!Writer!Return
    <3> QED
      BY <3>1 DEF IOVec!Writer!Next
  <2>3. CASE iovCall' = iovCall
    BY <1>2, <2>1, <2>3 DEF IOVec!Writer!vars
  <2> QED
    BY <2>2, <2>3
<1> QED
  BY <1>4, <1>5

\* A round of a loop is not seen from outside.
LEMMA IOVecIsSilent ==
  ASSUME UNCHANGED <<len, iovLimit, iovCall, iovDone, iovRefused, spoiled>>
  PROVE  [IOVec!Writer!Next]_(IOVec!Writer!vars)
<1>1. UNCHANGED IOVec!Before[IOVec!Count]
  BY IOVecSums
<1>2. UNCHANGED (iovRefused \/ spoiled)
  OBVIOUS
<1> QED
  BY <1>1, <1>2 DEF IOVec!Writer!vars

LEMMA LengthIs ==
  ASSUME NEW s \in Seq(Nat)
  PROVE  Len(s) \in Nat
OBVIOUS

\* What is filled with the content is filled with the beginning of what is wanted.
LEMMA FilledToo ==
  ASSUME NEW l, NEW v, NEW s, NEW c, NEW w, NEW t, Filled(l, v, s, c, w, t), t = Len(s),
         NEW g \in Seq(Nat), Len(g) >= Len(s), \A i \in 1 .. Len(s) : g[i] = s[i]
  PROVE  Filled(l, v, g, c, w, t)
<1>1. /\ Hold(l, v) /\ s \in Seq(Nat) /\ c \in 1 .. Len(l) /\ w \in 0 .. l[c]
      /\ t = Sum(l)[c - 1] + w /\ Held(l, v, s, t)
  BY DEF Filled
<1>2. t \in Nat /\ t <= Len(g) /\ \A i \in 1 .. t : g[i] = s[i]
  <2>1. Len(s) \in Nat
    BY <1>1, LengthIs
  <2>2. Len(g) \in Nat
    OBVIOUS
  <2>3. t = Len(s)
    OBVIOUS
  <2> QED
    BY <2>1, <2>2, <2>3
<1>3. Held(l, v, g, t)
  BY <1>1, <1>2, HeldToo
<1> QED
  BY <1>1, <1>2, <1>3 DEF Filled

\* When a buffer is full, the next one is where it goes on.
LEMMA FilledOn ==
  ASSUME NEW l, NEW v, NEW g, NEW c, NEW w, NEW t, Filled(l, v, g, c, w, t),
         w = l[c], c + 1 <= Len(l)
  PROVE  Filled(l, v, g, c + 1, 0, t)
<1>1. /\ Hold(l, v) /\ g \in Seq(Nat) /\ c \in 1 .. Len(l) /\ w \in 0 .. l[c]
      /\ t = Sum(l)[c - 1] + w /\ t <= Len(g) /\ Held(l, v, g, t)
  BY DEF Filled
<1>2. l \in Seq(Nat) /\ Len(l) \in Nat
  BY <1>1 DEF Hold
<1>3. c + 1 \in 1 .. Len(l) /\ c \in Nat /\ (c + 1) - 1 = c
  BY <1>1, <1>2
<1>4. l[c + 1] \in Nat
  BY <1>2, <1>3
<1>5. Sum(l)[c] = Sum(l)[c - 1] + l[c] /\ Sum(l)[c] \in Nat
  BY <1>1, <1>2, PlaceIs
<1>6. t = Sum(l)[c]
  BY <1>1, <1>5
<1>7. t = Sum(l)[(c + 1) - 1] + 0
  <2>1. Sum(l)[(c + 1) - 1] = Sum(l)[c]
    BY <1>3
  <2> QED
    BY <1>5, <1>6, <2>1
<1>8. 0 \in 0 .. l[c + 1]
  BY <1>4
<1> QED
  BY <1>1, <1>3, <1>7, <1>8 DEF Filled

LEMMA IOVecCalls ==
  ASSUME IOVecInv, NEW c \in IOVec!Calls, IOVec!Call(c)
  PROVE  IOVecSteps
<1>1. /\ iovPc = "idle" /\ ~iovRefused /\ iovCall' = c /\ iovPc' = "call"
      /\ UNCHANGED <<len, iovLimit, iovSrc, iovRefused, spoiled, iovDone, iov, curr, written, total,
                     from, fromOffset, back, iovLeft>>
  BY DEF IOVec!Call, IOVec!destination, IOVec!copyVars
<1>2. iovCall = IOVec!NoCall /\ iovSrc = <<>>
  BY <1>1 DEF IOVecInv, IOVecControl
<1>3. IOVecShape'
  BY <1>1 DEF IOVecInv, IOVecShape
<1>4. IOVecControl'
  BY <1>1, <1>2 DEF IOVecControl
<1>5. ~spoiled => IOVecFills'
  BY <1>1 DEF IOVecInv, IOVecFills, IOVecGoal
<1>6. spoiled => IOVecSpoilt'
  BY <1>1 DEF IOVecInv, IOVecSpoilt
<1>7. IOVec!Writer!Call(c)
  BY <1>1, <1>2, IOVecSums, WantedCalls DEF IOVec!Writer!Call
<1> QED
  BY <1>1, <1>3, <1>4, <1>5, <1>6, <1>7, WantedCalls DEF IOVecSteps, IOVecInv, IOVec!Writer!Next

\* A call that is refused before it has stored anything.
LEMMA IOVecRefuses ==
  ASSUME IOVecInv, iovPc = "call", IOVec!Returns(FALSE),
         UNCHANGED <<len, iovLimit, iovSrc, spoiled, iov, curr, written, total, from, fromOffset,
                     back, iovLeft>>,
         \/ total + iovCall.len > iovLimit
         \/ iovCall.kind = "copy" /\ iovCall.offset \notin 1 .. total
  PROVE  IOVecSteps
<1>0. iovCall \in IOVec!Calls /\ iovSrc = <<>> /\ iovCall.len \in Nat
  BY IOVecCallIs DEF IOVecInv, IOVecControl
<1>1. iovPc' = "idle" /\ iovCall' = IOVec!NoCall /\ iovRefused' = TRUE /\ iovDone' = iovDone
  BY DEF IOVec!Returns
<1>2. IOVecShape'
  BY <1>1 DEF IOVecInv, IOVecShape
<1>3. IOVecControl'
  BY <1>0, <1>1 DEF IOVecControl
<1>4. ~spoiled => IOVecFills'
  BY <1>1 DEF IOVecInv, IOVecFills, IOVecGoal
<1>5. spoiled => IOVecSpoilt'
  BY DEF IOVecInv, IOVecSpoilt
<1>6. ~spoiled => total = Len(iovDone)
  BY DEF IOVecInv, IOVecFills
<1>7. spoiled' \in BOOLEAN
  BY <1>2 DEF IOVecShape
<1>8. [IOVec!Writer!Next]_(IOVec!Writer!vars)
  BY <1>0, <1>1, <1>6, <1>7, IOVecDies
<1> QED
  BY <1>2, <1>3, <1>4, <1>5, <1>8 DEF IOVecSteps, IOVecInv

\* A call that returns when the writer is useless already.
LEMMA IOVecReturns ==
  ASSUME IOVecInv, spoiled, iovPc # "idle", NEW b \in BOOLEAN, IOVec!Returns(b),
         iovSrc' = <<>>, UNCHANGED <<len, iovLimit, spoiled, iov, curr, written, total>>,
         UNCHANGED <<from, fromOffset, back, iovLeft>>
  PROVE  IOVecSteps
<1>0. iovCall \in IOVec!Calls
  BY DEF IOVecInv, IOVecControl
<1>1. iovPc' = "idle" /\ iovCall' = IOVec!NoCall /\ iovRefused' = ~b /\ iovDone' = iovDone
  BY DEF IOVec!Returns
<1>2. IOVecShape'
  <2>1. iovRefused' \in BOOLEAN
    BY <1>1
  <2> QED
    BY <1>1, <2>1 DEF IOVecInv, IOVecShape
<1>3. IOVecControl'
  BY <1>1 DEF IOVecControl
<1>4. IOVecSpoilt'
  BY DEF IOVecInv, IOVecSpoilt
<1>5. spoiled' \in BOOLEAN /\ iovRefused' \in BOOLEAN
  BY <1>2 DEF IOVecShape
<1>6. [IOVec!Writer!Next]_(IOVec!Writer!vars)
  BY <1>0, <1>1, <1>5, IOVecDies
<1> QED
  BY <1>2, <1>3, <1>4, <1>6 DEF IOVecSteps, IOVecInv

LEMMA IOVecAppendStart ==
  ASSUME IOVecInv, IOVec!AppendStart
  PROVE  IOVecSteps
<1>0. /\ iovPc = "call" /\ iovCall.kind = "literal"
      /\ UNCHANGED <<len, iovLimit, spoiled, iov, curr, written, total, from, fromOffset, back,
                     iovLeft>>
  BY DEF IOVec!AppendStart, IOVec!destination, IOVec!copyVars
<1>1. /\ iovCall \in IOVec!Calls /\ ~iovRefused /\ iovCall.len \in Nat /\ total \in Nat /\ iovLimit \in Nat
      /\ iovDone \in Seq(Nat)
  BY <1>0, IOVecCallIs, IOVecPlaces DEF IOVecInv, IOVecControl, IOVecShape
<1>2. CASE total + iovCall.len > iovLimit
  <2>1. IOVec!Returns(FALSE) /\ UNCHANGED iovSrc
    BY <1>2 DEF IOVec!AppendStart
  <2> QED
    BY <1>0, <1>2, <2>1, IOVecRefuses
<1>3. CASE ~(total + iovCall.len > iovLimit)
  <2>1. /\ iovSrc' = Literal(total, iovCall.len) /\ iovPc' = "append"
        /\ UNCHANGED <<iovCall, iovRefused, iovDone>>
    BY <1>3, OneLiteral DEF IOVec!AppendStart
  <2>2. /\ iovSrc' \in Seq(Nat) /\ Len(iovSrc') = iovCall.len
        /\ \A i \in 1 .. iovCall.len : iovSrc'[i] = total + i
    BY <1>1, <2>1, LiteralIs
  <2>3. IOVecShape'
    BY <1>0, <2>1, <2>2 DEF IOVecInv, IOVecShape
  <2>4. IOVecControl'
    BY <1>0, <1>1, <2>1 DEF IOVecControl
  <2>5. spoiled => IOVecSpoilt'
    BY <1>0 DEF IOVecInv, IOVecSpoilt
  <2>6. ASSUME ~spoiled PROVE IOVecFills'
    <3> DEFINE w == Wanted(iovCall, iovDone)
    <3>1. total = Len(iovDone) /\ Filled(len, iov, iovDone, curr, written, total)
      BY <1>0, <2>6 DEF IOVecInv, IOVecFills, IOVecGoal
    <3>2. /\ w \in Seq(Nat) /\ Len(w) = total + iovCall.len
          /\ \A i \in 1 .. Len(iovDone) : w[i] = iovDone[i]
          /\ \A i \in 1 .. iovCall.len : w[total + i] = total + i
      BY <1>0, <1>1, <3>1, WantedIs
    <3>3. IOVecGoal' = w
      BY <2>1 DEF IOVecGoal
    <3> HIDE DEF w
    <3>4. Len(w) >= Len(iovDone)
      BY <1>1, <3>1, <3>2
    <3>5. Filled(len, iov, w, curr, written, total)
      BY <3>1, <3>2, <3>4, FilledToo
    <3>6. total + iovCall.len <= iovLimit
      BY <1>1, <1>3
    <3>7. \A i \in 1 .. Len(iovSrc') : iovSrc'[i] = w[total + i]
      BY <2>2, <3>2
    <3> QED
      BY <1>0, <1>1, <2>1, <2>2, <3>1, <3>3, <3>5, <3>6, <3>7 DEF IOVecFills
  <2>7. [IOVec!Writer!Next]_(IOVec!Writer!vars)
    BY <1>0, <2>1, IOVecIsSilent
  <2> QED
    BY <1>0, <2>3, <2>4, <2>5, <2>6, <2>7 DEF IOVecSteps, IOVecInv
<1> QED
  BY <1>2, <1>3

LEMMA IOVecAppendEnd ==
  ASSUME IOVecInv, IOVec!AppendEnd
  PROVE  IOVecSteps
<1>0. /\ iovPc \in {"append", "appendSelf"} /\ iovSrc = <<>> /\ iovSrc' = <<>>
      /\ UNCHANGED <<len, iovLimit, spoiled, iov, curr, written, total, from, fromOffset, back,
                     iovLeft>>
  BY DEF IOVec!AppendEnd, IOVec!AppendReturns, IOVec!destination, IOVec!copyVars
<1>1. /\ iovCall \in IOVec!Calls /\ ~iovRefused /\ iovCall.len \in Nat
  BY <1>0, IOVecCallIs DEF IOVecInv, IOVecControl
<1>2. CASE iovPc = "append"
  <2>1. IOVec!Returns(TRUE)
    BY <1>2 DEF IOVec!AppendEnd, IOVec!AppendReturns
  <2>2. CASE ~spoiled
    <3>1. /\ Filled(len, iov, Wanted(iovCall, iovDone), curr, written, total)
          /\ total + Len(iovSrc) = Len(iovDone) + iovCall.len
          /\ Len(iovDone) + iovCall.len <= iovLimit
      BY <1>2, <2>2 DEF IOVecInv, IOVecFills, IOVecGoal
    <3>2. /\ total \in Nat /\ from \in 1 .. curr /\ fromOffset \in 0 .. len[from]
          /\ back \in Nat /\ iovLeft \in Nat /\ ~(iovCall.kind = "copy")
      BY <1>2, IOVecPlaces DEF IOVecInv, IOVecShape, IOVecControl
    <3>3. Len(iovSrc) = 0
      BY <1>0
    <3>4. total = Len(iovDone) + iovCall.len
      BY <3>1, <3>2, <3>3
    <3> QED
      BY <1>0, <1>1, <1>2, <2>1, <2>2, <3>1, <3>2, <3>4, IOVecSucceeds
  <2>3. CASE spoiled
    BY <1>0, <1>2, <2>1, <2>3, IOVecReturns
  <2> QED
    BY <2>2, <2>3
<1>3. CASE iovPc = "appendSelf"
  <2>1. iovPc' = "copy" /\ UNCHANGED <<iovCall, iovRefused, iovDone>>
    BY <1>3 DEF IOVec!AppendEnd, IOVec!AppendReturns
  <2>2. IOVecShape'
    BY <1>0, <2>1 DEF IOVecInv, IOVecShape
  <2>3. IOVecControl'
    BY <1>0, <1>1, <1>3, <2>1 DEF IOVecInv, IOVecControl
  <2>4. ~spoiled => IOVecFills'
    BY <1>0, <1>3, <2>1 DEF IOVecInv, IOVecFills, IOVecGoal
  <2>5. spoiled => IOVecSpoilt'
    BY <1>0 DEF IOVecInv, IOVecSpoilt
  <2>6. [IOVec!Writer!Next]_(IOVec!Writer!vars)
    BY <1>0, <2>1, IOVecIsSilent
  <2> QED
    BY <1>0, <2>2, <2>3, <2>4, <2>5, <2>6 DEF IOVecSteps, IOVecInv
<1> QED
  BY <1>0, <1>2, <1>3

\* A call whose bytes find no buffer.
LEMMA IOVecSpoils ==
  ASSUME IOVecInv, iovPc \in {"append", "appendSelf", "copy"}, curr = Len(len), written >= len[curr],
         ~spoiled => total < Len(iovDone) + iovCall.len,
         spoiled' = TRUE, iovSrc' = <<>>,
         UNCHANGED <<len, iovLimit, iov, curr, written, total, from, fromOffset, back, iovLeft>>,
         \/ IOVec!Returns(FALSE)
         \/ /\ iovCall.kind = "copy" /\ iovPc' = "copy"
            /\ UNCHANGED <<iovCall, iovRefused, iovDone>>
  PROVE  IOVecSteps
<1>0. /\ iovCall \in IOVec!Calls /\ ~iovRefused /\ iovRefused \in BOOLEAN /\ iovCall.len \in Nat
      /\ iovDone \in Seq(Nat)
  BY IOVecCallIs DEF IOVecInv, IOVecControl, IOVecShape
<1>1. /\ total \in Nat /\ iovLimit \in Nat /\ len[curr] \in Nat /\ written \in 0 .. len[curr]
      /\ total = Sum(len)[curr - 1] + written /\ Sum(len)[curr] = Sum(len)[curr - 1] + len[curr]
      /\ Sum(len)[curr - 1] \in Nat /\ Sum(len)[curr] \in Nat
  BY IOVecPlaces DEF IOVecInv, IOVecShape
<1>2. written = len[curr] /\ total = Sum(len)[Len(len)]
  BY <1>1
<1>3. total < iovLimit
  <2>1. CASE spoiled
    BY <2>1 DEF IOVecInv, IOVecSpoilt
  <2>2. CASE ~spoiled
    <3>1. Len(iovDone) + iovCall.len <= iovLimit
      BY <2>2 DEF IOVecInv, IOVecFills
    <3>2. Len(iovDone) \in Nat
      BY <1>0
    <3> QED
      BY <1>0, <1>1, <2>2, <3>1, <3>2
  <2> QED
    BY <2>1, <2>2
<1>4. IOVecSpoilt'
  BY <1>2, <1>3 DEF IOVecSpoilt
<1>5. /\ iovDone' = iovDone /\ iovCall' \in {iovCall, IOVec!NoCall} /\ iovRefused' \in BOOLEAN
  BY <1>0 DEF IOVec!Returns
<1>6. IOVecShape'
  <2>1. spoiled' \in BOOLEAN /\ iovSrc' \in Seq(Nat)
    OBVIOUS
  <2> QED
    BY <1>5, <2>1 DEF IOVecInv, IOVecShape
<1>7. IOVecControl'
  <2>1. CASE IOVec!Returns(FALSE)
    <3>1. iovPc' = "idle" /\ iovCall' = IOVec!NoCall
      BY <2>1 DEF IOVec!Returns
    <3> QED
      BY <3>1 DEF IOVecControl
  <2>2. CASE iovCall.kind = "copy" /\ iovPc' = "copy" /\ UNCHANGED <<iovCall, iovRefused, iovDone>>
    BY <1>0, <2>2 DEF IOVecControl
  <2> QED
    BY <2>1, <2>2
<1>8. [IOVec!Writer!Next]_(IOVec!Writer!vars)
  <2>1. ~spoiled => Len(iovDone) + iovCall.len > Sum(len)[Len(len)]
    <3>1. Len(iovDone) \in Nat
      BY <1>0
    <3> QED
      BY <1>0, <1>1, <1>2, <3>1
  <2>2. spoiled' \in BOOLEAN /\ iovPc # "idle"
    OBVIOUS
  <2> QED
    BY <1>0, <1>5, <2>1, <2>2, IOVecDies
<1> QED
  BY <1>4, <1>6, <1>7, <1>8 DEF IOVecSteps, IOVecInv

LEMMA IOVecAppendNoBuffer ==
  ASSUME IOVecInv, IOVec!AppendNoBuffer
  PROVE  IOVecSteps
<1>0. /\ iovPc \in {"append", "appendSelf"} /\ iovSrc # <<>> /\ iovSrc' = <<>>
      /\ written >= len[curr] /\ curr + 1 > Len(len) /\ spoiled' = TRUE
      /\ UNCHANGED <<len, iovLimit, iov, curr, written, total, from, fromOffset, back, iovLeft>>
  BY IOVecSums DEF IOVec!AppendNoBuffer, IOVec!AppendReturns, IOVec!Full, IOVec!destination, IOVec!copyVars
<1>1. curr = Len(len) /\ total \in Nat
  BY <1>0, IOVecPlaces DEF IOVecInv
<1>2. iovSrc \in Seq(Nat) /\ Len(iovSrc) \in Nat /\ Len(iovSrc) >= 1
  BY <1>0 DEF IOVecInv, IOVecShape
<1>3. ~spoiled => total < Len(iovDone) + iovCall.len
  <2> SUFFICES ASSUME ~spoiled PROVE total < Len(iovDone) + iovCall.len
    OBVIOUS
  <2>1. total + Len(iovSrc) <= Len(iovDone) + iovCall.len
    BY <1>0 DEF IOVecInv, IOVecFills
  <2>2. Len(iovDone) \in Nat /\ iovCall.len \in Nat
    BY <1>0, IOVecCallIs DEF IOVecInv, IOVecShape, IOVecControl
  <2> QED
    BY <1>1, <1>2, <2>1, <2>2
<1>4. \/ IOVec!Returns(FALSE)
      \/ /\ iovCall.kind = "copy" /\ iovPc' = "copy"
         /\ UNCHANGED <<iovCall, iovRefused, iovDone>>
  BY <1>0 DEF IOVec!AppendNoBuffer, IOVec!AppendReturns, IOVecInv, IOVecControl
<1> QED
  BY <1>0, <1>1, <1>3, <1>4, IOVecSpoils

\* What holds in the middle of a call.
LEMMA IOVecGoalIs ==
  ASSUME IOVecInv, ~spoiled, iovPc \in {"append", "appendSelf", "locate", "copy"}
  PROVE  /\ iovCall \in IOVec!Calls /\ iovCall.len \in Nat /\ iovCall.offset \in Nat
         /\ iovDone \in Seq(Nat) /\ Len(iovDone) \in Nat
         /\ IOVecGoal = Wanted(iovCall, iovDone)
         /\ IOVecGoal \in Seq(Nat) /\ Len(IOVecGoal) = Len(iovDone) + iovCall.len
         /\ Len(iovDone) <= total
         /\ iovPc # "append" => \A i \in Len(iovDone) + 1 .. Len(iovDone) + iovCall.len :
                                   IOVecGoal[i] = IOVecGoal[i - iovCall.offset]
<1>1. /\ iovCall \in IOVec!Calls /\ iovDone \in Seq(Nat)
      /\ iovPc = "append" => iovCall.kind = "literal"
      /\ iovPc # "append" => iovCall.kind = "copy"
  BY DEF IOVecInv, IOVecControl, IOVecShape
<1>2. /\ iovPc # "append" => iovCall.offset \in 1 .. Len(iovDone)
      /\ Len(iovDone) <= total
  BY DEF IOVecInv, IOVecFills
<1>3. iovCall.len \in Nat /\ iovCall.offset \in Nat /\ iovCall.kind \in {"literal", "copy"}
  BY <1>1, IOVecCallIs
<1>4. IOVecGoal = Wanted(iovCall, iovDone)
  BY DEF IOVecGoal
<1> DEFINE w == Wanted(iovCall, iovDone)
<1>5. iovCall.kind = "copy" => iovCall.offset \in 1 .. Len(iovDone)
  BY <1>1, <1>2
<1>6. /\ w \in Seq(Nat) /\ Len(w) = Len(iovDone) + iovCall.len
      /\ iovCall.kind = "copy" => \A i \in Len(iovDone) + 1 .. Len(iovDone) + iovCall.len :
                                     w[i] = w[i - iovCall.offset]
  BY <1>1, <1>3, <1>5, WantedIs
<1> HIDE DEF w
<1>7. Len(iovDone) \in Nat /\ IOVecGoal = w
  BY <1>1, <1>4 DEF w
<1> QED
  BY <1>1, <1>2, <1>3, <1>4, <1>6, <1>7

LEMMA LeastIs ==
  ASSUME NEW a \in Nat, NEW b \in Nat
  PROVE  /\ IOVec!Least(a, b) \in Nat /\ IOVec!Least(a, b) <= a /\ IOVec!Least(a, b) <= b
         /\ IOVec!Least(a, b) = a \/ IOVec!Least(a, b) = b
         /\ Blocks!Least(a, b) = IOVec!Least(a, b)
BY DEF IOVec!Least, Blocks!Least

\* The writer stores bytes of the goal in buffer c from byte w on.
LEMMA IOVecStores ==
  ASSUME IOVecInv, ~spoiled, iovPc \in {"append", "appendSelf", "copy"},
         NEW c, NEW w, Filled(len, iov, IOVecGoal, c, w, total), curr <= c,
         NEW k \in Nat, NEW bytes \in Seq(Nat), Len(bytes) = k, w + k <= len[c],
         total + k <= Len(iovDone) + iovCall.len,
         \A i \in 1 .. k : bytes[i] = IOVecGoal[total + i],
         iov' = [iov EXCEPT ![c] = Overwrite(iov[c], w, bytes)],
         curr' = c, written' = w + k, total' = total + k
  PROVE  /\ Filled(len, iov', IOVecGoal, curr', written', total')
         /\ Hold(len, iov') /\ curr' \in 1 .. Len(len) /\ written' \in 0 .. len[curr']
         /\ total' = Sum(len)[curr' - 1] + written' /\ total' \in 0 .. iovLimit
<1> DEFINE g == IOVecGoal
           b == iov[c]
           n == Overwrite(b, w, bytes)
<1>0. /\ g \in Seq(Nat) /\ Len(g) = Len(iovDone) + iovCall.len /\ total \in Nat /\ iovLimit \in Nat
      /\ Len(iovDone) \in Nat /\ iovCall.len \in Nat
      /\ Len(iovDone) + iovCall.len <= iovLimit
  BY IOVecGoalIs, IOVecPlaces DEF IOVecInv, IOVecFills
<1>1. /\ Hold(len, iov) /\ c \in 1 .. Len(len) /\ w \in 0 .. len[c]
  BY DEF Filled
<1>2. b \in Seq(Nat) /\ Len(b) = len[c] /\ len[c] \in Nat /\ w \in Nat
  BY <1>1 DEF Hold
<1> HIDE DEF b
<1>3. /\ n \in Seq(Nat) /\ Len(n) = Len(b)
      /\ \A i \in 1 .. w : n[i] = b[i]
      /\ \A i \in 1 .. Len(bytes) : n[w + i] = bytes[i]
  <2>1. w + Len(bytes) <= Len(b)
    <3>1. Len(bytes) = k /\ w + k <= len[c]
      OBVIOUS
    <3> QED
      BY <1>2, <3>1
  <2> QED
    BY <1>2, <2>1, OverwriteIs, ZenonT(60)
<1> HIDE DEF n
<1>4. /\ \A i \in 1 .. w : n[i] = iov[c][i]
      /\ \A i \in 1 .. k : n[w + i] = g[total + i]
  BY <1>3 DEF b
<1>5. total + k <= Len(g) /\ Len(n) = len[c]
  BY <1>0, <1>2, <1>3
<1> HIDE DEF g
<1>6. Filled(len, iov, g, c, w, total)
  BY DEF g
<1>7. Filled(len, [iov EXCEPT ![c] = n], g, c, w + k, total + k)
  BY <1>3, <1>4, <1>5, <1>6, StoresHold
<1>8. iov' = [iov EXCEPT ![c] = n]
  BY DEF n, b
<1>9. Filled(len, iov', IOVecGoal, curr', written', total')
  BY <1>7, <1>8 DEF g
<1>10. total' \in 0 .. iovLimit
  BY <1>0, <1>5
<1> QED
  BY <1>9, <1>10 DEF Filled

\* Bytes that are left of s, when k of them are taken.
LEMMA RestIs ==
  ASSUME NEW s \in Seq(Nat), NEW k \in Nat, k <= Len(s)
  PROVE  /\ SubSeq(s, 1, k) \in Seq(Nat) /\ Len(SubSeq(s, 1, k)) = k
         /\ \A i \in 1 .. k : SubSeq(s, 1, k)[i] = s[i]
         /\ SubSeq(s, k + 1, Len(s)) \in Seq(Nat) /\ Len(SubSeq(s, k + 1, Len(s))) = Len(s) - k
         /\ \A i \in 1 .. Len(s) - k : SubSeq(s, k + 1, Len(s))[i] = s[k + i]
<1>1. Len(s) \in Nat
  OBVIOUS
<1>2. /\ SubSeq(s, 1, k) \in Seq(Nat) /\ Len(SubSeq(s, 1, k)) = k
      /\ \A i \in 1 .. k : SubSeq(s, 1, k)[i] = s[i]
  BY <1>1, PartIs
<1> DEFINE m == k + 1
           n == Len(s)
           r == SubSeq(s, m, n)
<1>3. m \in Nat /\ n \in Nat /\ 1 <= m /\ n <= Len(s) /\ m <= n + 1
  BY <1>1
<1>4. n - m + 1 = n - k /\ \A i \in 1 .. n - k : m + i - 1 = k + i
  BY <1>1
<1> HIDE DEF m, n
<1>5. r \in Seq(Nat) /\ Len(r) = n - m + 1 /\ \A i \in 1 .. n - m + 1 : r[i] = s[m + i - 1]
  BY <1>3, PartIs
<1> HIDE DEF r
<1>6. r \in Seq(Nat) /\ Len(r) = n - k /\ \A i \in 1 .. n - k : r[i] = s[k + i]
  BY <1>4, <1>5
<1> QED
  BY <1>2, <1>6 DEF r, n, m

LEMMA IOVecAppendRound ==
  ASSUME IOVecInv, IOVec!AppendRound
  PROVE  IOVecSteps
<1> DEFINE to == IF IOVec!Full THEN curr + 1 ELSE curr
           at == IF IOVec!Full THEN 0 ELSE written
           k == IOVec!Least(Len(iovSrc), len[to] - at)
           bytes == SubSeq(iovSrc, 1, k)
<1>0. /\ iovPc \in {"append", "appendSelf"} /\ iovSrc # <<>> /\ to <= Len(len)
      /\ iov' = [iov EXCEPT ![to] = Overwrite(iov[to], at, bytes)]
      /\ curr' = to /\ written' = at + k /\ total' = total + k
      /\ iovSrc' = SubSeq(iovSrc, k + 1, Len(iovSrc))
      /\ UNCHANGED <<len, iovLimit, iovCall, iovPc, iovRefused, spoiled, iovDone>>
      /\ UNCHANGED <<from, fromOffset, back, iovLeft>>
  BY IOVecSums, OneMemory DEF IOVec!AppendRound, IOVec!copyVars
<1>1. /\ len[curr] \in Nat /\ curr \in Nat /\ written \in 0 .. len[curr] /\ total \in Nat
      /\ len \in Seq(Nat) /\ Len(len) \in Nat
      /\ iovSrc \in Seq(Nat) /\ Len(iovSrc) \in Nat /\ from \in 1 .. curr
  BY IOVecPlaces, LengthIs DEF IOVecInv, IOVecShape
<1>2. ~spoiled
  <2> SUFFICES ASSUME spoiled PROVE FALSE
    OBVIOUS
  <2>1. curr = Len(len) /\ written = len[curr]
    BY DEF IOVecInv, IOVecSpoilt
  <2>2. IOVec!Full
    BY <1>1, <2>1 DEF IOVec!Full
  <2> QED
    BY <1>0, <1>1, <2>1, <2>2
<1>3. Filled(len, iov, IOVecGoal, to, at, total) /\ curr <= to
  <2>1. Filled(len, iov, IOVecGoal, curr, written, total)
    BY <1>2 DEF IOVecInv, IOVecFills
  <2>2. CASE IOVec!Full
    <3>1. written = len[curr]
      BY <1>1, <2>2 DEF IOVec!Full
    <3>2. curr + 1 <= Len(len)
      BY <1>0, <2>2
    <3>3. Filled(len, iov, IOVecGoal, curr + 1, 0, total)
      BY <2>1, <3>1, <3>2, FilledOn
    <3> QED
      BY <1>1, <2>2, <3>3
  <2>3. CASE ~IOVec!Full
    BY <1>1, <2>1, <2>3
  <2> QED
    BY <2>2, <2>3
<1>4. to \in 1 .. Len(len) /\ at \in 0 .. len[to] /\ len[to] \in Nat
  <2>1. to \in 1 .. Len(len) /\ at \in 0 .. len[to]
    BY <1>3 DEF Filled
  <2> QED
    BY <1>1, <2>1
<1> HIDE DEF to, at
<1>5. k \in Nat /\ k <= Len(iovSrc) /\ at + k <= len[to] /\ at \in Nat
  <2>1. len[to] - at \in Nat
    BY <1>4
  <2>2. k \in Nat /\ k <= Len(iovSrc) /\ k <= len[to] - at
    BY <1>1, <2>1, LeastIs
  <2> HIDE DEF k
  <2> QED
    BY <1>4, <2>2
<1> HIDE DEF k
<1>6. /\ bytes \in Seq(Nat) /\ Len(bytes) = k
      /\ \A i \in 1 .. k : bytes[i] = iovSrc[i]
      /\ iovSrc' \in Seq(Nat) /\ Len(iovSrc') = Len(iovSrc) - k
      /\ \A i \in 1 .. Len(iovSrc) - k : iovSrc'[i] = iovSrc[k + i]
  BY <1>0, <1>1, <1>5, RestIs
<1> HIDE DEF bytes
<1>7. /\ Len(iovDone) <= total /\ Len(iovDone) + iovCall.len <= iovLimit
      /\ total + Len(iovSrc) <= Len(iovDone) + iovCall.len
      /\ \A i \in 1 .. Len(iovSrc) : iovSrc[i] = IOVecGoal[total + i]
  BY <1>0, <1>2 DEF IOVecInv, IOVecFills
<1>8. Len(iovDone) \in Nat /\ iovCall.len \in Nat
  BY <1>0, <1>2, IOVecGoalIs
<1>9. /\ total + k <= Len(iovDone) + iovCall.len
      /\ \A i \in 1 .. k : bytes[i] = IOVecGoal[total + i]
  <2> DEFINE m == Len(iovSrc)
             n == Len(iovDone) + iovCall.len
  <2>1. m \in Nat /\ n \in Nat /\ k <= m /\ total + m <= n
    <3>1. m \in Nat /\ k <= m
      BY <1>1, <1>5
    <3>2. total + m <= n
      BY <1>7
    <3>3. n \in Nat
      <4> DEFINE d == Len(iovDone)
                 e == iovCall.len
      <4>1. d \in Nat /\ e \in Nat
        BY <1>8
      <4> HIDE DEF d, e
      <4>2. d + e \in Nat
        BY <4>1
      <4> QED
        BY <4>2 DEF d, e
    <3> QED
      BY <3>1, <3>2, <3>3
  <2>2. \A i \in 1 .. m : iovSrc[i] = IOVecGoal[total + i]
    BY <1>7
  <2> HIDE DEF m, n
  <2>3. total + k <= n
    BY <1>1, <1>5, <2>1
  <2>4. \A i \in 1 .. k : bytes[i] = IOVecGoal[total + i]
    <3> TAKE i \in 1 .. k
    <3>1. i \in 1 .. m
      BY <1>5, <2>1
    <3> QED
      BY <1>6, <2>2, <3>1
  <2> QED
    BY <2>3, <2>4 DEF n
<1>10. /\ Filled(len, iov', IOVecGoal, curr', written', total')
       /\ Hold(len, iov') /\ curr' \in 1 .. Len(len) /\ written' \in 0 .. len[curr']
       /\ total' = Sum(len)[curr' - 1] + written' /\ total' \in 0 .. iovLimit
  BY <1>0, <1>2, <1>3, <1>5, <1>6, <1>9, IOVecStores
<1>11. IOVecShape'
  <2>1. from' \in 1 .. curr'
    <3>1. curr' \in Nat /\ curr <= curr'
      BY <1>0, <1>1, <1>3, <1>4
    <3> QED
      BY <1>0, <1>1, <3>1
  <2> QED
    BY <1>0, <1>6, <1>10, <2>1 DEF IOVecInv, IOVecShape
<1>12. IOVecControl'
  BY <1>0 DEF IOVecInv, IOVecControl
<1>13. IOVecFills'
  <2>1. IOVecGoal' = IOVecGoal
    BY <1>0 DEF IOVecGoal
  <2>2. total' + Len(iovSrc') = total + Len(iovSrc) /\ Len(iovDone) <= total'
    <3> DEFINE m == Len(iovSrc)
               n == Len(iovSrc')
               d == Len(iovDone)
    <3>1. m \in Nat /\ n = m - k /\ d \in Nat /\ d <= total
      BY <1>1, <1>6, <1>7, <1>8
    <3>2. total' = total + k
      BY <1>0
    <3> HIDE DEF m, n, d
    <3>3. total' + n = total + m /\ d <= total'
      BY <1>1, <1>5, <3>1, <3>2
    <3> QED
      BY <3>3 DEF m, n, d
  <2>3. \A i \in 1 .. Len(iovSrc') : iovSrc'[i] = IOVecGoal[total' + i]
    <3> TAKE i \in 1 .. Len(iovSrc')
    <3>1. i \in 1 .. Len(iovSrc) - k /\ k + i \in 1 .. Len(iovSrc) /\ total' + i = total + (k + i)
      BY <1>0, <1>1, <1>5, <1>6
    <3> QED
      BY <1>6, <1>7, <3>1
  <2>4. IOVecFills
    BY <1>2 DEF IOVecInv
  <2>5. iovPc' \notin {"idle", "call", "locate", "copy"} /\ iovPc \notin {"idle", "call", "locate", "copy"}
    BY <1>0
  <2>6. iovPc' = "append" => total' + Len(iovSrc') = Len(iovDone) + iovCall.len
    BY <1>0, <2>2, <2>4 DEF IOVecFills
  <2>7. iovPc' = "appendSelf" =>
          /\ iovCall.offset \in 1 .. Len(iovDone)
          /\ total' + Len(iovSrc') + iovLeft = Len(iovDone) + iovCall.len
          /\ iovLeft > 0 => Sum(len)[from - 1] + fromOffset
                              = total' + Len(iovSrc') - iovCall.offset + 0
    <3>1. CASE iovPc = "appendSelf"
      <4>1. /\ iovCall.offset \in 1 .. Len(iovDone)
            /\ total + Len(iovSrc) + iovLeft = Len(iovDone) + iovCall.len
            /\ iovLeft > 0 => Sum(len)[from - 1] + fromOffset
                                = total + Len(iovSrc) - iovCall.offset + 0
        BY <2>4, <3>1 DEF IOVecFills
      <4> DEFINE m == Len(iovSrc)
                 n == Len(iovSrc')
                 o == iovCall.offset
                 s == Sum(len)[from - 1] + fromOffset
                 e == Len(iovDone) + iovCall.len
      <4>2. /\ m \in Nat /\ n = m - k /\ total' = total + k /\ o \in Nat
        BY <1>0, <1>1, <1>2, <1>6, IOVecGoalIs
      <4>3. iovLeft \in Nat
        BY DEF IOVecInv, IOVecShape
      <4>4. total + m + iovLeft = e /\ (iovLeft > 0 => s = total + m - o + 0)
        BY <4>1
      <4> HIDE DEF m, n, o, s, e
      <4>5. total' + n + iovLeft = e /\ (iovLeft > 0 => s = total' + n - o + 0)
        BY <1>1, <1>5, <4>2, <4>3, <4>4
      <4> QED
        BY <4>1, <4>5 DEF m, n, o, s, e
    <3>2. CASE iovPc # "appendSelf"
      BY <1>0, <3>2
    <3> QED
      BY <3>1, <3>2
  <2> QED
    BY <1>0, <1>7, <1>10, <2>1, <2>2, <2>3, <2>5, <2>6, <2>7 DEF IOVecFills
<1>14. [IOVec!Writer!Next]_(IOVec!Writer!vars)
  BY <1>0, IOVecIsSilent
<1> QED
  BY <1>0, <1>2, <1>11, <1>12, <1>13, <1>14 DEF IOVecSteps, IOVecInv

\* TryFastAppend: the bytes that do not count are inside the buffer.
LEMMA IOVecFastAppend ==
  ASSUME IOVecInv, IOVec!TryFastAppend
  PROVE  IOVecSteps
<1> DEFINE n == iovCall.len
           w == Wanted(iovCall, iovDone)
           b == iov[curr]
           bytes == Literal(total, n) \o Blank(IOVecWide - n)
           c == Overwrite(b, written, bytes)
<1>0. /\ iovPc = "call" /\ iovCall.kind = "literal" /\ n <= IOVecWide
      /\ iovLimit - total >= IOVecWide /\ len[curr] - written >= IOVecWide
      /\ iov' = [iov EXCEPT ![curr] = c]
      /\ written' = written + n /\ total' = total + n
      /\ UNCHANGED <<len, iovLimit, curr, iovSrc, spoiled>>
      /\ UNCHANGED <<from, fromOffset, back, iovLeft>>
      /\ IOVec!Returns(TRUE)
  BY OneMemory, OneLiteral DEF IOVec!TryFastAppend, IOVec!FastAppend, IOVec!copyVars
<1>1. /\ iovCall \in IOVec!Calls /\ iovSrc = <<>> /\ n \in Nat
      /\ iovDone \in Seq(Nat) /\ Len(iovDone) \in Nat /\ back \in Nat /\ iovLeft \in Nat
      /\ from \in 1 .. curr /\ fromOffset \in 0 .. len[from]
  BY <1>0, IOVecCallIs, LengthIs DEF IOVecInv, IOVecControl, IOVecShape
<1>2. /\ len[curr] \in Nat /\ curr \in Nat /\ written \in Nat /\ total \in Nat /\ iovLimit \in Nat
      /\ IOVecWide \in Nat /\ IOVecWide >= 1
  BY IOVecPlaces, IOVecNumbers DEF IOVecInv
<1>3. ~spoiled
  <2> SUFFICES ASSUME spoiled PROVE FALSE
    OBVIOUS
  <2>1. written = len[curr]
    BY DEF IOVecInv, IOVecSpoilt
  <2> QED
    BY <1>0, <1>2, <2>1
<1>4. total = Len(iovDone) /\ Filled(len, iov, iovDone, curr, written, total)
  BY <1>0, <1>3 DEF IOVecInv, IOVecFills, IOVecGoal
<1>5. /\ w \in Seq(Nat) /\ Len(w) = Len(iovDone) + n
      /\ \A i \in 1 .. Len(iovDone) : w[i] = iovDone[i]
      /\ \A i \in 1 .. n : w[Len(iovDone) + i] = Len(iovDone) + i
  BY <1>0, <1>1, WantedIs, ZenonT(60)
<1> HIDE DEF w, n
<1>6. Filled(len, iov, w, curr, written, total)
  <2>1. Len(w) >= Len(iovDone)
    <3> DEFINE x == Len(iovDone)
               y == Len(w)
    <3>1. x \in Nat /\ y = x + n
      BY <1>1, <1>5
    <3> HIDE DEF x, y
    <3>2. y >= x
      BY <1>1, <3>1
    <3> QED
      BY <3>2 DEF x, y
  <2> QED
    BY <1>4, <1>5, <2>1, FilledToo
<1>7. b \in Seq(Nat) /\ Len(b) = len[curr]
  BY <1>4 DEF Filled, Hold
<1>8. /\ bytes \in Seq(Nat) /\ Len(bytes) = IOVecWide
      /\ \A i \in 1 .. n : bytes[i] = Literal(total, n)[i]
  <2> DEFINE s == Literal(total, n)
             z == Blank(IOVecWide - n)
  <2>1. s \in Seq(Nat) /\ Len(s) = n
    BY <1>1, <1>2, LiteralIs
  <2>2. z \in Seq(Nat) /\ Len(z) = IOVecWide - n
    <3>1. IOVecWide - n \in Nat
      BY <1>0, <1>1, <1>2
    <3> QED
      BY <3>1, BlankIs
  <2> HIDE DEF s, z
  <2>3. s \o z \in Seq(Nat) /\ Len(s \o z) = Len(s) + Len(z) /\ \A i \in 1 .. Len(s) : (s \o z)[i] = s[i]
    BY <2>1, <2>2, JoinIs
  <2>4. Len(s) + Len(z) = IOVecWide
    BY <1>1, <1>2, <2>1, <2>2
  <2> QED
    BY <2>1, <2>3, <2>4 DEF s, z
<1>9. Literal(total, n) \in Seq(Nat) /\ Len(Literal(total, n)) = n
      /\ \A i \in 1 .. n : Literal(total, n)[i] = total + i
  BY <1>1, <1>2, LiteralIs
<1> HIDE DEF b, bytes
<1>10. /\ c \in Seq(Nat) /\ Len(c) = Len(b)
       /\ \A i \in 1 .. written : c[i] = b[i]
       /\ \A i \in 1 .. n : c[written + i] = Literal(total, n)[i]
  <2> DEFINE added == Literal(total, n)
  <2>1. written + Len(bytes) <= Len(b) /\ Len(added) <= Len(bytes)
    BY <1>0, <1>2, <1>7, <1>8, <1>9
  <2>2. /\ b \in Seq(Nat) /\ bytes \in Seq(Nat) /\ added \in Seq(Nat) /\ written \in Nat
        /\ Len(added) = n /\ \A i \in 1 .. Len(added) : bytes[i] = added[i]
    BY <1>2, <1>7, <1>8, <1>9
  <2> HIDE DEF added
  <2>3. /\ Overwrite(b, written, bytes) \in Seq(Nat) /\ Len(Overwrite(b, written, bytes)) = Len(b)
        /\ \A i \in 1 .. written : Overwrite(b, written, bytes)[i] = b[i]
        /\ \A i \in 1 .. Len(added) : Overwrite(b, written, bytes)[written + i] = added[i]
    BY <2>1, <2>2, StoreIs, ZenonT(60)
  <2> QED
    BY <2>2, <2>3 DEF added
<1> HIDE DEF c
<1>11. \A i \in 1 .. n : c[written + i] = w[total + i]
  BY <1>4, <1>5, <1>9, <1>10
<1>12. /\ written + n <= len[curr] /\ total + n <= Len(w) /\ total + n <= iovLimit
       /\ Len(c) = len[curr] /\ \A i \in 1 .. written : c[i] = iov[curr][i]
  <2>1. written + n <= len[curr] /\ total + n <= iovLimit
    BY <1>0, <1>1, <1>2
  <2>2. total + n = Len(w)
    BY <1>4, <1>5
  <2>3. total + n \in Nat
    BY <1>1, <1>2
  <2> QED
    BY <1>7, <1>10, <2>1, <2>2, <2>3 DEF b
<1>13. Filled(len, [iov EXCEPT ![curr] = c], w, curr, written + n, total + n)
  BY <1>1, <1>6, <1>10, <1>11, <1>12, StoresHold
<1>14. Filled(len, iov', Wanted(iovCall, iovDone), curr', written', total')
  BY <1>0, <1>13 DEF w
<1>15. /\ total' = Len(iovDone) + iovCall.len /\ total' <= iovLimit
       /\ from' \in 1 .. curr' /\ fromOffset' \in 0 .. len[from'] /\ back' \in Nat /\ iovLeft' \in Nat
  BY <1>0, <1>1, <1>4, <1>12 DEF n
<1> QED
  BY <1>0, <1>1, <1>3, <1>14, <1>15, IOVecSucceeds

LEMMA IOVecAppendFromSelf ==
  ASSUME IOVecInv, IOVec!AppendFromSelf
  PROVE  IOVecSteps
<1>0. /\ iovPc = "call" /\ iovCall.kind = "copy"
      /\ UNCHANGED <<len, iovLimit, iovSrc, spoiled, iov, curr, written, total>>
  BY DEF IOVec!AppendFromSelf, IOVec!destination
<1>1. /\ iovCall \in IOVec!Calls /\ ~iovRefused /\ iovCall.len \in Nat /\ iovCall.offset \in Nat
      /\ total \in Nat /\ iovLimit \in Nat /\ iovDone \in Seq(Nat) /\ iovSrc = <<>>
      /\ written \in 0 .. len[curr] /\ curr \in Nat /\ curr >= 1 /\ Len(iovDone) \in Nat
  BY <1>0, IOVecCallIs, IOVecPlaces, LengthIs DEF IOVecInv, IOVecControl, IOVecShape
<1>2. CASE iovCall.offset > total \/ iovCall.offset = 0 \/ iovCall.len > iovLimit - total
  <2>1. IOVec!Returns(FALSE) /\ UNCHANGED <<from, fromOffset, back, iovLeft>>
    BY <1>2 DEF IOVec!AppendFromSelf, IOVec!copyVars
  <2>2. \/ total + iovCall.len > iovLimit
        \/ iovCall.kind = "copy" /\ iovCall.offset \notin 1 .. total
    BY <1>0, <1>1, <1>2
  <2> QED
    BY <1>0, <2>1, <2>2, IOVecRefuses
<1>3. CASE ~(iovCall.offset > total \/ iovCall.offset = 0 \/ iovCall.len > iovLimit - total)
  <2>1. /\ from' = curr /\ fromOffset' = written /\ back' = iovCall.offset /\ iovLeft' = iovCall.len
        /\ iovPc' = "locate" /\ UNCHANGED <<iovCall, iovRefused, iovDone>>
    BY <1>3 DEF IOVec!AppendFromSelf
  <2>2. IOVecShape'
    <3>1. from' \in 1 .. curr' /\ fromOffset' \in 0 .. len[from'] /\ back' \in Nat /\ iovLeft' \in Nat
      BY <1>0, <1>1, <2>1
    <3> QED
      BY <1>0, <2>1, <3>1 DEF IOVecInv, IOVecShape
  <2>3. IOVecControl'
    <3>1. total = Sum(len)[curr - 1] + written
      BY DEF IOVecInv, IOVecShape
    <3>2. iovCall.offset <= Sum(len)[curr - 1] + written
      BY <1>1, <1>3, <3>1
    <3> QED
      BY <1>0, <1>1, <2>1, <3>2 DEF IOVecControl
  <2>4. spoiled => IOVecSpoilt'
    BY <1>0 DEF IOVecInv, IOVecSpoilt
  <2>5. ASSUME ~spoiled PROVE IOVecFills'
    <3> DEFINE w == Wanted(iovCall, iovDone)
               n == iovCall.len
               o == iovCall.offset
    <3>1. total = Len(iovDone) /\ Filled(len, iov, iovDone, curr, written, total)
      BY <1>0, <2>5 DEF IOVecInv, IOVecFills, IOVecGoal
    <3>2. n \in Nat /\ o \in Nat /\ o \in 1 .. total /\ total + n <= iovLimit
      BY <1>1, <1>3
    <3>3. /\ w \in Seq(Nat) /\ Len(w) = Len(iovDone) + iovCall.len
          /\ \A i \in 1 .. Len(iovDone) : w[i] = iovDone[i]
      BY <1>0, <1>1, <3>1, <3>2, WantedIs
    <3>4. IOVecGoal' = w
      BY <2>1 DEF IOVecGoal
    <3> HIDE DEF w
    <3>5. Len(w) >= Len(iovDone)
      BY <1>1, <3>1, <3>2, <3>3
    <3>6. Filled(len, iov, w, curr, written, total)
      BY <3>1, <3>3, <3>5, FilledToo
    <3>7. Filled(len, iov, IOVecGoal, curr, written, total)'
      BY <1>0, <3>4, <3>6
    <3>8. /\ Len(iovSrc') = 0 /\ total + n = total + Len(iovSrc') + n
          /\ \A i \in 1 .. Len(iovSrc') : iovSrc'[i] = IOVecGoal'[total' + i]
      BY <1>0, <1>1, <3>2
    <3>9. Sum(len)[curr - 1] + written = total + 0 - o + o
      <4>1. total = Sum(len)[curr - 1] + written
        BY DEF IOVecInv, IOVecShape
      <4> QED
        BY <1>1, <3>2, <4>1
    <3> QED
      BY <1>0, <1>1, <2>1, <3>1, <3>2, <3>7, <3>8, <3>9 DEF IOVecFills
  <2>6. [IOVec!Writer!Next]_(IOVec!Writer!vars)
    BY <1>0, <2>1, IOVecIsSilent
  <2> QED
    BY <1>0, <2>2, <2>3, <2>4, <2>5, <2>6 DEF IOVecSteps, IOVecInv
<1> QED
  BY <1>2, <1>3

\* Steps of AppendFromSelf that only move the place to copy from.
LEMMA IOVecMoves ==
  ASSUME IOVecInv, iovPc \in {"locate", "copy"}, iovPc' \in {"locate", "copy", "appendSelf"},
         UNCHANGED <<len, iovLimit, iovCall, iovRefused, spoiled, iovDone, iov, curr, written, total>>,
         iovSrc' \in Seq(Nat), from' \in 1 .. curr, fromOffset' \in 0 .. len[from'],
         back' \in Nat, iovLeft' \in Nat,
         iovPc' # "appendSelf" => iovSrc' = <<>>,
         iovPc' = "locate" => back' <= Sum(len)[from' - 1] + fromOffset',
         ~spoiled =>
           /\ total + Len(iovSrc') + iovLeft' = Len(iovDone) + iovCall.len
           /\ \A i \in 1 .. Len(iovSrc') : iovSrc'[i] = IOVecGoal[total + i]
           /\ iovLeft' > 0 => Sum(len)[from' - 1] + fromOffset'
                                = total + Len(iovSrc') - iovCall.offset
                                    + (IF iovPc' = "locate" THEN back' ELSE 0)
  PROVE  IOVecSteps
<1>1. IOVecShape'
  BY DEF IOVecInv, IOVecShape
<1>2. IOVecControl'
  BY DEF IOVecInv, IOVecControl
<1>3. spoiled => IOVecSpoilt'
  BY DEF IOVecInv, IOVecSpoilt
<1>4. ASSUME ~spoiled PROVE IOVecFills'
  <2>1. IOVecFills
    BY <1>4 DEF IOVecInv
  <2>2. IOVecGoal' = IOVecGoal
    BY DEF IOVecGoal
  <2>3. total + Len(iovSrc') <= Len(iovDone) + iovCall.len
    <3> DEFINE m == Len(iovSrc')
               e == Len(iovDone) + iovCall.len
    <3>1. m \in Nat /\ total \in Nat /\ total + m + iovLeft' = e
      BY <1>4, IOVecPlaces, LengthIs DEF IOVecInv
    <3> HIDE DEF m, e
    <3>2. total + m <= e
      BY <3>1
    <3> QED
      BY <3>2 DEF m, e
  <2>4. /\ iovPc' \notin {"idle", "call", "append"} /\ iovPc \notin {"idle", "call", "append"}
        /\ iovPc \in {"appendSelf", "locate", "copy"}
    OBVIOUS
  <2>5. /\ Filled(len, iov, IOVecGoal, curr, written, total)
        /\ Len(iovDone) <= total /\ Len(iovDone) + iovCall.len <= iovLimit
        /\ iovCall.offset \in 1 .. Len(iovDone)
    BY <2>1, <2>4 DEF IOVecFills
  <2> QED
    BY <1>4, <2>2, <2>3, <2>4, <2>5 DEF IOVecFills
<1>5. [IOVec!Writer!Next]_(IOVec!Writer!vars)
  BY IOVecIsSilent
<1> QED
  BY <1>1, <1>2, <1>3, <1>4, <1>5 DEF IOVecSteps, IOVecInv

LEMMA IOVecLocate ==
  ASSUME IOVecInv, IOVec!Locate
  PROVE  IOVecSteps
<1> DEFINE t == total + Len(iovSrc)
           e == Len(iovDone) + iovCall.len
           o == iovCall.offset
           s == Sum(len)[from - 1]
<1>0. /\ iovPc = "locate"
      /\ UNCHANGED <<len, iovLimit, iovCall, iovSrc, iovLeft, iovRefused, spoiled, iovDone>>
      /\ UNCHANGED <<iov, curr, written, total>>
  BY DEF IOVec!Locate, IOVec!destination
<1>1. /\ iovSrc = <<>> /\ iovSrc \in Seq(Nat) /\ back \in Nat /\ iovLeft \in Nat /\ s \in Nat
      /\ back <= s + fromOffset /\ from \in 1 .. curr /\ fromOffset \in 0 .. len[from]
      /\ curr \in Nat /\ len[from] \in Nat /\ Sum(len)[0] = 0 /\ total \in Nat
  BY <1>0, IOVecPlaces, SumIs DEF IOVecInv, IOVecControl, IOVecShape
<1>2. Len(iovSrc) = 0 /\ Len(iovSrc') = 0 /\ iovSrc' = <<>> /\ iovSrc' \in Seq(Nat)
  BY <1>0, <1>1
<1>3. ~spoiled => /\ total + 0 + iovLeft = e /\ o \in Nat
                  /\ iovLeft > 0 => s + fromOffset = total + 0 - o + back
  BY <1>0, <1>2, IOVecGoalIs DEF IOVecInv, IOVecFills
<1>4. CASE fromOffset >= back
  <2>1. /\ fromOffset' = fromOffset - back /\ back' = 0 /\ iovPc' = "copy" /\ from' = from
    BY <1>1, <1>4 DEF IOVec!Locate
  <2>2. fromOffset' \in 0 .. len[from'] /\ back' \in Nat /\ iovLeft' \in Nat /\ from' \in 1 .. curr
    BY <1>0, <1>1, <1>4, <2>1
  <2>3. ~spoiled => /\ total + 0 + iovLeft' = e
                    /\ iovLeft' > 0 => s + fromOffset' = total + 0 - o + 0
    <3> HIDE DEF s, e, o
    <3> QED
      BY <1>0, <1>1, <1>3, <1>4, <2>1
  <2>4. Sum(len)[from' - 1] = s
    BY <2>1
  <2>5. ~spoiled => /\ total + Len(iovSrc') + iovLeft' = e
                    /\ \A i \in 1 .. Len(iovSrc') : iovSrc'[i] = IOVecGoal[total + i]
                    /\ iovLeft' > 0 => Sum(len)[from' - 1] + fromOffset'
                                         = total + Len(iovSrc') - o + 0
    BY <1>2, <2>3, <2>4
  <2> QED
    BY <1>0, <1>2, <2>1, <2>2, <2>5, IOVecMoves
<1>5. CASE fromOffset < back
  <2>1. /\ fromOffset' = len[from - 1] /\ back' = back - fromOffset /\ iovPc' = iovPc /\ from' = from - 1
    BY <1>1, <1>5 DEF IOVec!Locate
  <2>2. from # 1
    <3> SUFFICES ASSUME from = 1 PROVE FALSE
      OBVIOUS
    <3>1. s = 0
      BY <1>1
    <3> HIDE DEF s
    <3> QED
      BY <1>1, <1>5, <3>1
  <2>3. from - 1 \in 1 .. curr /\ from - 1 \in 1 .. Len(len) /\ len \in Seq(Nat)
    BY <1>1, <2>2, IOVecPlaces DEF IOVecInv
  <2>4. len[from - 1] \in Nat
    BY <2>3
  <2>5. Sum(len)[(from - 1) - 1] \in Nat /\ s = Sum(len)[(from - 1) - 1] + len[from - 1]
    <3> DEFINE c == from - 1
    <3>1. c \in 1 .. Len(len) /\ 0 \in 0 .. len[c]
      BY <2>3, <2>4
    <3> HIDE DEF c
    <3>2. Sum(len)[c - 1] \in Nat /\ Sum(len)[c] = Sum(len)[c - 1] + len[c]
      BY <2>3, <3>1, PlaceIs
    <3> QED
      BY <3>2 DEF c
  <2>6. fromOffset' \in 0 .. len[from'] /\ back' \in Nat /\ iovLeft' \in Nat /\ from' \in 1 .. curr
    BY <1>0, <1>1, <1>5, <2>1, <2>3, <2>4
  <2>7. Sum(len)[from' - 1] + fromOffset' = s
    BY <2>1, <2>5
  <2>8. back' <= Sum(len)[from' - 1] + fromOffset'
    <3> HIDE DEF s
    <3>1. back' <= s
      BY <1>1, <1>5, <2>1
    <3> QED
      BY <2>7, <3>1
  <2>9. ~spoiled => /\ total + 0 + iovLeft' = e
                    /\ iovLeft' > 0 => s = total + 0 - o + back'
    <3> HIDE DEF s, e, o
    <3> QED
      BY <1>0, <1>1, <1>3, <1>5, <2>1
  <2>10. ~spoiled => /\ total + Len(iovSrc') + iovLeft' = e
                     /\ \A i \in 1 .. Len(iovSrc') : iovSrc'[i] = IOVecGoal[total + i]
                     /\ iovLeft' > 0 => Sum(len)[from' - 1] + fromOffset'
                                          = total + Len(iovSrc') - o + back'
    BY <1>2, <2>7, <2>9
  <2> QED
    BY <1>0, <1>2, <2>1, <2>6, <2>8, <2>10, IOVecMoves
<1> QED
  BY <1>1, <1>4, <1>5

\* The source of a copy is in an earlier buffer, and what is there is the goal's.
LEMMA IOVecCopyFromEarlier ==
  ASSUME IOVecInv, IOVec!CopyFromEarlier
  PROVE  IOVecSteps
<1> DEFINE k == IOVec!Least(len[from] - fromOffset, iovLeft)
           e == Len(iovDone) + iovCall.len
           o == iovCall.offset
           s == Sum(len)[from - 1]
           m == fromOffset + 1
           n == fromOffset + k
           b == iov[from]
           a == Sum(len)[curr - 1]
<1>0. /\ iovPc = "copy" /\ iovLeft > 0 /\ from # curr
      /\ iovSrc' = SubSeq(b, m, n) /\ iovLeft' = iovLeft - k
      /\ IF iovLeft > k THEN from' = from + 1 /\ fromOffset' = 0
                        ELSE from' = from /\ fromOffset' = fromOffset
      /\ iovPc' = "appendSelf"
      /\ UNCHANGED <<len, iovLimit, iovCall, back, iovRefused, spoiled, iovDone>>
      /\ UNCHANGED <<iov, curr, written, total>>
  BY DEF IOVec!CopyFromEarlier, IOVec!destination
<1>1. /\ iovSrc = <<>> /\ back \in Nat /\ iovLeft \in Nat /\ from \in Nat /\ from >= 1 /\ from < curr
      /\ fromOffset \in 0 .. len[from] /\ curr \in Nat /\ curr <= Len(len) /\ len[from] \in Nat
      /\ total \in Nat /\ len \in Seq(Nat) /\ Len(len) \in Nat
  BY <1>0, IOVecPlaces DEF IOVecInv, IOVecControl, IOVecShape
<1>a. /\ s \in Nat /\ a \in Nat /\ s + len[from] <= a /\ total = a + written /\ written \in Nat
  <2>1. Sum(len)[from] = s + len[from] /\ Sum(len)[from] <= a /\ s \in Nat /\ a \in Nat /\ written \in Nat
    BY <1>1, IOVecPlaces DEF IOVecInv
  <2>2. total = a + written
    BY DEF IOVecInv, IOVecShape
  <2> HIDE DEF s, a
  <2> QED
    BY <2>1, <2>2
<1>2. from + 1 \in 1 .. curr /\ from + 1 \in 1 .. Len(len) /\ len[from + 1] \in Nat /\ from \in 1 .. Len(len)
  <2> DEFINE z == Len(len)
  <2>1. z \in Nat /\ curr <= z
    BY <1>1
  <2> HIDE DEF z
  <2>2. from + 1 \in 1 .. curr /\ from + 1 \in 1 .. z /\ from \in 1 .. z
    BY <1>1, <2>1
  <2> QED
    BY <1>1, <2>2 DEF z
<1>3. k \in Nat /\ k <= iovLeft /\ k <= len[from] - fromOffset /\ (k = iovLeft \/ k = len[from] - fromOffset)
  <2>1. len[from] - fromOffset \in Nat
    BY <1>1
  <2> QED
    BY <1>1, <2>1, LeastIs
<1> HIDE DEF a
<1>4. b \in Seq(Nat) /\ Len(b) = len[from]
  BY <1>2 DEF IOVecInv, IOVecShape, Hold
<1> HIDE DEF k, b
<1>5. m \in Nat /\ n \in Nat /\ 1 <= m /\ n <= Len(b) /\ m <= n + 1 /\ n - m + 1 = k
  BY <1>1, <1>3, <1>4
<1>6. /\ iovSrc' \in Seq(Nat) /\ Len(iovSrc') = k
      /\ \A i \in 1 .. k : iovSrc'[i] = b[m + i - 1]
  <2> HIDE DEF m, n
  <2> QED
    BY <1>0, <1>4, <1>5, PartIs
<1>7. from' \in 1 .. curr /\ fromOffset' \in 0 .. len[from'] /\ back' \in Nat /\ iovLeft' \in Nat
  <2>1. CASE iovLeft > k
    BY <1>0, <1>1, <1>2, <1>3, <2>1
  <2>2. CASE ~(iovLeft > k)
    <3>1. from \in 1 .. curr
      BY <1>1
    <3> QED
      BY <1>0, <1>1, <1>3, <2>2, <3>1
  <2> QED
    BY <2>1, <2>2
<1>8. ASSUME ~spoiled
      PROVE  /\ total + Len(iovSrc') + iovLeft' = e
             /\ \A i \in 1 .. Len(iovSrc') : iovSrc'[i] = IOVecGoal[total + i]
             /\ iovLeft' > 0 => Sum(len)[from' - 1] + fromOffset' = total + Len(iovSrc') - o + 0
  <2>1. /\ total + Len(iovSrc) + iovLeft = e /\ s + fromOffset = total + Len(iovSrc) - o + 0
        /\ o \in 1 .. Len(iovDone) /\ Len(iovDone) <= total
        /\ Filled(len, iov, IOVecGoal, curr, written, total)
    BY <1>0, <1>8 DEF IOVecInv, IOVecFills
  <2>2. /\ iovCall.len \in Nat /\ Len(iovDone) \in Nat
        /\ \A i \in Len(iovDone) + 1 .. Len(iovDone) + iovCall.len :
             IOVecGoal[i] = IOVecGoal[i - o]
    BY <1>0, <1>8, IOVecGoalIs
  <2>3. Len(iovSrc) = 0 /\ o \in Nat
    BY <1>1, <2>1, <2>2
  <2> DEFINE d == Len(iovDone)
  <2>4. /\ total + iovLeft = e /\ s + fromOffset = total - o /\ o <= d /\ d <= total /\ d \in Nat
        /\ o >= 1
    <3>1. d \in Nat /\ d <= total /\ o \in 1 .. d /\ s + fromOffset = total + 0 - o + 0 /\ total + 0 + iovLeft = e
      BY <2>1, <2>2, <2>3
    <3>2. e \in Nat
      <4> DEFINE x == iovCall.len
      <4>1. x \in Nat
        BY <2>2
      <4> HIDE DEF x, d
      <4>2. d + x \in Nat
        BY <3>1, <4>1
      <4> QED
        BY <4>2 DEF d, x
    <3> HIDE DEF s, e, o, d
    <3> QED
      BY <1>1, <1>a, <2>3, <3>1, <3>2
  <2>5. total + k + iovLeft' = e
    <3> HIDE DEF e, d
    <3> QED
      BY <1>0, <1>1, <1>3, <2>4
  <2>6. \A i \in 1 .. k : iovSrc'[i] = IOVecGoal[total + i]
    <3> TAKE i \in 1 .. k
    <3>1. /\ fromOffset + i \in 1 .. len[from] /\ m + i - 1 = fromOffset + i
          /\ s + (fromOffset + i) <= total /\ s + (fromOffset + i) = (total + i) - o
      <4> DEFINE x == len[from]
                 f == fromOffset
      <4>1. /\ x \in Nat /\ f \in Nat /\ s \in Nat /\ o \in Nat /\ total \in Nat
            /\ k \in Nat /\ k <= x - f /\ s + f = total - o
        BY <1>1, <1>a, <1>3, <2>4, <2>3
      <4>2. s + x <= total
        <5> HIDE DEF s, x
        <5> QED
          BY <1>a, <4>1 DEF x
      <4> HIDE DEF s, e, d, o, x, f
      <4>3. f + i \in 1 .. x /\ s + (f + i) <= total /\ s + (f + i) = (total + i) - o
        BY <4>1, <4>2
      <4>4. m + i - 1 = f + i
        BY <4>1 DEF f
      <4> QED
        BY <4>3, <4>4 DEF x, f
    <3>2. total + i \in d + 1 .. e
      <4> HIDE DEF e, d
      <4> QED
        BY <1>1, <1>3, <2>4
    <3>3. b[fromOffset + i] = IOVecGoal[s + (fromOffset + i)]
      <4> DEFINE x == fromOffset + i
      <4>1. x \in 1 .. len[from] /\ s + x <= total
        BY <3>1
      <4> HIDE DEF x
      <4>2. iov[from][x] = IOVecGoal[Sum(len)[from - 1] + x]
        BY <1>2, <2>1, <4>1 DEF Filled, Held
      <4> QED
        BY <4>2 DEF x, b
    <3>4. IOVecGoal[total + i] = IOVecGoal[(total + i) - o]
      <4> DEFINE y == total + i
      <4>1. y \in Len(iovDone) + 1 .. Len(iovDone) + iovCall.len
        BY <3>2
      <4> HIDE DEF y
      <4>2. IOVecGoal[y] = IOVecGoal[y - o]
        BY <2>2, <4>1
      <4> QED
        BY <4>2 DEF y
    <3>5. iovSrc'[i] = b[fromOffset + i]
      BY <1>6, <3>1
    <3>6. IOVecGoal[s + (fromOffset + i)] = IOVecGoal[(total + i) - o]
      BY <3>1
    <3> QED
      BY <3>3, <3>4, <3>5, <3>6
  <2>7. iovLeft' > 0 => Sum(len)[from' - 1] + fromOffset' = total + k - o + 0
    <3> SUFFICES ASSUME iovLeft' > 0 PROVE Sum(len)[from' - 1] + fromOffset' = total + k - o + 0
      OBVIOUS
    <3>1. iovLeft > k /\ k = len[from] - fromOffset
      BY <1>0, <1>1, <1>3
    <3>2. from' - 1 = from /\ fromOffset' = 0
      BY <1>0, <1>1, <3>1
    <3>3. s + len[from] = total + k - o
      <4> DEFINE f == len[from]
      <4>1. /\ f \in Nat /\ k = f - fromOffset /\ fromOffset \in 0 .. f /\ total \in Nat
        BY <1>1, <3>1
      <4>2. s \in Nat /\ o \in Nat /\ s + fromOffset = total - o
        BY <1>a, <2>3, <2>4
      <4> HIDE DEF s, o, f
      <4>3. s + f = total + k - o
        BY <4>1, <4>2
      <4> QED
        BY <4>3 DEF f
    <3>4. Sum(len)[from' - 1] = s + len[from]
      BY <3>2, IOVecPlaces DEF IOVecInv
    <3> HIDE DEF s, o
    <3> QED
      BY <1>1, <1>a, <1>3, <2>3, <3>2, <3>3, <3>4
  <2> QED
    BY <1>6, <2>5, <2>6, <2>7
<1> QED
  BY <1>0, <1>6, <1>7, <1>8, IOVecMoves

LEMMA IOVecCopyNextBuffer ==
  ASSUME IOVecInv, IOVec!CopyNextBuffer
  PROVE  IOVecSteps
<1>0. /\ iovPc = "copy" /\ iovLeft > 0 /\ from = curr /\ written >= len[curr]
      /\ UNCHANGED <<len, iovLimit, iov, total, iovSrc>>
      /\ UNCHANGED <<from, fromOffset, back, iovLeft>>
  BY DEF IOVec!CopyNextBuffer, IOVec!Full, IOVec!copyVars
<1>1. /\ iovSrc = <<>> /\ iovLeft \in Nat /\ total \in Nat /\ curr \in Nat /\ curr <= Len(len) /\ curr >= 1
      /\ Len(len) \in Nat /\ len \in Seq(Nat) /\ written \in 0 .. len[curr] /\ len[curr] \in Nat
  BY <1>0, IOVecPlaces DEF IOVecInv, IOVecControl, IOVecShape
<1>2. written = len[curr]
  BY <1>0, <1>1
<1>3. CASE curr + 1 > Len(len)
  <2>1. /\ spoiled' = TRUE /\ UNCHANGED <<curr, written>> /\ IOVec!Returns(FALSE)
    BY <1>3, IOVecSums DEF IOVec!CopyNextBuffer
  <2>2. curr = Len(len)
    BY <1>1, <1>3
  <2>3. ~spoiled => total < Len(iovDone) + iovCall.len
    <3> SUFFICES ASSUME ~spoiled PROVE total < Len(iovDone) + iovCall.len
      OBVIOUS
    <3> DEFINE e == Len(iovDone) + iovCall.len
    <3>1. total + Len(iovSrc) + iovLeft = e
      BY <1>0 DEF IOVecInv, IOVecFills
    <3>2. Len(iovSrc) = 0
      BY <1>1
    <3> HIDE DEF e
    <3>3. total < e
      BY <1>0, <1>1, <3>1, <3>2
    <3> QED
      BY <3>3 DEF e
  <2> QED
    BY <1>0, <1>1, <2>1, <2>2, <2>3, IOVecSpoils
<1>4. CASE ~(curr + 1 > Len(len))
  <2>1. /\ curr' = curr + 1 /\ written' = 0
        /\ UNCHANGED <<iovCall, iovPc, iovRefused, spoiled, iovDone>>
    BY <1>4, IOVecSums DEF IOVec!CopyNextBuffer
  <2>2. ~spoiled
    <3> SUFFICES ASSUME spoiled PROVE FALSE
      OBVIOUS
    <3>1. curr = Len(len)
      BY DEF IOVecInv, IOVecSpoilt
    <3> QED
      BY <1>1, <1>4, <3>1
  <2>3. curr + 1 <= Len(len)
    BY <1>1, <1>4
  <2>4. IOVecFills /\ IOVecShape /\ IOVecControl
    BY <2>2 DEF IOVecInv
  <2>5. Filled(len, iov, IOVecGoal, curr + 1, 0, total)
    <3>1. Filled(len, iov, IOVecGoal, curr, written, total)
      BY <2>4 DEF IOVecFills
    <3> QED
      BY <1>2, <2>3, <3>1, FilledOn
  <2>6. IOVecFills'
    <3>1. IOVecGoal' = IOVecGoal
      BY <2>1 DEF IOVecGoal
    <3> QED
      BY <1>0, <2>1, <2>4, <2>5, <3>1 DEF IOVecFills
  <2>7. IOVecShape'
    <3>1. from' \in 1 .. curr'
      BY <1>0, <1>1, <2>1
    <3>2. /\ curr' \in 1 .. Len(len) /\ written' \in 0 .. len[curr']
          /\ total' = Sum(len)[curr' - 1] + written'
      BY <1>0, <2>1, <2>5 DEF Filled
    <3> QED
      BY <1>0, <2>1, <2>4, <3>1, <3>2 DEF IOVecShape
  <2>8. IOVecControl'
    BY <1>0, <2>1, <2>4 DEF IOVecControl
  <2>9. [IOVec!Writer!Next]_(IOVec!Writer!vars)
    BY <1>0, <2>1, IOVecIsSilent
  <2> QED
    BY <2>1, <2>2, <2>6, <2>7, <2>8, <2>9 DEF IOVecSteps, IOVecInv
<1> QED
  BY <1>3, <1>4

LEMMA IOVecCopyEnd ==
  ASSUME IOVecInv, IOVec!CopyEnd
  PROVE  IOVecSteps
<1>0. /\ iovPc = "copy" /\ iovLeft = 0 /\ IOVec!Returns(TRUE)
      /\ UNCHANGED <<len, iovLimit, iovSrc, spoiled, iov, curr, written, total>>
      /\ UNCHANGED <<from, fromOffset, back, iovLeft>>
  BY DEF IOVec!CopyEnd, IOVec!destination, IOVec!copyVars
<1>1. /\ iovSrc = <<>> /\ iovCall \in IOVec!Calls /\ iovCall.len \in Nat
      /\ total \in Nat /\ back \in Nat /\ iovLeft \in Nat
      /\ from \in 1 .. curr /\ fromOffset \in 0 .. len[from]
  BY <1>0, IOVecPlaces, IOVecCallIs DEF IOVecInv, IOVecControl, IOVecShape
<1>2. CASE spoiled
  BY <1>0, <1>1, <1>2, IOVecReturns
<1>3. CASE ~spoiled
  <2>1. /\ total + Len(iovSrc) + iovLeft = Len(iovDone) + iovCall.len
        /\ Len(iovDone) + iovCall.len <= iovLimit
        /\ Filled(len, iov, Wanted(iovCall, iovDone), curr, written, total)
        /\ iovCall.offset \in 1 .. Len(iovDone)
    BY <1>0, <1>3 DEF IOVecInv, IOVecFills, IOVecGoal
  <2>2. Len(iovSrc) = 0
    BY <1>1
  <2>3. total = Len(iovDone) + iovCall.len
    BY <1>0, <1>1, <2>1, <2>2
  <2> QED
    BY <1>0, <1>1, <1>3, <2>1, <2>3, IOVecSucceeds
<1> QED
  BY <1>2, <1>3

\* Source and destination are in one buffer, and may overlap.
LEMMA IOVecCopyWithin ==
  ASSUME IOVecInv, IOVec!CopyWithin
  PROVE  IOVecSteps
<1> DEFINE k == IOVec!Least(len[curr] - written, iovLeft)
           e == Len(iovDone) + iovCall.len
           o == iovCall.offset
           s == Sum(len)[curr - 1]
           b == iov[curr]
           g == IOVecGoal
           old == SubSeq(b, 1, written)
           bytes == Repeated(old, written - fromOffset, k)
<1>0. /\ iovPc = "copy" /\ iovLeft > 0 /\ from = curr /\ ~(written >= len[curr])
      /\ iov' = [iov EXCEPT ![curr] = Overwrite(b, written, bytes)]
      /\ written' = written + k /\ fromOffset' = fromOffset + k /\ total' = total + k
      /\ iovLeft' = iovLeft - k
      /\ UNCHANGED <<len, iovLimit, curr, iovCall, iovSrc, from, back, iovPc, iovRefused, spoiled, iovDone>>
  BY OneMemory DEF IOVec!CopyWithin, IOVec!Full
<1>1. /\ iovSrc = <<>> /\ iovLeft \in Nat /\ total \in Nat /\ curr \in Nat /\ back \in Nat
      /\ from \in 1 .. curr /\ curr \in 1 .. Len(len)
      /\ written \in 0 .. len[curr] /\ len[curr] \in Nat /\ fromOffset \in 0 .. len[curr]
      /\ s \in Nat
  BY <1>0, IOVecPlaces DEF IOVecInv, IOVecControl, IOVecShape
<1>2. ~spoiled
  BY <1>0, <1>1 DEF IOVecInv, IOVecSpoilt
<1>3. IOVecFills /\ IOVecShape /\ IOVecControl
  BY <1>2 DEF IOVecInv
<1>4. k \in Nat /\ k <= iovLeft /\ k <= len[curr] - written
  <2>1. len[curr] - written \in Nat
    BY <1>1
  <2> QED
    BY <1>1, <2>1, LeastIs
<1> HIDE DEF k
<1>5. /\ total + iovLeft = e /\ s + fromOffset = total - o /\ total = s + written
      /\ o \in Nat /\ o >= 1 /\ o <= total /\ Filled(len, iov, g, curr, written, total)
  <2>1. /\ total + Len(iovSrc) + iovLeft = e /\ s + fromOffset = total + Len(iovSrc) - o + 0
        /\ o \in 1 .. Len(iovDone) /\ Len(iovDone) <= total
        /\ Filled(len, iov, g, curr, written, total)
    BY <1>0, <1>3 DEF IOVecFills
  <2>2. Len(iovSrc) = 0 /\ total = s + written
    BY <1>1, <1>3 DEF IOVecShape
  <2>3. iovCall.len \in Nat /\ Len(iovDone) \in Nat
    BY <1>0, <1>2, IOVecGoalIs
  <2> DEFINE d == Len(iovDone)
  <2>4. d \in Nat /\ o \in 1 .. d /\ d <= total /\ s + fromOffset = total + 0 - o + 0 /\ total + 0 + iovLeft = e
    BY <2>1, <2>2, <2>3
  <2>5. e \in Nat
    <3> DEFINE x == iovCall.len
    <3>1. x \in Nat
      BY <2>3
    <3> HIDE DEF x, d
    <3>2. d + x \in Nat
      BY <2>4, <3>1
    <3> QED
      BY <3>2 DEF d, x
  <2>6. /\ total + iovLeft = e /\ s + fromOffset = total - o
        /\ o \in Nat /\ o >= 1 /\ o <= total
    <3> HIDE DEF s, e, o, d
    <3> QED
      BY <1>1, <2>4, <2>5
  <2> HIDE DEF s, e, o
  <2> QED
    BY <2>1, <2>2, <2>6
<1>6. written - fromOffset = o /\ o <= written /\ fromOffset <= written
  <2> HIDE DEF s, e, o
  <2> QED
    BY <1>1, <1>5
<1>7. /\ g \in Seq(Nat) /\ Len(g) = e /\ Len(iovDone) \in Nat /\ Len(iovDone) <= total
      /\ iovCall.len \in Nat
      /\ \A i \in Len(iovDone) + 1 .. e : g[i] = g[i - o]
  BY <1>0, <1>2, IOVecGoalIs
<1>8. b \in Seq(Nat) /\ Len(b) = len[curr]
  BY <1>3, <1>1 DEF IOVecShape, Hold
<1>9. /\ old \in Seq(Nat) /\ Len(old) = written /\ \A i \in 1 .. written : old[i] = b[i]
  <2>1. written \in Nat /\ written <= Len(b) /\ 1 \in Nat /\ 1 <= written + 1 /\ 1 <= 1
    BY <1>1, <1>8
  <2>2. /\ SubSeq(b, 1, written) \in Seq(Nat) /\ Len(SubSeq(b, 1, written)) = written - 1 + 1
        /\ \A i \in 1 .. written - 1 + 1 : SubSeq(b, 1, written)[i] = b[1 + i - 1]
    <3> HIDE DEF b
    <3> QED
      BY <1>8, <2>1, PartIs
  <2>3. written - 1 + 1 = written /\ \A i \in 1 .. written : 1 + i - 1 = i
    BY <2>1
  <2> HIDE DEF b
  <2> QED
    BY <2>2, <2>3
<1> HIDE DEF g, b, old
<1>10. /\ bytes \in Seq(Nat) /\ Len(bytes) = k
       /\ \A i \in 1 .. k : bytes[i] = old[written - o + 1 + ((i - 1) % o)]
  <2> HIDE DEF o
  <2>1. /\ Repeated(old, o, k) \in Seq(Nat) /\ Len(Repeated(old, o, k)) = k
        /\ \A i \in 1 .. k : Repeated(old, o, k)[i] = old[Len(old) - o + 1 + ((i - 1) % o)]
    BY <1>4, <1>5, <1>6, <1>9, RepeatedIs
  <2> QED
    BY <1>6, <1>9, <2>1
<1> HIDE DEF bytes, e
<1>11. \A p \in total + 1 .. total + k : g[p] = g[p - o]
  <2> TAKE p \in total + 1 .. total + k
  <2>1. p \in Len(iovDone) + 1 .. e
    <3> DEFINE d == Len(iovDone)
    <3>1. d \in Nat /\ d <= total
      BY <1>7
    <3> HIDE DEF d, o, s
    <3>2. p \in d + 1 .. e
      BY <1>1, <1>4, <1>5, <3>1
    <3> QED
      BY <3>2 DEF d
  <2> QED
    BY <1>7, <2>1
<1>12. total + k <= Len(g) /\ total + k <= e /\ e \in Nat
  <2> HIDE DEF o, s
  <2> QED
    BY <1>1, <1>4, <1>5, <1>7
<1>13. \A i \in 1 .. k : g[total + i] = g[total - o + 1 + ((i - 1) % o)]
  <2>1. total \in Nat /\ k \in Nat /\ o \in Nat /\ o >= 1 /\ o <= total /\ g \in Seq(Nat) /\ total + k <= Len(g)
    BY <1>1, <1>4, <1>5, <1>7, <1>12
  <2> HIDE DEF o
  <2> QED
    BY <2>1, <1>11, PeriodIsCopied
<1>14. \A i \in 1 .. k : bytes[i] = g[total + i]
  <2> TAKE i \in 1 .. k
  <2> DEFINE r == (i - 1) % o
             x == written - o + 1 + r
  <2>1. r \in Nat /\ r < o
    <3> HIDE DEF o
    <3> QED
      BY <1>4, <1>5, Around
  <2>2. x \in 1 .. written /\ x \in 1 .. len[curr] /\ s + x <= total /\ s + x = total - o + 1 + r
    <3> HIDE DEF r, o, s
    <3> QED
      BY <1>1, <1>5, <1>6, <2>1
  <2>3. bytes[i] = old[x]
    BY <1>10
  <2>4. b[x] = g[s + x]
    <3> HIDE DEF x
    <3> QED
      BY <1>1, <1>5, <2>2 DEF Filled, Held, b
  <2>5. g[total + i] = g[total - o + 1 + r]
    BY <1>13
  <2> HIDE DEF x, r
  <2>6. old[x] = b[x]
    BY <1>9, <2>2
  <2>7. g[s + x] = g[total - o + 1 + r]
    BY <2>2
  <2> QED
    BY <2>3, <2>4, <2>5, <2>6, <2>7
<1>15. /\ Filled(len, iov', IOVecGoal, curr', written', total')
       /\ Hold(len, iov') /\ curr' \in 1 .. Len(len) /\ written' \in 0 .. len[curr']
       /\ total' = Sum(len)[curr' - 1] + written' /\ total' \in 0 .. iovLimit
  <2>1. written + k <= len[curr] /\ curr <= curr
    BY <1>1, <1>4
  <2> QED
    BY <1>0, <1>2, <1>4, <1>5, <1>10, <1>12, <1>14, <2>1, IOVecStores DEF g, e, b
<1>16. IOVecShape'
  <2>1. from' \in 1 .. curr' /\ fromOffset' \in 0 .. len[from'] /\ iovLeft' \in Nat /\ back' \in Nat
    BY <1>0, <1>1, <1>4, <1>6
  <2> QED
    BY <1>0, <1>3, <1>15, <2>1 DEF IOVecShape
<1>17. IOVecControl'
  BY <1>0, <1>3 DEF IOVecControl
<1>18. IOVecFills'
  <2>1. IOVecGoal' = IOVecGoal
    BY <1>0 DEF IOVecGoal
  <2>2. iovSrc' = <<>> /\ Len(iovSrc') = 0 /\ iovPc' = "copy"
    BY <1>0, <1>1
  <2>3. total' + 0 + iovLeft' = e /\ total' + 0 <= e /\ Len(iovDone) <= total'
    <3> DEFINE d == Len(iovDone)
    <3>1. d \in Nat /\ d <= total
      BY <1>7
    <3> HIDE DEF d, o, s
    <3>2. total' + 0 + iovLeft' = e /\ total' + 0 <= e /\ d <= total'
      BY <1>0, <1>1, <1>4, <1>5, <1>12, <3>1
    <3> QED
      BY <3>2 DEF d
  <2>4. s + fromOffset' = total' + 0 - o + 0
    <3>1. fromOffset' = fromOffset + k /\ total' = total + k /\ fromOffset \in Nat
      BY <1>0, <1>1
    <3>2. s \in Nat /\ o \in Nat /\ total \in Nat /\ s + fromOffset = total - o
      BY <1>1, <1>5
    <3> HIDE DEF o, s
    <3> QED
      BY <1>4, <3>1, <3>2
  <2>5. Sum(len')[from' - 1] + fromOffset' = total' + Len(iovSrc') - iovCall'.offset + 0
    BY <1>0, <2>2, <2>4
  <2>6. iovCall.offset \in 1 .. Len(iovDone) /\ Len(iovDone) + iovCall.len <= iovLimit
    BY <1>0, <1>3 DEF IOVecFills
  <2> QED
    BY <1>0, <1>15, <2>1, <2>2, <2>3, <2>5, <2>6 DEF IOVecFills, e
<1>19. [IOVec!Writer!Next]_(IOVec!Writer!vars)
  BY <1>0, IOVecIsSilent
<1> QED
  BY <1>0, <1>2, <1>16, <1>17, <1>18, <1>19 DEF IOVecSteps, IOVecInv

LEMMA IOVecStep == IOVecInv /\ [IOVec!Next]_IOVec!vars => IOVecSteps
<1> SUFFICES ASSUME IOVecInv, [IOVec!Next]_IOVec!vars PROVE IOVecSteps
  OBVIOUS
<1>1. ASSUME UNCHANGED IOVec!vars PROVE IOVecSteps
  <2>1. /\ UNCHANGED <<len, iov, curr, written, total, iovLimit, iovCall, iovSrc, from, fromOffset>>
        /\ UNCHANGED <<back, iovLeft, iovPc, iovRefused, spoiled, iovDone>>
    BY <1>1 DEF IOVec!vars
  <2>2. IOVecShape' /\ IOVecControl'
    BY <2>1 DEF IOVecInv, IOVecShape, IOVecControl
  <2>3. ~spoiled => IOVecFills'
    BY <2>1 DEF IOVecInv, IOVecFills, IOVecGoal
  <2>4. spoiled => IOVecSpoilt'
    BY <2>1 DEF IOVecInv, IOVecSpoilt
  <2>5. [IOVec!Writer!Next]_(IOVec!Writer!vars)
    BY <2>1, IOVecIsSilent
  <2> QED
    BY <2>1, <2>2, <2>3, <2>4, <2>5 DEF IOVecSteps, IOVecInv
<1>2. ASSUME IOVec!Next PROVE IOVecSteps
  <2>1. ASSUME NEW c \in IOVec!Calls, IOVec!Call(c) PROVE IOVecSteps
    BY <2>1, IOVecCalls
  <2>2. CASE IOVec!AppendStart
    BY <2>2, IOVecAppendStart
  <2>3. CASE IOVec!AppendRound
    BY <2>3, IOVecAppendRound
  <2>4. CASE IOVec!AppendNoBuffer
    BY <2>4, IOVecAppendNoBuffer
  <2>5. CASE IOVec!AppendEnd
    BY <2>5, IOVecAppendEnd
  <2>6. CASE IOVec!TryFastAppend
    BY <2>6, IOVecFastAppend
  <2>7. CASE IOVec!AppendFromSelf
    BY <2>7, IOVecAppendFromSelf
  <2>8. CASE IOVec!Locate
    BY <2>8, IOVecLocate
  <2>9. CASE IOVec!CopyFromEarlier
    BY <2>9, IOVecCopyFromEarlier
  <2>10. CASE IOVec!CopyNextBuffer
    BY <2>10, IOVecCopyNextBuffer
  <2>11. CASE IOVec!CopyWithin
    BY <2>11, IOVecCopyWithin
  <2>12. CASE IOVec!CopyEnd
    BY <2>12, IOVecCopyEnd
  <2>13. CASE IOVec!Stopped
    BY <1>1, <2>13 DEF IOVec!Stopped
  <2> QED
    BY <1>2, <2>1, <2>2, <2>3, <2>4, <2>5, <2>6, <2>7, <2>8, <2>9, <2>10, <2>11, <2>12, <2>13
       DEF IOVec!Next
<1> QED
  BY <1>1, <1>2

\* What the invariant says of the properties.
LEMMA IOVecHolds ==
  ASSUME IOVecInv
  PROVE  /\ IOVec!TypeOK /\ IOVec!InsideBuffers
         /\ IOVec!TotalIsWritten /\ IOVec!SpoiledIsIncomplete
<1>1. /\ IOVecShape /\ IOVecControl
  BY DEF IOVecInv
<1>2. /\ len \in Seq(Nat) /\ Len(len) \in Nat /\ curr \in 1 .. Len(len) /\ written \in 0 .. len[curr]
      /\ len[curr] \in Nat /\ len[from] \in Nat /\ curr \in Nat
      /\ from \in 1 .. curr /\ fromOffset \in 0 .. len[from] /\ total \in 0 .. iovLimit
      /\ iovLimit \in Nat /\ Hold(len, iov)
  BY <1>1, IOVecPlaces DEF IOVecShape
<1>3. IOVec!TypeOK
  <2>1. iovCall \in IOVec!Calls \cup {IOVec!NoCall}
    BY <1>1 DEF IOVecControl
  <2>2. from \in 1 .. Len(len) /\ fromOffset \in Nat /\ written \in Nat
    BY <1>2
  <2>3. iov \in Seq(Seq(Nat)) /\ Len(iov) = Len(len)
    BY <1>2 DEF Hold
  <2>4. /\ len \in IOVecBuffers /\ iovLimit \in IOVecLimits /\ iovSrc \in Seq(Nat)
        /\ iovDone \in Seq(Nat) /\ back \in Nat /\ iovLeft \in Nat
        /\ iovRefused \in BOOLEAN /\ spoiled \in BOOLEAN
    BY <1>1 DEF IOVecShape
  <2>5. iovPc \in {"idle", "call", "append", "appendSelf", "locate", "copy"}
    BY <1>1 DEF IOVecControl
  <2> QED
    BY <1>2, <2>1, <2>2, <2>3, <2>4, <2>5, IOVecSums DEF IOVec!TypeOK
<1>4. IOVec!InsideBuffers
  <2>1. \A i \in 1 .. Len(len) : Len(iov[i]) = len[i]
    BY <1>2 DEF Hold
  <2>2. written <= len[curr] /\ from <= curr
    BY <1>2
  <2>3. iovPc = "locate" => back <= Sum(len)[from - 1] + fromOffset
    BY <1>1 DEF IOVecControl
  <2> QED
    BY <2>1, <2>2, <2>3, IOVecSums DEF IOVec!InsideBuffers
<1>5. IOVec!TotalIsWritten
  <2>1. total = Sum(len)[curr - 1] + written
    BY <1>1 DEF IOVecShape
  <2> QED
    BY <2>1, IOVecSums DEF IOVec!TotalIsWritten
<1>6. IOVec!SpoiledIsIncomplete
  BY DEF IOVecInv, IOVecSpoilt, IOVec!SpoiledIsIncomplete
<1> QED
  BY <1>3, <1>4, <1>5, <1>6

LEMMA IOVecInitIs == IOVec!Init => IOVec!Writer!Init
<1> SUFFICES ASSUME IOVec!Init PROVE IOVec!Writer!Init
  OBVIOUS
<1>1. IOVecInv
  BY IOVecInitInv
<1>2. iovLimit \in Nat /\ Sum(len)[Len(len)] \in Nat
  BY <1>1, IOVecPlaces DEF IOVecInv
<1>3. IOVec!Before[IOVec!Count] \in Nat
  BY <1>2, IOVecSums
<1>4. iovCall = IOVec!NoCall /\ iovDone = <<>> /\ iovRefused = FALSE /\ spoiled = FALSE
  BY DEF IOVec!Init
<1>5. (iovRefused \/ spoiled) = FALSE
  BY <1>4
<1> QED
  BY <1>2, <1>3, <1>4, <1>5, WantedCalls DEF IOVec!Writer!Init

\* What the invariant says of the properties of the array writer.
LEMMA ArrayHolds ==
  ASSUME ArrayInv
  PROVE  Array!TypeOK /\ Array!InsideArray /\ Array!SameVerdict
<1>1. Array!TypeOK /\ Len(array) = arrayLimit /\ arrayRefused = invalid
  BY DEF ArrayInv
<1>2. ~arrayRefused => (arrayOp = arrayLimit) = (arrayProduced = arrayLimit)
  BY DEF ArrayInv
<1> QED
  BY <1>1, <1>2 DEF Array!InsideArray, Array!SameVerdict

LEMMA ArrayInitIs == Array!Init => Array!Writer!Init
<1> SUFFICES ASSUME Array!Init PROVE Array!Writer!Init
  OBVIOUS
<1>1. arrayLimit \in ArrayLimits /\ arrayCall = Array!NoCall /\ arrayDone = <<>> /\ arrayRefused = FALSE
  BY DEF Array!Init
<1>2. arrayLimit \in Nat
  BY <1>1, ArrayInitInv, ArrayNumbers DEF ArrayInv, Array!TypeOK
<1> QED
  BY <1>1, <1>2, WantedCalls DEF Array!Writer!Init

-----------------------------------------------------------------------------
(* SnappyScatteredWriter *)

(***************************************************************************)
(* The inductive invariant.  The blocks hold the beginning of the content  *)
(* that the call under way will leave, or of the literal that was refused, *)
(* up to op_ptr_; none of its bytes is one that nobody wrote.  A block is  *)
(* as large as kBlockSize or reaches the expected length.  When a literal  *)
(* is refused the last block, then full, has been counted twice.           *)
(***************************************************************************)
BlocksAt == IF Len(blocks) = 0 THEN 0 ELSE Sum(sizes)[Len(blocks) - 1]
BlocksEnd == BlocksAt + ptr
BlocksGoal == IF blocksPc \in {"slow", "slowSelf", "self"} THEN Wanted(blocksCall, blocksDone)
              ELSE blocksDone
BlocksHanded == IF flushed = Len(blocks) THEN BlocksEnd ELSE Sum(sizes)[flushed]

WholeBlocks(l, most) ==
  /\ \A i \in 1 .. Len(l) : l[i] \in 1 .. BlockSize
  /\ \A i \in 1 .. Len(l) - 1 : l[i] = BlockSize
  /\ Len(l) > 0 => l[Len(l)] = BlockSize \/ Sum(l)[Len(l)] = most
  /\ Sum(l)[Len(l)] <= most

Covers(l, v, g, t, d) ==
  /\ Held(l, v, g, t)
  /\ g \in Seq(Nat) /\ \A i \in 1 .. Len(g) : g[i] # 0
  /\ Len(d) <= t /\ t <= Len(g)
  /\ \A i \in 1 .. Len(d) : g[i] = d[i]

BlocksShape ==
  /\ blocksLimit \in BlocksLimits
  /\ Hold(sizes, blocks) /\ WholeBlocks(sizes, blocksLimit)
  /\ ptr \in 0 .. Blocks!Limit
  /\ blocksSrc \in Seq(Nat) /\ blocksDone \in Seq(Nat) /\ sink \in Seq(Nat)
  /\ self \in Nat /\ blocksLeft \in Nat
  /\ blocksRefused \in BOOLEAN
  /\ flushed \in 0 .. Len(blocks)
  /\ \/ full = BlocksAt
     \/ blocksRefused /\ full = BlocksAt + Blocks!Limit /\ ptr = Blocks!Limit

BlocksControl ==
  /\ blocksPc \in {"idle", "call", "slow", "slowSelf", "self", "flush", "flushed"}
  /\ IF blocksPc \in {"idle", "flush", "flushed"} THEN blocksCall = Blocks!NoCall
     ELSE blocksCall \in Blocks!Calls /\ ~blocksRefused
  /\ blocksPc \notin {"slow", "slowSelf"} => blocksSrc = <<>>
  /\ blocksPc = "slow" => blocksCall.kind = "literal"
  /\ blocksPc \in {"slowSelf", "self"} => blocksCall.kind = "copy"
  /\ blocksPc \notin {"flush", "flushed"} => flushed = 0 /\ sink = <<>>
  /\ blocksPc = "flushed" => flushed = Len(blocks)

BlocksFills ==
  /\ blocksPc \notin {"slow", "slowSelf", "self"} => BlocksEnd = Len(blocksDone)
  /\ blocksPc \in {"slow", "slowSelf", "self"} =>
       /\ BlocksEnd + Len(blocksSrc) <= Len(blocksDone) + blocksCall.len
       /\ \A i \in 1 .. Len(blocksSrc) : blocksSrc[i] = BlocksGoal[BlocksEnd + i]
  /\ blocksPc = "slow" => BlocksEnd + Len(blocksSrc) = Len(blocksDone) + blocksCall.len
  /\ blocksPc \in {"slowSelf", "self"} =>
       /\ blocksCall.offset \in 1 .. Len(blocksDone)
       /\ Len(blocksDone) + blocksCall.len <= blocksLimit
       /\ BlocksEnd + Len(blocksSrc) + blocksLeft = Len(blocksDone) + blocksCall.len
       /\ blocksLeft > 0 => self + blocksCall.offset = BlocksEnd + Len(blocksSrc)

BlocksKeep == \E g : /\ Covers(sizes, blocks, g, BlocksEnd, blocksDone)
                     /\ ~blocksRefused => g = BlocksGoal
                     /\ blocksPc \in {"flush", "flushed"} => sink = SubSeq(g, 1, BlocksHanded)

BlocksInv == /\ BlocksShape /\ BlocksControl /\ BlocksKeep
             /\ ~blocksRefused => BlocksFills

\* A step of the scattered writer is one of the abstract writer, or none.
BlocksSteps == BlocksInv' /\ [Blocks!Writer!Next]_(Blocks!Writer!vars)

LEMMA BlocksSums ==
  /\ Blocks!Flat = Joined(blocks, Len(blocks)) /\ Blocks!Last = Len(blocks)
  /\ Blocks!Flat' = Joined(blocks', Len(blocks')) /\ Blocks!Last' = Len(blocks')
BY DEF Blocks!Flat, Blocks!Last, Joined

LEMMA BlocksCallIs ==
  ASSUME NEW c \in Blocks!Calls
  PROVE  /\ c.kind \in {"literal", "copy"} /\ c.offset \in Nat /\ c.len \in Nat
         /\ c.kind = "literal" => c.offset = 0
         /\ c # Blocks!NoCall
<1> USE WritersAssumption DEF Blocks!Calls, Blocks!Literals, Blocks!Copies, Blocks!NoCall
<1>1. CASE c \in Blocks!Literals
  BY <1>1
<1>2. CASE c \in Blocks!Copies
  BY <1>2
<1> QED
  BY <1>1, <1>2

LEMMA BlocksNumbers ==
  /\ BlockSize \in Nat /\ BlockSize >= 1 /\ BlocksWide \in Nat /\ BlocksWide >= 1
  /\ Blocks!MaxSize \in Nat
  /\ \A l \in BlocksLimits : l \in Nat /\ l <= Blocks!MaxSize
<1>1. Array!MaxSize \in Nat /\ Blocks!MaxSize = Array!MaxSize
  BY SMT DEF Array!MaxSize, Blocks!MaxSize
<1>2. BlockSize \in Nat /\ BlockSize >= 1 /\ BlocksWide \in Nat /\ BlocksWide >= 1
  BY WritersAssumption
<1>3. BlocksLimits \subseteq 0 .. Array!MaxSize
  BY WritersAssumption
<1> QED
  BY <1>1, <1>2, <1>3

\* What is said of places.
LEMMA BlocksPlaces ==
  ASSUME BlocksShape
  PROVE  /\ sizes \in Seq(Nat) /\ Len(sizes) \in Nat /\ Len(blocks) = Len(sizes)
         /\ blocksLimit \in Nat /\ blocksLimit <= Blocks!MaxSize /\ Blocks!MaxSize \in Nat
         /\ BlockSize \in Nat /\ BlockSize >= 1
         /\ Blocks!Limit \in Nat /\ ptr \in Nat /\ ptr <= Blocks!Limit
         /\ Blocks!Avail \in Nat /\ Blocks!Avail = Blocks!Limit - ptr
         /\ BlocksAt \in Nat /\ BlocksEnd \in Nat /\ BlocksEnd = BlocksAt + ptr
         /\ Sum(sizes)[Len(sizes)] \in Nat /\ Sum(sizes)[Len(sizes)] <= blocksLimit
         /\ Sum(sizes)[Len(sizes)] = BlocksAt + Blocks!Limit
         /\ Len(sizes) = 0 => BlocksAt = 0 /\ ptr = 0 /\ Blocks!Limit = 0
         /\ Len(sizes) # 0 => /\ Blocks!Limit = sizes[Len(sizes)] /\ Len(sizes) \in 1 .. Len(sizes)
                              /\ BlocksAt = Sum(sizes)[Len(sizes) - 1]
<1> DEFINE n == Len(sizes)
           s == Sum(sizes)
<1>1. sizes \in Seq(Nat) /\ n \in Nat /\ Len(blocks) = n
  BY DEF BlocksShape, Hold
<1>2. s \in [0 .. n -> Nat] /\ s[0] = 0 /\ \A k \in 1 .. n : s[k] = s[k - 1] + sizes[k] /\ sizes[k] \in Nat
  <2>1. /\ s \in [0 .. n -> Nat] /\ s[0] = 0 /\ \A k \in 1 .. n : s[k] = s[k - 1] + sizes[k]
    BY <1>1, SumIs
  <2>2. \A k \in 1 .. n : sizes[k] \in Nat
    BY <1>1
  <2> QED
    BY <2>1, <2>2
<1>3. /\ blocksLimit \in Nat /\ blocksLimit <= Blocks!MaxSize /\ Blocks!MaxSize \in Nat
      /\ BlockSize \in Nat /\ BlockSize >= 1 /\ s[n] <= blocksLimit
  BY BlocksNumbers DEF BlocksShape, WholeBlocks
<1>4. ptr \in 0 .. Blocks!Limit
  BY DEF BlocksShape
<1>5. CASE n = 0
  <2>1. Blocks!Limit = 0 /\ BlocksAt = 0
    BY <1>1, <1>5, BlocksSums DEF Blocks!Limit, BlocksAt
  <2>2. ptr = 0 /\ s[n] = 0
    BY <1>2, <1>4, <1>5, <2>1
  <2> HIDE DEF n, s
  <2> QED
    BY <1>1, <1>3, <1>5, <2>1, <2>2 DEF BlocksEnd, Blocks!Avail, n, s
<1>6. CASE n # 0
  <2>1. Blocks!Limit = sizes[n] /\ BlocksAt = s[n - 1]
    BY <1>1, <1>6, BlocksSums DEF Blocks!Limit, BlocksAt
  <2>2. n \in 1 .. n /\ n - 1 \in 0 .. n /\ n \in 0 .. n
    BY <1>1, <1>6
  <2>3. s[n] = BlocksAt + Blocks!Limit /\ BlocksAt \in Nat /\ Blocks!Limit \in Nat /\ s[n] \in Nat
    <3> HIDE DEF s
    <3> QED
      BY <1>2, <2>1, <2>2
  <2>4. ptr \in Nat /\ ptr <= Blocks!Limit
    BY <1>4, <2>3
  <2>5. BlocksEnd = BlocksAt + ptr /\ Blocks!Avail = Blocks!Limit - ptr
    BY DEF BlocksEnd, Blocks!Avail
  <2>6. BlocksEnd \in Nat /\ Blocks!Avail \in Nat
    BY <2>3, <2>4, <2>5
  <2> QED
    BY <1>1, <1>3, <1>6, <2>1, <2>2, <2>3, <2>4, <2>5, <2>6
<1> QED
  BY <1>5, <1>6

\* Whole blocks and a place in the next one.
LEMMA BlockOf ==
  ASSUME NEW p \in Nat, NEW b \in Nat, b >= 1
  PROVE  /\ p \div b \in Nat /\ p % b \in Nat /\ p % b < b
         /\ ((p \div b) * b) + (p % b) = p
<1> DEFINE q == p \div b
           r == p % b
<1>1. q \in Int /\ p = b * q + r /\ r \in 0 .. b - 1
  OBVIOUS
<1> HIDE DEF q, r
<1>3. q \in Int /\ r \in Nat /\ r < b /\ p = b * q + r
  BY <1>1
<1>4. b * q = q * b
  BY <1>3
<1>5. q \in Nat
  <2> SUFFICES ASSUME q < 0 PROVE FALSE
    BY <1>3
  <2>1. b * q <= b * (0 - 1)
    BY <1>3
  <2> QED
    BY <1>3, <2>1
<1>6. q \in Nat /\ r \in Nat /\ r < b /\ q * b + r = p
  BY <1>3, <1>4, <1>5
<1> QED
  BY <1>6 DEF q, r

LEMMA SumsOfBlocks ==
  ASSUME NEW l \in Seq(Nat), NEW b \in Nat, \A i \in 1 .. Len(l) - 1 : l[i] = b
  PROVE  \A i \in 0 .. Len(l) : i < Len(l) => Sum(l)[i] = i * b
<1> DEFINE n == Len(l)
           s == Sum(l)
           Differ == {i \in 0 .. n : i < n /\ s[i] # i * b}
<1> SUFFICES ASSUME Differ # {} PROVE FALSE
  OBVIOUS
<1>1. n \in Nat /\ s[0] = 0 /\ s \in [0 .. n -> Nat] /\ \A k \in 1 .. n : s[k] = s[k - 1] + l[k]
  BY SumIs
<1> HIDE DEF s
<1>2. PICK i \in Differ : \A j \in Differ : i <= j
  <2>1. Differ \in SUBSET Nat
    BY <1>1
  <2> HIDE DEF Differ
  <2> QED
    BY <2>1, Facts!LeastOfNat
<1>3. i \in 0 .. n /\ i < n /\ s[i] # i * b
  OBVIOUS
<1>4. i # 0
  BY <1>1, <1>3
<1>5. i \in 1 .. n /\ i \in 1 .. n - 1 /\ i - 1 \in 0 .. n /\ i - 1 < n /\ i - 1 < i
  BY <1>1, <1>3, <1>4
<1>6. s[i - 1] = (i - 1) * b
  <2>1. i - 1 \notin Differ
    <3> HIDE DEF Differ
    <3> QED
      BY <1>2, <1>5, <1>1
  <2> QED
    BY <1>5, <2>1
<1>7. s[i] = s[i - 1] + b
  BY <1>1, <1>5
<1>8. (i - 1) * b + b = i * b
  BY <1>1, <1>5
<1> QED
  BY <1>3, <1>6, <1>7, <1>8

\* Bytes of g that are stored at op_ptr_, with others behind them.
LEMMA BlocksStored ==
  ASSUME BlocksShape, NEW g, Covers(sizes, blocks, g, BlocksEnd, blocksDone),
         NEW bytes \in Seq(Nat), Len(bytes) <= Blocks!Avail, NEW k \in Nat, k <= Len(bytes),
         BlocksEnd + k <= Len(g), \A i \in 1 .. k : bytes[i] = g[BlocksEnd + i]
  PROVE  /\ Hold(sizes, Blocks!Stored(bytes)) /\ Len(Blocks!Stored(bytes)) = Len(blocks)
         /\ Covers(sizes, Blocks!Stored(bytes), g, BlocksEnd + k, blocksDone)
<1> DEFINE n == Len(sizes)
           t == BlocksEnd
           v == Blocks!Stored(bytes)
           b == blocks[n]
           c == Overwrite(b, ptr, bytes)
<1>1. /\ sizes \in Seq(Nat) /\ n \in Nat /\ Len(blocks) = n /\ ptr \in Nat
      /\ Blocks!Limit \in Nat /\ ptr <= Blocks!Limit /\ Blocks!Avail = Blocks!Limit - ptr
      /\ t \in Nat /\ t = BlocksAt + ptr
      /\ n = 0 => Blocks!Limit = 0
      /\ n # 0 => Blocks!Limit = sizes[n] /\ n \in 1 .. n /\ BlocksAt = Sum(sizes)[n - 1]
  BY BlocksPlaces
<1>2. /\ Held(sizes, blocks, g, t) /\ g \in Seq(Nat) /\ \A i \in 1 .. Len(g) : g[i] # 0
      /\ Len(blocksDone) <= t /\ t <= Len(g)
      /\ \A i \in 1 .. Len(blocksDone) : g[i] = blocksDone[i]
  BY DEF Covers
<1>3. Len(bytes) \in Nat /\ Len(blocksDone) \in Nat /\ Hold(sizes, blocks)
  BY LengthIs DEF BlocksShape
<1>4. Len(blocksDone) <= t + k
  <2> DEFINE d == Len(blocksDone)
  <2>1. d \in Nat /\ d <= t
    BY <1>2, <1>3
  <2> HIDE DEF d, t
  <2>2. d <= t + k
    BY <1>1, <2>1
  <2> QED
    BY <2>2 DEF d
<1> HIDE DEF t
<1>5. Hold(sizes, v) /\ Held(sizes, v, g, t + k) /\ Len(v) = n
  <2>1. CASE n = 0
    <3>1. v = blocks
      BY <1>1, <2>1, BlocksSums DEF Blocks!Stored
    <3>2. k = 0
      BY <1>1, <1>3, <2>1
    <3>3. t + k = t
      BY <1>1, <3>2
    <3> QED
      BY <1>1, <1>2, <1>3, <3>1, <3>3
  <2>2. CASE n # 0
    <3>1. v = [blocks EXCEPT ![n] = c]
      BY <1>1, <2>2, BlocksSums, OneMemory DEF Blocks!Stored
    <3>2. b \in Seq(Nat) /\ Len(b) = sizes[n] /\ sizes[n] \in Nat
      BY <1>1, <1>3, <2>2 DEF Hold
    <3>3. ptr + Len(bytes) <= Len(b) /\ ptr + k <= sizes[n]
      BY <1>1, <1>3, <2>2, <3>2
    <3> HIDE DEF b, v
    <3>4. /\ c \in Seq(Nat) /\ Len(c) = Len(b)
          /\ \A i \in 1 .. ptr : c[i] = b[i]
          /\ \A i \in 1 .. Len(bytes) : c[ptr + i] = bytes[i]
      <4>1. ptr \in Nat /\ b \in Seq(Nat) /\ bytes \in Seq(Nat) /\ ptr + Len(bytes) <= Len(b)
        BY <1>1, <3>2, <3>3
      <4> QED
        BY <4>1, OverwriteIs
    <3> HIDE DEF c
    <3>5. \A i \in 1 .. k : c[ptr + i] = g[t + i]
      <4> TAKE i \in 1 .. k
      <4>1. i \in 1 .. Len(bytes)
        BY <1>3
      <4>2. bytes[i] = g[t + i]
        BY DEF t
      <4> QED
        BY <3>4, <4>1, <4>2
    <3>6. Filled(sizes, blocks, g, n, ptr, t)
      <4>1. ptr \in 0 .. sizes[n] /\ t = Sum(sizes)[n - 1] + ptr
        BY <1>1, <2>2
      <4> QED
        BY <1>1, <1>2, <1>3, <2>2, <4>1 DEF Filled
    <3>7. t + k <= Len(g) /\ Len(c) = sizes[n] /\ \A i \in 1 .. ptr : c[i] = blocks[n][i]
      BY <3>2, <3>4 DEF t, b
    <3>8. Filled(sizes, [blocks EXCEPT ![n] = c], g, n, ptr + k, t + k)
      BY <3>3, <3>4, <3>5, <3>6, <3>7, StoresHold
    <3> QED
      BY <1>1, <3>1, <3>8 DEF Filled, Hold
  <2> QED
    BY <2>1, <2>2
<1> QED
  BY <1>1, <1>2, <1>4, <1>5 DEF Covers, t

\* What a covered piece of memory holds.
LEMMA BlocksContents ==
  ASSUME NEW l, NEW v, Hold(l, v), NEW g, NEW t, NEW d, Covers(l, v, g, t, d), NEW p,
         IF Len(v) = 0 THEN p = 0 ELSE p \in 0 .. l[Len(v)],
         t = (IF Len(v) = 0 THEN 0 ELSE Sum(l)[Len(v) - 1]) + p
  PROVE  (IF Len(v) = 0 THEN <<>> ELSE Filling(l, v, Len(v), p)) = SubSeq(g, 1, t)
<1>1. /\ Held(l, v, g, t) /\ g \in Seq(Nat) /\ t <= Len(g)
  BY DEF Covers
<1>2. l \in Seq(Nat) /\ v \in Seq(Seq(Nat)) /\ Len(v) = Len(l)
  BY DEF Hold
<1>3. CASE Len(v) = 0
  <2>1. t = 0
    BY <1>3
  <2>2. SubSeq(g, 1, 0) = <<>>
    BY <1>1
  <2> QED
    BY <1>3, <2>1, <2>2
<1>4. CASE Len(v) # 0
  <2>1. Len(v) \in 1 .. Len(l)
    BY <1>2, <1>4
  <2>2. Filled(l, v, g, Len(v), p, t)
    BY <1>1, <1>4, <2>1 DEF Filled
  <2> QED
    BY <1>4, <2>2, ContentIs
<1> QED
  BY <1>3, <1>4

\* A call wants no byte that nobody wrote.
LEMMA WantedBytesAreWritten ==
  ASSUME NEW s \in Seq(Nat), NEW c, c.len \in Nat, c.kind \in {"literal", "copy"},
         c.kind = "copy" => c.offset \in 1 .. Len(s),
         \A i \in 1 .. Len(s) : s[i] # 0
  PROVE  \A i \in 1 .. Len(Wanted(c, s)) : Wanted(c, s)[i] # 0
<1> DEFINE n == Len(s)
           m == c.len
<1>0. n \in Nat /\ m \in Nat
  BY LengthIs
<1>1. CASE c.kind = "literal"
  <2> DEFINE a == Literal(n, m)
             w == s \o a
  <2>1. a \in Seq(Nat) /\ Len(a) = m /\ \A i \in 1 .. m : a[i] = n + i
    BY <1>0, LiteralIs
  <2> HIDE DEF a
  <2>2. /\ w \in Seq(Nat) /\ Len(w) = n + m
        /\ \A i \in 1 .. n : w[i] = s[i]
        /\ \A i \in 1 .. m : w[n + i] = a[i]
    BY <2>1, JoinIs
  <2>3. Wanted(c, s) = w
    BY <1>1 DEF Wanted, a
  <2> HIDE DEF w
  <2>4. \A i \in 1 .. n + m : w[i] # 0
    <3> TAKE i \in 1 .. n + m
    <3>1. CASE i <= n
      <4> HIDE DEF n, m
      <4>1. i \in 1 .. n
        BY <1>0, <3>1
      <4>2. w[i] = s[i]
        BY <2>2, <4>1
      <4> QED
        BY <4>1, <4>2 DEF n
    <3>2. CASE i > n
      <4> HIDE DEF n, m
      <4>1. i - n \in 1 .. m /\ n + (i - n) = i
        BY <1>0, <3>2
      <4>2. w[i] = n + (i - n)
        BY <2>1, <2>2, <4>1
      <4> QED
        BY <1>0, <4>1, <4>2
    <3> QED
      BY <1>0, <3>1, <3>2
  <2> QED
    BY <2>2, <2>3, <2>4
<1>2. CASE c.kind = "copy"
  <2> DEFINE o == c.offset
             a == Repeated(s, o, m)
             w == s \o a
  <2>0. o \in Nat /\ o >= 1 /\ o <= n
    BY <1>0, <1>2
  <2>1. a \in Seq(Nat) /\ Len(a) = m /\ \A i \in 1 .. m : a[i] = s[n - o + 1 + ((i - 1) % o)]
    <3> HIDE DEF m, o
    <3> QED
      BY <1>0, <2>0, RepeatedIs
  <2>2. \A i \in 1 .. m : n - o + 1 + ((i - 1) % o) \in 1 .. n
    <3> TAKE i \in 1 .. m
    <3> HIDE DEF n, m, o
    <3>1. i - 1 \in Nat
      BY <1>0
    <3>2. (i - 1) % o \in Nat /\ (i - 1) % o < o
      BY <2>0, <3>1, Around
    <3> DEFINE x == (i - 1) % o
    <3> HIDE DEF x
    <3>3. n - o + 1 + x \in 1 .. n
      BY <1>0, <2>0, <3>2 DEF x
    <3> QED
      BY <3>3 DEF x
  <2>3. \A i \in 1 .. m : a[i] # 0
    BY <2>1, <2>2
  <2> HIDE DEF a
  <2>4. /\ w \in Seq(Nat) /\ Len(w) = n + m
        /\ \A i \in 1 .. n : w[i] = s[i]
        /\ \A i \in 1 .. m : w[n + i] = a[i]
    <3>1. a \in Seq(Nat) /\ Len(a) = m
      BY <2>1
    <3>2. /\ w \in Seq(Nat) /\ Len(w) = Len(s) + Len(a)
          /\ \A i \in 1 .. Len(s) : w[i] = s[i]
          /\ \A i \in 1 .. Len(a) : w[Len(s) + i] = a[i]
      BY <3>1, JoinIs
    <3> HIDE DEF w, m
    <3> QED
      BY <3>1, <3>2
  <2>5. Wanted(c, s) = w
    BY <1>2 DEF Wanted, a
  <2> HIDE DEF w
  <2>6. \A i \in 1 .. n + m : w[i] # 0
    <3> TAKE i \in 1 .. n + m
    <3>1. CASE i <= n
      <4> HIDE DEF n, m
      <4>1. i \in 1 .. n
        BY <1>0, <3>1
      <4>2. w[i] = s[i]
        BY <2>4, <4>1
      <4> QED
        BY <4>1, <4>2 DEF n
    <3>2. CASE i > n
      <4> HIDE DEF n, m
      <4>1. i - n \in 1 .. m /\ n + (i - n) = i
        BY <1>0, <3>2
      <4>2. w[i] = a[i - n]
        BY <2>4, <4>1
      <4> QED
        BY <2>3, <4>1, <4>2
    <3> QED
      BY <1>0, <3>1, <3>2
  <2> QED
    BY <2>4, <2>5, <2>6
<1> QED
  BY <1>1, <1>2

\* What covers the content covers what a call wants to add to it.
LEMMA CoversToo ==
  ASSUME NEW l, NEW v, Hold(l, v), NEW d \in Seq(Nat), NEW t, t = Len(d), Covers(l, v, d, t, d),
         NEW c, c.len \in Nat, c.kind \in {"literal", "copy"},
         c.kind = "copy" => c.offset \in 1 .. Len(d)
  PROVE  Covers(l, v, Wanted(c, d), t, d)
<1> DEFINE w == Wanted(c, d)
           n == Len(d)
<1>1. /\ Held(l, v, d, t) /\ \A i \in 1 .. Len(d) : d[i] # 0
  BY DEF Covers
<1>2. /\ w \in Seq(Nat) /\ Len(w) = n + c.len /\ \A i \in 1 .. n : w[i] = d[i]
  BY WantedIs
<1>3. \A i \in 1 .. Len(w) : w[i] # 0
  BY <1>1, WantedBytesAreWritten
<1> HIDE DEF w
<1>4. n \in Nat
  BY LengthIs
<1> HIDE DEF n
<1>5. t \in Nat /\ n <= t /\ t <= Len(w)
  <2>1. t = n
    BY DEF n
  <2> QED
    BY <1>2, <1>4, <2>1
<1>6. Held(l, v, w, t)
  <2>1. \A p \in 1 .. t : w[p] = d[p]
    BY <1>2 DEF n
  <2> QED
    BY <1>1, <1>5, <2>1, HeldToo
<1>7. Covers(l, v, w, t, d)
  BY <1>2, <1>3, <1>5, <1>6 DEF Covers, n
<1> QED
  BY <1>7 DEF w

LEMMA AppendIs ==
  ASSUME NEW S, NEW s \in Seq(S), NEW e \in S
  PROVE  /\ Append(s, e) \in Seq(S) /\ Len(Append(s, e)) = Len(s) + 1 /\ Len(s) \in Nat
         /\ \A i \in 1 .. Len(s) : Append(s, e)[i] = s[i]
         /\ Append(s, e)[Len(s) + 1] = e
OBVIOUS

LEMMA SumAppended ==
  ASSUME NEW l \in Seq(Nat), NEW n \in Nat
  PROVE  /\ \A i \in 0 .. Len(l) : Sum(Append(l, n))[i] = Sum(l)[i]
         /\ Sum(Append(l, n))[Len(l) + 1] = Sum(l)[Len(l)] + n
<1> DEFINE k == Len(l)
           m == Append(l, n)
           s == Sum(l)
           u == Sum(m)
           Differ == {i \in 0 .. k : u[i] # s[i]}
<1>1. m \in Seq(Nat) /\ Len(m) = k + 1 /\ k \in Nat /\ \A i \in 1 .. k : m[i] = l[i]
  BY AppendIs
<1>2. m[k + 1] = n
  BY AppendIs
<1> HIDE DEF m
<1>3. s \in [0 .. k -> Nat] /\ s[0] = 0 /\ \A i \in 1 .. k : s[i] = s[i - 1] + l[i]
  BY SumIs
<1>4. u[0] = 0 /\ \A i \in 1 .. k + 1 : u[i] = u[i - 1] + m[i]
  BY <1>1, SumIs
<1> HIDE DEF s, u
<1>5. Differ = {}
  <2> SUFFICES ASSUME Differ # {} PROVE FALSE
    OBVIOUS
  <2>1. PICK i \in Differ : \A j \in Differ : i <= j
    <3>1. Differ \in SUBSET Nat
      BY <1>1
    <3> HIDE DEF Differ
    <3> QED
      BY <3>1, Facts!LeastOfNat
  <2>2. i \in 0 .. k /\ u[i] # s[i]
    OBVIOUS
  <2>3. i # 0
    BY <1>3, <1>4, <2>2
  <2>4. i \in 1 .. k /\ i \in 1 .. k + 1 /\ i - 1 \in 0 .. k /\ i - 1 < i
    <3> HIDE DEF k
    <3> QED
      BY <1>1, <2>2, <2>3
  <2>5. u[i - 1] = s[i - 1]
    <3>1. i - 1 \notin Differ
      <4> HIDE DEF Differ, k
      <4> QED
        BY <1>1, <2>1, <2>4
    <3> QED
      BY <2>4, <3>1
  <2>6. u[i] = u[i - 1] + m[i] /\ s[i] = s[i - 1] + l[i] /\ m[i] = l[i]
    BY <1>1, <1>3, <1>4, <2>4
  <2> QED
    BY <2>2, <2>5, <2>6
<1>6. \A i \in 0 .. k : u[i] = s[i]
  BY <1>5
<1>7. u[k + 1] = s[k] + n
  <2> HIDE DEF k
  <2>1. k + 1 \in 1 .. k + 1 /\ (k + 1) - 1 = k /\ k \in 0 .. k
    BY <1>1
  <2>2. u[k + 1] = u[(k + 1) - 1] + m[k + 1]
    BY <1>4, <2>1
  <2> QED
    BY <1>2, <1>6, <2>1, <2>2
<1> QED
  BY <1>6, <1>7 DEF m, s, u

\* A new block behind those that are there.
LEMMA BlocksGrown ==
  ASSUME NEW l, NEW v, Hold(l, v), NEW g, NEW t, NEW d, Covers(l, v, g, t, d), t \in Nat,
         t <= Sum(l)[Len(l)], NEW n \in Nat
  PROVE  /\ Hold(Append(l, n), Append(v, Blank(n)))
         /\ Covers(Append(l, n), Append(v, Blank(n)), g, t, d)
<1> DEFINE k == Len(l)
           m == Append(l, n)
           z == Blank(n)
           w == Append(v, z)
<1>1. l \in Seq(Nat) /\ v \in Seq(Seq(Nat)) /\ Len(v) = k /\ \A i \in 1 .. k : Len(v[i]) = l[i]
  BY DEF Hold
<1>2. z \in Seq(Nat) /\ Len(z) = n
  BY BlankIs
<1> HIDE DEF z
<1>3. /\ m \in Seq(Nat) /\ Len(m) = k + 1 /\ k \in Nat
      /\ \A i \in 1 .. k : m[i] = l[i]
      /\ m[k + 1] = n
  BY <1>1, AppendIs
<1>4. /\ w \in Seq(Seq(Nat)) /\ Len(w) = k + 1
      /\ \A i \in 1 .. k : w[i] = v[i]
      /\ w[k + 1] = z
  <2> DEFINE S == Seq(Nat)
  <2>1. v \in Seq(S) /\ z \in S
    BY <1>1, <1>2
  <2> HIDE DEF S
  <2>2. /\ Append(v, z) \in Seq(S) /\ Len(Append(v, z)) = Len(v) + 1
        /\ \A i \in 1 .. Len(v) : Append(v, z)[i] = v[i]
        /\ Append(v, z)[Len(v) + 1] = z
    BY <2>1, AppendIs
  <2> QED
    BY <1>1, <2>2 DEF S
<1>5. /\ \A i \in 0 .. k : Sum(m)[i] = Sum(l)[i]
      /\ Sum(m)[k + 1] = Sum(l)[k] + n
  BY <1>1, SumAppended
<1>6. Sum(l)[k] \in Nat
  <2>1. Sum(l) \in [0 .. k -> Nat] /\ k \in 0 .. k
    BY <1>1, <1>3, SumIs
  <2> QED
    BY <2>1
<1> HIDE DEF m, w
<1>7. Hold(m, w)
  <2>1. \A i \in 1 .. k + 1 : Len(w[i]) = m[i]
    <3> TAKE i \in 1 .. k + 1
    <3>1. CASE i = k + 1
      BY <1>2, <1>3, <1>4, <3>1
    <3>2. CASE i # k + 1
      <4>1. i \in 1 .. k
        <5> HIDE DEF k
        <5> QED
          BY <1>3, <3>2
      <4> QED
        BY <1>1, <1>3, <1>4, <4>1
    <3> QED
      BY <3>1, <3>2
  <2> QED
    BY <1>3, <1>4, <2>1 DEF Hold
<1>8. Held(m, w, g, t)
  <2> SUFFICES ASSUME NEW i \in 1 .. k + 1, NEW x \in 1 .. m[i], Sum(m)[i - 1] + x <= t
               PROVE  w[i][x] = g[Sum(m)[i - 1] + x]
    BY <1>3 DEF Held
  <2>1. Held(l, v, g, t)
    BY DEF Covers
  <2>2. CASE i = k + 1
    <3>1. i - 1 = k /\ k \in 0 .. k
      BY <1>3, <2>2
    <3>2. Sum(m)[i - 1] = Sum(l)[k]
      BY <1>5, <3>1
    <3> DEFINE q == Sum(l)[k]
    <3>3. q \in Nat /\ t <= q /\ q + x <= t /\ x \in Nat /\ x >= 1
      BY <1>3, <1>6, <2>2, <3>2
    <3> HIDE DEF q
    <3> QED
      BY <3>3
  <2>3. CASE i # k + 1
    <3>1. i \in 1 .. k /\ i - 1 \in 0 .. k
      <4> HIDE DEF k
      <4> QED
        BY <1>3, <2>3
    <3>2. m[i] = l[i] /\ w[i] = v[i] /\ Sum(m)[i - 1] = Sum(l)[i - 1]
      BY <1>3, <1>4, <1>5, <3>1
    <3>3. x \in 1 .. l[i] /\ Sum(l)[i - 1] + x <= t
      BY <3>2
    <3>4. v[i][x] = g[Sum(l)[i - 1] + x]
      BY <2>1, <3>1, <3>3 DEF Held
    <3> QED
      BY <3>2, <3>4
  <2> QED
    BY <2>2, <2>3
<1>9. Covers(m, w, g, t, d)
  BY <1>8 DEF Covers
<1> QED
  BY <1>7, <1>9 DEF m, w, z

\* It is as large as kBlockSize, or as large as it may be.
LEMMA WholeGrown ==
  ASSUME NEW l \in Seq(Nat), NEW most \in Nat, WholeBlocks(l, most), Sum(l)[Len(l)] < most,
         NEW n, n = Blocks!Least(BlockSize, most - Sum(l)[Len(l)])
  PROVE  n \in Nat /\ n >= 1 /\ n <= BlockSize /\ WholeBlocks(Append(l, n), most)
<1> DEFINE k == Len(l)
           m == Append(l, n)
           q == Sum(l)[k]
<1>1. q \in Nat /\ q < most /\ BlockSize \in Nat /\ BlockSize >= 1 /\ k \in Nat
  <2>1. Sum(l) \in [0 .. k -> Nat] /\ k \in 0 .. k
    BY SumIs
  <2> QED
    BY <2>1, BlocksNumbers
<1> HIDE DEF q
<1>2. /\ n \in Nat /\ n >= 1 /\ n <= BlockSize /\ q + n <= most
      /\ n = BlockSize \/ q + n = most
  BY <1>1 DEF Blocks!Least, q
<1>3. /\ m \in Seq(Nat) /\ Len(m) = k + 1 /\ \A i \in 1 .. k : m[i] = l[i]
      /\ m[k + 1] = n
  BY <1>2, AppendIs
<1>4. Sum(m)[k + 1] = q + n
  BY <1>2, SumAppended DEF q
<1>5. /\ \A i \in 1 .. k : l[i] \in 1 .. BlockSize
      /\ \A i \in 1 .. k - 1 : l[i] = BlockSize
      /\ k > 0 => l[k] = BlockSize
  BY <1>1 DEF WholeBlocks, q
<1> HIDE DEF m, k
<1>6. \A i \in 1 .. k + 1 : m[i] \in 1 .. BlockSize
  <2> TAKE i \in 1 .. k + 1
  <2>1. CASE i = k + 1
    BY <1>1, <1>2, <1>3, <2>1
  <2>2. CASE i # k + 1
    <3>1. i \in 1 .. k
      BY <1>1, <2>2
    <3> QED
      BY <1>3, <1>5, <3>1
  <2> QED
    BY <2>1, <2>2
<1>7. \A i \in 1 .. (k + 1) - 1 : m[i] = BlockSize
  <2> TAKE i \in 1 .. (k + 1) - 1
  <2>1. i \in 1 .. k
    BY <1>1
  <2>2. m[i] = l[i]
    BY <1>3, <2>1
  <2>3. i = k \/ i \in 1 .. k - 1
    BY <1>1, <2>1
  <2>4. k > 0
    BY <1>1, <2>1
  <2> QED
    BY <1>5, <2>2, <2>3, <2>4
<1>8. WholeBlocks(m, most)
  BY <1>2, <1>3, <1>4, <1>6, <1>7 DEF WholeBlocks
<1> QED
  BY <1>2, <1>8 DEF m

\* What holds until a call is refused.
LEMMA BlocksGoalIs ==
  ASSUME BlocksInv, ~blocksRefused
  PROVE  /\ BlocksFills /\ Covers(sizes, blocks, BlocksGoal, BlocksEnd, blocksDone)
         /\ full = BlocksAt /\ Blocks!Size = BlocksEnd
<1>1. BlocksFills /\ full = BlocksAt
  BY DEF BlocksInv, BlocksShape
<1>2. Covers(sizes, blocks, BlocksGoal, BlocksEnd, blocksDone)
  <2>1. PICK g : /\ Covers(sizes, blocks, g, BlocksEnd, blocksDone)
                 /\ ~blocksRefused => g = BlocksGoal
    BY DEF BlocksInv, BlocksKeep
  <2> QED
    BY <2>1
<1>3. Blocks!Size = BlocksEnd
  BY <1>1 DEF Blocks!Size, BlocksEnd
<1> QED
  BY <1>1, <1>2, <1>3

LEMMA BlocksKeeps ==
  ASSUME BlocksShape', BlocksControl', ~blocksRefused', BlocksFills',
         blocksPc' \notin {"flush", "flushed"},
         Covers(sizes', blocks', BlocksGoal', BlocksEnd', blocksDone')
  PROVE  BlocksInv'
<1>1. BlocksKeep'
  BY DEF BlocksKeep
<1> QED
  BY <1>1 DEF BlocksInv

\* A round of a loop is not seen from outside.
LEMMA BlocksAreSilent ==
  ASSUME UNCHANGED <<blocksLimit, blocksCall, blocksDone, blocksRefused>>
  PROVE  [Blocks!Writer!Next]_(Blocks!Writer!vars)
BY DEF Blocks!Writer!vars

\* A call that returns true has stored all of its bytes.
LEMMA BlocksSucceed ==
  ASSUME BlocksInv, blocksPc \in {"call", "slow", "self"},
         blocksCall.kind = "copy" => blocksCall.offset \in 1 .. Len(blocksDone),
         UNCHANGED <<blocksLimit, sizes, full, flushed, sink>>, blocksSrc' = <<>>,
         self' \in Nat, blocksLeft' \in Nat, Hold(sizes, blocks'), ptr' \in 0 .. Blocks!Limit,
         BlocksAt + ptr' = Len(blocksDone) + blocksCall.len,
         Covers(sizes, blocks', Wanted(blocksCall, blocksDone), BlocksAt + ptr', blocksDone),
         Blocks!Returns(TRUE)
  PROVE  BlocksSteps
<1> DEFINE w == Wanted(blocksCall, blocksDone)
           e == Len(blocksDone) + blocksCall.len
<1>0. BlocksShape /\ BlocksControl
  BY DEF BlocksInv
<1>1. /\ blocksCall \in Blocks!Calls /\ ~blocksRefused /\ blocksCall.kind \in {"literal", "copy"}
      /\ blocksCall.len \in Nat /\ blocksCall # Blocks!NoCall
      /\ blocksDone \in Seq(Nat) /\ flushed = 0 /\ sink = <<>>
  BY <1>0, BlocksCallIs DEF BlocksControl, BlocksShape
<1>2. /\ blocksPc' = "idle" /\ blocksCall' = Blocks!NoCall /\ blocksRefused' = FALSE
      /\ blocksDone' = Blocks!Content'
  BY DEF Blocks!Returns
<1>3. w \in Seq(Nat) /\ Len(w) = e
  BY <1>1, WantedIs
<1>4. Len(blocks') = Len(sizes) /\ Len(blocks) = Len(sizes)
  BY <1>0 DEF Hold, BlocksShape
<1>5. BlocksAt' = BlocksAt /\ Blocks!Limit' = Blocks!Limit /\ BlocksEnd' = BlocksAt + ptr'
  BY <1>4, BlocksSums DEF BlocksAt, BlocksEnd, Blocks!Limit
<1>6. full = BlocksAt
  BY BlocksGoalIs, <1>1
<1>7. /\ BlocksAt \in Nat /\ Blocks!Limit \in Nat /\ blocksLimit \in Nat
      /\ BlocksAt + Blocks!Limit <= blocksLimit /\ ptr' \in Nat
      /\ Len(sizes) = 0 => BlocksAt = 0 /\ Blocks!Limit = 0
      /\ Len(sizes) # 0 => Blocks!Limit = sizes[Len(sizes)] /\ BlocksAt = Sum(sizes)[Len(sizes) - 1]
  <2>1. /\ BlocksAt \in Nat /\ Blocks!Limit \in Nat /\ blocksLimit \in Nat
        /\ Len(sizes) = 0 => BlocksAt = 0 /\ Blocks!Limit = 0
        /\ Len(sizes) # 0 => Blocks!Limit = sizes[Len(sizes)] /\ BlocksAt = Sum(sizes)[Len(sizes) - 1]
    BY <1>0, BlocksPlaces
  <2>2. Sum(sizes)[Len(sizes)] = BlocksAt + Blocks!Limit /\ Sum(sizes)[Len(sizes)] <= blocksLimit
    BY <1>0, BlocksPlaces
  <2>3. BlocksAt + Blocks!Limit <= blocksLimit
    BY <2>2
  <2> QED
    BY <2>1, <2>3
<1>8. Blocks!Content' = SubSeq(w, 1, BlocksAt + ptr')
  <2> DEFINE v == blocks'
             p == ptr'
             t == BlocksAt + p
  <2>1. Hold(sizes, v) /\ Covers(sizes, v, w, t, blocksDone) /\ Len(v) = Len(sizes)
    BY <1>4
  <2>2. IF Len(v) = 0 THEN p = 0 ELSE p \in 0 .. sizes[Len(v)]
    BY <1>4, <1>7
  <2>3. t = (IF Len(v) = 0 THEN 0 ELSE Sum(sizes)[Len(v) - 1]) + p
    BY <1>4, <1>7
  <2>4. Blocks!Content' = IF Len(v) = 0 THEN <<>> ELSE Filling(sizes, v, Len(v), p)
    BY <1>4, BlocksSums DEF Blocks!Content, Filling
  <2> HIDE DEF v, p, t, w
  <2>5. (IF Len(v) = 0 THEN <<>> ELSE Filling(sizes, v, Len(v), p)) = SubSeq(w, 1, t)
    BY <2>1, <2>2, <2>3, BlocksContents
  <2> QED
    BY <2>4, <2>5 DEF t, p
<1>9. blocksDone' = w
  <2>1. Len(w) = BlocksAt + ptr'
    BY <1>3
  <2> HIDE DEF w
  <2> QED
    BY <1>2, <1>3, <1>8, <2>1, WholeIs
<1> HIDE DEF w
<1>10. BlocksShape'
  <2>1. blocksRefused' \in BOOLEAN /\ blocksSrc' \in Seq(Nat) /\ blocksDone' \in Seq(Nat)
    <3>1. blocksRefused' \in BOOLEAN
      BY <1>2
    <3>2. blocksSrc' \in Seq(Nat)
      OBVIOUS
    <3>3. blocksDone' \in Seq(Nat)
      BY <1>3, <1>9
    <3> QED
      BY <3>1, <3>2, <3>3
  <2>2. flushed' \in 0 .. Len(blocks') /\ full' = BlocksAt' /\ ptr' \in 0 .. Blocks!Limit'
    BY <1>0, <1>4, <1>5, <1>6 DEF BlocksShape
  <2>3. /\ blocksLimit' \in BlocksLimits /\ Hold(sizes', blocks') /\ WholeBlocks(sizes', blocksLimit')
        /\ sink' \in Seq(Nat) /\ self' \in Nat /\ blocksLeft' \in Nat
    BY <1>0 DEF BlocksShape
  <2> QED
    BY <2>1, <2>2, <2>3 DEF BlocksShape
<1>11. BlocksControl'
  BY <1>1, <1>2 DEF BlocksControl
<1>12. BlocksFills'
  BY <1>2, <1>3, <1>5, <1>9 DEF BlocksFills
<1>13. Covers(sizes', blocks', BlocksGoal', BlocksEnd', blocksDone')
  <2>1. BlocksGoal' = w
    BY <1>2, <1>9 DEF BlocksGoal
  <2>2. Covers(sizes, blocks', w, BlocksAt + ptr', w)
    <3>1. /\ Held(sizes, blocks', w, BlocksAt + ptr') /\ \A i \in 1 .. Len(w) : w[i] # 0
          /\ BlocksAt + ptr' <= Len(w)
      BY DEF Covers, w
    <3>2. Len(w) <= BlocksAt + ptr'
      <4>1. Len(w) = BlocksAt + ptr'
        BY <1>3
      <4> DEFINE p == ptr'
                 a == BlocksAt
      <4>2. a \in Nat /\ p \in Nat
        BY <1>7
      <4> HIDE DEF p, a
      <4>3. a + p \in Nat
        BY <4>2
      <4>4. a + p <= a + p
        BY <4>3
      <4> QED
        BY <4>1, <4>4 DEF a, p
    <3> QED
      BY <1>3, <3>1, <3>2 DEF Covers
  <2> QED
    BY <1>5, <1>9, <2>1, <2>2
<1>14. BlocksInv'
  BY <1>2, <1>10, <1>11, <1>12, <1>13, BlocksKeeps
<1>15. Blocks!Writer!Legal
  <2>1. BlocksAt + ptr' <= blocksLimit
    <3> DEFINE p == ptr'
               m == Blocks!Limit
    <3>1. /\ BlocksAt \in Nat /\ m \in Nat /\ blocksLimit \in Nat /\ BlocksAt + m <= blocksLimit
          /\ p \in 0 .. m
      BY <1>7
    <3> HIDE DEF p, m
    <3>2. BlocksAt + p <= blocksLimit
      BY <3>1
    <3> QED
      BY <3>2 DEF p
  <2>2. Len(blocksDone) + blocksCall.len <= blocksLimit
    BY <2>1
  <2> QED
    BY <2>2 DEF Blocks!Writer!Legal
<1>16. blocksDone' = blocksDone \o (IF blocksCall.kind = "literal"
                               THEN Blocks!Writer!LiteralBytes(Len(blocksDone), blocksCall.len)
                               ELSE Blocks!Writer!Repeated(blocksDone, blocksCall.offset, blocksCall.len))
  BY <1>9, WantedBytes DEF w, Wanted
<1>17. UNCHANGED <<blocksLimit, blocksRefused>>
  BY <1>1, <1>2, <1>0 DEF BlocksShape
<1>18. Blocks!Writer!Succeed
  BY <1>1, <1>2, <1>15, <1>16, <1>17, WantedCalls DEF Blocks!Writer!Succeed
<1> QED
  BY <1>14, <1>18 DEF BlocksSteps, Blocks!Writer!Next

\* A call that returns false is illegal.
LEMMA BlocksRefuse ==
  ASSUME BlocksInv, blocksPc \in {"call", "slow"}, Blocks!Returns(FALSE), BlocksShape',
         UNCHANGED <<blocksLimit, flushed, sink>>, blocksSrc' = <<>>,
         NEW g, Covers(sizes', blocks', g, BlocksEnd', blocksDone),
         \/ Len(blocksDone) + blocksCall.len > blocksLimit
         \/ blocksCall.kind = "copy" /\ blocksCall.offset \notin 1 .. Len(blocksDone)
  PROVE  BlocksSteps
<1>1. /\ blocksCall \in Blocks!Calls /\ ~blocksRefused /\ blocksRefused \in BOOLEAN
      /\ blocksCall.kind \in {"literal", "copy"}
      /\ blocksCall.len \in Nat /\ blocksCall # Blocks!NoCall
      /\ blocksDone \in Seq(Nat) /\ Len(blocksDone) \in Nat /\ flushed = 0 /\ sink = <<>>
      /\ blocksLimit \in Nat
  BY BlocksCallIs, BlocksPlaces, LengthIs DEF BlocksInv, BlocksControl, BlocksShape
<1>2. /\ blocksPc' = "idle" /\ blocksCall' = Blocks!NoCall /\ blocksRefused' = TRUE
      /\ blocksDone' = blocksDone
  BY DEF Blocks!Returns
<1>3. BlocksControl'
  BY <1>1, <1>2 DEF BlocksControl
<1>4. BlocksKeep'
  <2>1. /\ Covers(sizes', blocks', g, BlocksEnd', blocksDone')
        /\ ~blocksRefused' => g = BlocksGoal'
        /\ blocksPc' \in {"flush", "flushed"} => sink' = SubSeq(g, 1, BlocksHanded')
    BY <1>2
  <2> QED
    BY <2>1 DEF BlocksKeep
<1>5. BlocksInv'
  BY <1>2, <1>3, <1>4 DEF BlocksInv
<1>6. ~Blocks!Writer!Legal
  BY <1>1 DEF Blocks!Writer!Legal
<1>7. Blocks!Writer!Fail
  BY <1>1, <1>2, <1>6, WantedCalls DEF Blocks!Writer!Fail
<1> QED
  BY <1>5, <1>7 DEF BlocksSteps, Blocks!Writer!Next

LEMMA BlocksCalled ==
  ASSUME BlocksInv, NEW c \in Blocks!Calls, Blocks!Call(c)
  PROVE  BlocksSteps
<1>1. /\ blocksPc = "idle" /\ ~blocksRefused /\ blocksCall' = c /\ blocksPc' = "call"
      /\ UNCHANGED <<blocksLimit, blocksSrc, blocksRefused, blocksDone, sizes, blocks, ptr, full>>
      /\ UNCHANGED <<self, blocksLeft, flushed, sink>>
  BY DEF Blocks!Call, Blocks!blockVars, Blocks!selfVars, Blocks!flushVars
<1>2. BlocksFills /\ Covers(sizes, blocks, BlocksGoal, BlocksEnd, blocksDone)
  BY <1>1, BlocksGoalIs
<1>3. BlocksAt' = BlocksAt /\ BlocksEnd' = BlocksEnd /\ Blocks!Limit' = Blocks!Limit
      /\ BlocksGoal' = BlocksGoal
  BY <1>1, BlocksSums DEF BlocksAt, BlocksEnd, BlocksGoal, Blocks!Limit
<1>4. BlocksShape'
  BY <1>1, <1>3 DEF BlocksInv, BlocksShape
<1>5. BlocksControl'
  BY <1>1 DEF BlocksInv, BlocksControl
<1>6. BlocksFills'
  BY <1>1, <1>2, <1>3 DEF BlocksFills
<1>7. BlocksInv'
  BY <1>1, <1>2, <1>3, <1>4, <1>5, <1>6, BlocksKeeps
<1>8. blocksCall = Blocks!NoCall
  BY <1>1 DEF BlocksInv, BlocksControl
<1>9. Blocks!Writer!Call(c)
  BY <1>1, <1>8, WantedCalls DEF Blocks!Writer!Call
<1> QED
  BY <1>7, <1>9, WantedCalls DEF BlocksSteps, Blocks!Writer!Next

\* The fast paths: bytes of which the first ones count are stored at op_ptr_.
LEMMA BlocksTake ==
  ASSUME BlocksInv, blocksPc = "call", NEW bytes \in Seq(Nat), Len(bytes) <= Blocks!Avail,
         blocksCall.len <= Len(bytes),
         blocksCall.kind = "copy" => blocksCall.offset \in 1 .. Len(blocksDone),
         \A i \in 1 .. blocksCall.len :
           bytes[i] = Wanted(blocksCall, blocksDone)[Len(blocksDone) + i],
         Blocks!Put(bytes, blocksCall.len),
         UNCHANGED <<blocksLimit, sizes, full, blocksSrc, self, blocksLeft, flushed, sink>>,
         Blocks!Returns(TRUE)
  PROVE  BlocksSteps
<1> DEFINE n == blocksCall.len
           w == Wanted(blocksCall, blocksDone)
<1>1. /\ BlocksShape /\ blocksCall \in Blocks!Calls /\ ~blocksRefused /\ blocksSrc = <<>>
      /\ n \in Nat /\ blocksCall.kind \in {"literal", "copy"} /\ blocksDone \in Seq(Nat)
      /\ Len(blocksDone) \in Nat /\ self \in Nat /\ blocksLeft \in Nat
  BY BlocksCallIs, LengthIs DEF BlocksInv, BlocksControl, BlocksShape
<1>2. /\ BlocksEnd = Len(blocksDone) /\ Hold(sizes, blocks)
      /\ Covers(sizes, blocks, blocksDone, BlocksEnd, blocksDone)
  BY <1>1, BlocksGoalIs DEF BlocksFills, BlocksGoal, BlocksShape
<1>3. w \in Seq(Nat) /\ Len(w) = Len(blocksDone) + n
  BY <1>1, WantedIs
<1>4. Covers(sizes, blocks, w, BlocksEnd, blocksDone)
  BY <1>1, <1>2, CoversToo
<1>5. /\ BlocksEnd \in Nat /\ BlocksEnd = BlocksAt + ptr /\ BlocksAt \in Nat /\ ptr \in Nat
      /\ Blocks!Avail = Blocks!Limit - ptr /\ Blocks!Limit \in Nat /\ Blocks!Avail \in Nat
  BY <1>1, BlocksPlaces
<1>6. Len(bytes) \in Nat
  BY LengthIs
<1>7. n \in Nat /\ n <= Len(bytes) /\ BlocksEnd + n <= Len(w) /\ \A i \in 1 .. n : bytes[i] = w[BlocksEnd + i]
  <2>1. \A i \in 1 .. n : bytes[i] = w[BlocksEnd + i]
    BY <1>2
  <2>2. BlocksEnd + n <= Len(w)
    <3> DEFINE d == Len(blocksDone)
    <3>1. d \in Nat /\ Len(w) = d + n /\ BlocksEnd = d /\ n \in Nat
      BY <1>1, <1>2, <1>3
    <3> HIDE DEF d, n, w
    <3> QED
      BY <3>1
  <2> QED
    BY <1>1, <2>1, <2>2
<1> HIDE DEF w, n
<1>8. /\ Hold(sizes, Blocks!Stored(bytes)) /\ Len(Blocks!Stored(bytes)) = Len(blocks)
      /\ Covers(sizes, Blocks!Stored(bytes), w, BlocksEnd + n, blocksDone)
  BY <1>1, <1>4, <1>7, BlocksStored
<1>9. blocks' = Blocks!Stored(bytes) /\ ptr' = ptr + n
  BY DEF Blocks!Put, n
<1>10. ptr' \in 0 .. Blocks!Limit /\ BlocksAt + ptr' = BlocksEnd + n
  BY <1>1, <1>5, <1>6, <1>7, <1>9
<1>11. BlocksAt + ptr' = Len(blocksDone) + blocksCall.len
  BY <1>2, <1>10 DEF n
<1>12. Covers(sizes, blocks', Wanted(blocksCall, blocksDone), BlocksAt + ptr', blocksDone)
  BY <1>8, <1>9, <1>10 DEF w
<1>13. blocksSrc' = <<>> /\ self' \in Nat /\ blocksLeft' \in Nat /\ Hold(sizes, blocks')
  BY <1>1, <1>8, <1>9
<1> QED
  BY <1>10, <1>11, <1>12, <1>13, BlocksSucceed

LEMMA BlocksFastAppend ==
  ASSUME BlocksInv, Blocks!FastAppend
  PROVE  BlocksSteps
<1> DEFINE n == blocksCall.len
           d == Len(blocksDone)
           w == Wanted(blocksCall, blocksDone)
           s == Literal(d, n)
           z == Blank(BlocksWide - n)
<1>1. /\ blocksPc = "call" /\ blocksCall.kind = "literal" /\ n <= Blocks!Avail
      /\ UNCHANGED <<blocksLimit, sizes, full, blocksSrc, self, blocksLeft, flushed, sink>>
      /\ Blocks!Returns(TRUE)
  BY DEF Blocks!FastAppend, Blocks!selfVars, Blocks!flushVars
<1>2. /\ BlocksShape /\ blocksCall \in Blocks!Calls /\ ~blocksRefused /\ n \in Nat
      /\ blocksDone \in Seq(Nat) /\ d \in Nat
  BY <1>1, BlocksCallIs, LengthIs DEF BlocksInv, BlocksControl, BlocksShape
<1>3. Blocks!Size = d
  BY <1>1, <1>2, BlocksGoalIs DEF BlocksFills
<1>4. \A i \in 1 .. n : w[d + i] = d + i
  BY <1>1, <1>2, WantedIs
<1>5. s \in Seq(Nat) /\ Len(s) = n /\ \A i \in 1 .. n : s[i] = d + i
  BY <1>2, LiteralIs
<1>6. ~(blocksCall.kind = "copy")
  BY <1>1
<1>7. CASE Blocks!Put(Blocks!LiteralBytes(Blocks!Size, n), n)
  <2>1. Blocks!Put(s, n)
    BY <1>3, <1>7, OneLiteral
  <2> HIDE DEF s
  <2>2. /\ s \in Seq(Nat) /\ Len(s) <= Blocks!Avail /\ n <= Len(s)
        /\ \A i \in 1 .. n : s[i] = w[d + i]
    BY <1>1, <1>2, <1>4, <1>5
  <2> QED
    BY <1>1, <1>6, <2>1, <2>2, BlocksTake
<1>8. CASE /\ n <= BlocksWide /\ Blocks!Avail >= BlocksWide
           /\ Blocks!Put(Blocks!WideBytes(Blocks!Size, n), n)
  <2>1. Blocks!Put(s \o z, n)
    BY <1>3, <1>8, OneLiteral
  <2>2. BlocksWide - n \in Nat
    BY <1>2, <1>8, BlocksNumbers
  <2>3. z \in Seq(Nat) /\ Len(z) = BlocksWide - n
    BY <2>2, BlankIs
  <2> HIDE DEF s, z
  <2>4. /\ s \o z \in Seq(Nat) /\ Len(s \o z) = Len(s) + Len(z)
        /\ \A i \in 1 .. Len(s) : (s \o z)[i] = s[i]
    BY <1>5, <2>3, JoinIs
  <2>5. Len(s) + Len(z) = BlocksWide
    <3> HIDE DEF n
    <3> QED
      BY <1>2, <1>5, <2>2, <2>3, BlocksNumbers
  <2>6. Blocks!Avail \in Nat /\ BlocksWide \in Nat
    BY <1>2, BlocksPlaces, BlocksNumbers
  <2> DEFINE bytes == s \o z
  <2> HIDE DEF bytes
  <2>7. bytes \in Seq(Nat) /\ Len(bytes) = BlocksWide /\ \A i \in 1 .. n : bytes[i] = s[i]
    BY <1>5, <2>4, <2>5 DEF bytes
  <2>8. /\ Len(bytes) <= Blocks!Avail /\ n <= Len(bytes)
        /\ \A i \in 1 .. n : bytes[i] = w[d + i]
    BY <1>4, <1>5, <1>8, <2>6, <2>7
  <2>9. Blocks!Put(bytes, n)
    BY <2>1 DEF bytes
  <2> QED
    BY <1>1, <1>6, <2>7, <2>8, <2>9, BlocksTake
<1> QED
  BY <1>7, <1>8 DEF Blocks!FastAppend

LEMMA BlocksFastAppendFromSelf ==
  ASSUME BlocksInv, Blocks!FastAppendFromSelf
  PROVE  BlocksSteps
<1> DEFINE n == blocksCall.len
           o == blocksCall.offset
           d == Len(blocksDone)
           k == Len(blocks)
           old == SubSeq(blocks[k], 1, ptr)
           s == Repeated(old, o, n)
           u == Repeated(blocksDone, o, n)
           w == Wanted(blocksCall, blocksDone)
<1>1. /\ blocksPc = "call" /\ blocksCall.kind = "copy"
      /\ Blocks!Minus1u(o) < ptr /\ n <= Blocks!Avail
      /\ UNCHANGED <<blocksLimit, sizes, full, blocksSrc, self, blocksLeft, flushed, sink>>
      /\ Blocks!Returns(TRUE)
  BY DEF Blocks!FastAppendFromSelf, Blocks!FitsHere, Blocks!selfVars, Blocks!flushVars
<1>2. PICK slop \in {0, Blocks!Avail - n} : Blocks!Put(s \o Blank(slop), n)
  BY BlocksSums, OneMemory DEF Blocks!FastAppendFromSelf
<1>3. /\ BlocksShape /\ blocksCall \in Blocks!Calls /\ ~blocksRefused /\ n \in Nat /\ o \in Nat
      /\ blocksDone \in Seq(Nat) /\ d \in Nat
  BY <1>1, BlocksCallIs, LengthIs DEF BlocksInv, BlocksControl, BlocksShape
<1>4. /\ BlocksEnd = d /\ Covers(sizes, blocks, blocksDone, d, blocksDone)
  BY <1>1, <1>3, BlocksGoalIs DEF BlocksFills, BlocksGoal
<1>5. /\ k \in Nat /\ ptr \in Nat /\ BlocksEnd = BlocksAt + ptr /\ BlocksAt \in Nat
      /\ Blocks!Avail \in Nat /\ Blocks!Avail = Blocks!Limit - ptr /\ Blocks!Limit \in Nat
      /\ blocksLimit \in Nat /\ blocksLimit <= Blocks!MaxSize /\ Blocks!MaxSize \in Nat
      /\ BlocksAt + Blocks!Limit <= blocksLimit /\ k = Len(sizes)
  <2>1. /\ Sum(sizes)[Len(sizes)] = BlocksAt + Blocks!Limit /\ Sum(sizes)[Len(sizes)] <= blocksLimit
    BY <1>3, BlocksPlaces
  <2>2. BlocksAt + Blocks!Limit <= blocksLimit
    BY <2>1
  <2> QED
    BY <1>3, <2>2, BlocksPlaces
<1>6. o >= 1 /\ o <= ptr
  <2>1. CASE o = 0
    <3>1. Blocks!Minus1u(o) = Blocks!MaxSize
      BY <2>1 DEF Blocks!Minus1u
    <3> HIDE DEF o
    <3> QED
      BY <1>1, <1>5, <3>1
  <2>2. CASE o # 0
    <3>1. Blocks!Minus1u(o) = o - 1
      BY <2>2 DEF Blocks!Minus1u
    <3> HIDE DEF o
    <3> QED
      BY <1>1, <1>3, <1>5, <2>2, <3>1
  <2> QED
    BY <2>1, <2>2
<1>7. /\ k # 0 /\ Blocks!Limit = sizes[k] /\ k \in 1 .. k /\ BlocksAt = Sum(sizes)[k - 1]
  <2>1. ptr # 0
    <3> HIDE DEF o
    <3> QED
      BY <1>3, <1>5, <1>6
  <2> QED
    BY <1>3, <1>5, <2>1, BlocksPlaces
<1>8. Filled(sizes, blocks, blocksDone, k, ptr, d)
  <2>1. Hold(sizes, blocks) /\ Held(sizes, blocks, blocksDone, d) /\ d <= Len(blocksDone)
    BY <1>3, <1>4 DEF BlocksShape, Covers
  <2>2. ptr \in 0 .. sizes[k] /\ k \in 1 .. Len(sizes)
    BY <1>5, <1>7
  <2>3. d = Sum(sizes)[k - 1] + ptr
    BY <1>4, <1>5, <1>7
  <2> QED
    BY <1>3, <2>1, <2>2, <2>3 DEF Filled
<1>9. \A x \in 1 .. ptr : blocks[k][x] = blocksDone[BlocksAt + x]
  <2> TAKE x \in 1 .. ptr
  <2>1. x \in 1 .. sizes[k] /\ BlocksAt + x <= d /\ k \in 1 .. Len(sizes)
    <3> HIDE DEF d, k
    <3> QED
      BY <1>4, <1>5, <1>7
  <2>2. Sum(sizes)[k - 1] + x <= d
    BY <1>7, <2>1
  <2>3. blocks[k][x] = blocksDone[Sum(sizes)[k - 1] + x]
    BY <1>8, <2>1, <2>2 DEF Filled, Held
  <2> QED
    BY <1>7, <2>3
<1>10. /\ old \in Seq(Nat) /\ Len(old) = ptr /\ \A x \in 1 .. ptr : old[x] = blocks[k][x]
  <2> DEFINE b == blocks[k]
  <2>1. b \in Seq(Nat) /\ Len(b) = sizes[k]
    BY <1>5, <1>7, <1>8 DEF Filled, Hold
  <2>2. ptr \in Nat /\ ptr <= Len(b)
    BY <1>5, <1>7, <2>1
  <2> HIDE DEF b
  <2>3. /\ SubSeq(b, 1, ptr) \in Seq(Nat) /\ Len(SubSeq(b, 1, ptr)) = ptr
        /\ \A x \in 1 .. ptr : SubSeq(b, 1, ptr)[x] = b[x]
    BY <2>1, <2>2, RestIs
  <2> QED
    BY <2>3 DEF b
<1> HIDE DEF old, k
<1>11. s \in Seq(Nat) /\ Len(s) = n /\ \A i \in 1 .. n : s[i] = old[ptr - o + 1 + ((i - 1) % o)]
  <2> HIDE DEF o, n
  <2>1. /\ Repeated(old, o, n) \in Seq(Nat) /\ Len(Repeated(old, o, n)) = n
        /\ \A i \in 1 .. n : Repeated(old, o, n)[i] = old[Len(old) - o + 1 + ((i - 1) % o)]
    BY <1>3, <1>6, <1>10, RepeatedIs
  <2> QED
    BY <1>10, <2>1
<1>12. o <= d
  <2> HIDE DEF o, d
  <2> QED
    BY <1>3, <1>4, <1>5, <1>6
<1>13. u \in Seq(Nat) /\ Len(u) = n /\ \A i \in 1 .. n : u[i] = blocksDone[d - o + 1 + ((i - 1) % o)]
  <2> HIDE DEF o, n
  <2> QED
    BY <1>3, <1>6, <1>12, RepeatedIs
<1>14. \A i \in 1 .. n : w[d + i] = u[i]
  <2>1. w = blocksDone \o u
    BY <1>1 DEF Wanted
  <2> HIDE DEF u
  <2>2. \A i \in 1 .. Len(u) : (blocksDone \o u)[Len(blocksDone) + i] = u[i]
    BY <1>3, <1>13, JoinIs
  <2> QED
    BY <1>13, <2>1, <2>2
<1> HIDE DEF s, u, w
<1>15. \A i \in 1 .. n : s[i] = w[d + i]
  <2> TAKE i \in 1 .. n
  <2> DEFINE r == (i - 1) % o
             x == ptr - o + 1 + r
  <2>1. r \in Nat /\ r < o
    <3> HIDE DEF o, n
    <3> QED
      BY <1>3, <1>6, Around
  <2>2. x \in 1 .. ptr /\ BlocksAt + x = d - o + 1 + r
    <3> HIDE DEF r, o, d
    <3> QED
      BY <1>3, <1>4, <1>5, <1>6, <2>1
  <2>3. s[i] = old[x] /\ u[i] = blocksDone[d - o + 1 + r]
    BY <1>11, <1>13
  <2> HIDE DEF x, r
  <2>4. old[x] = blocksDone[BlocksAt + x]
    BY <1>9, <1>10, <2>2
  <2>5. blocksDone[BlocksAt + x] = blocksDone[d - o + 1 + r]
    BY <2>2
  <2> QED
    BY <1>14, <2>3, <2>4, <2>5
<1>16. slop \in Nat /\ n + slop <= Blocks!Avail
  <2> HIDE DEF n
  <2> QED
    BY <1>1, <1>2, <1>3, <1>5
<1> DEFINE z == Blank(slop)
           bytes == s \o z
<1>17. z \in Seq(Nat) /\ Len(z) = slop
  BY <1>16, BlankIs
<1> HIDE DEF z
<1>18. /\ bytes \in Seq(Nat) /\ Len(bytes) = n + slop
       /\ \A i \in 1 .. n : bytes[i] = s[i]
  <2>1. s \in Seq(Nat) /\ Len(s) = n
    BY <1>11
  <2>2. /\ bytes \in Seq(Nat) /\ Len(bytes) = Len(s) + Len(z)
        /\ \A i \in 1 .. Len(s) : bytes[i] = s[i]
    BY <1>17, <2>1, JoinIs
  <2> HIDE DEF bytes, n
  <2> QED
    BY <1>17, <2>1, <2>2
<1>19. Blocks!Put(bytes, n)
  BY <1>2 DEF z
<1> HIDE DEF bytes
<1>20. Len(bytes) <= Blocks!Avail /\ n <= Len(bytes)
  <2> HIDE DEF n
  <2> QED
    BY <1>3, <1>5, <1>16, <1>18
<1>21. \A i \in 1 .. blocksCall.len :
          bytes[i] = Wanted(blocksCall, blocksDone)[Len(blocksDone) + i]
  BY <1>15, <1>18 DEF w
<1>22. blocksCall.offset \in 1 .. Len(blocksDone)
  BY <1>3, <1>6, <1>12
<1> QED
  BY <1>1, <1>18, <1>19, <1>20, <1>21, <1>22, BlocksTake

LEMMA BlocksSlowAppendStart ==
  ASSUME BlocksInv, Blocks!SlowAppendStart
  PROVE  BlocksSteps
<1> DEFINE n == blocksCall.len
           d == Len(blocksDone)
           w == Wanted(blocksCall, blocksDone)
           s == Literal(d, n)
<1>1. /\ blocksPc = "call" /\ blocksCall.kind = "literal" /\ blocksPc' = "slow"
      /\ blocksSrc' = Blocks!LiteralBytes(Blocks!Size, n)
      /\ UNCHANGED <<blocksLimit, blocksCall, blocksRefused, blocksDone>>
      /\ UNCHANGED <<sizes, blocks, ptr, full, self, blocksLeft, flushed, sink>>
  BY DEF Blocks!SlowAppendStart, Blocks!blockVars, Blocks!selfVars, Blocks!flushVars
<1>2. /\ BlocksShape /\ BlocksControl /\ blocksCall \in Blocks!Calls /\ ~blocksRefused /\ n \in Nat
      /\ blocksDone \in Seq(Nat) /\ d \in Nat /\ Hold(sizes, blocks)
  BY <1>1, BlocksCallIs, LengthIs DEF BlocksInv, BlocksControl, BlocksShape
<1>3. BlocksEnd = d /\ Blocks!Size = d /\ Covers(sizes, blocks, blocksDone, BlocksEnd, blocksDone)
  BY <1>1, <1>2, BlocksGoalIs DEF BlocksFills, BlocksGoal
<1>4. Covers(sizes, blocks, w, BlocksEnd, blocksDone)
  BY <1>1, <1>2, <1>3, CoversToo
<1>5. \A i \in 1 .. n : w[d + i] = d + i
  BY <1>1, <1>2, WantedIs, ZenonT(60)
<1>6. s \in Seq(Nat) /\ Len(s) = n /\ \A i \in 1 .. n : s[i] = d + i
  BY <1>2, LiteralIs
<1>7. blocksSrc' = s
  BY <1>1, <1>3, OneLiteral
<1> HIDE DEF s
<1>8. /\ BlocksAt' = BlocksAt /\ BlocksEnd' = BlocksEnd /\ Blocks!Limit' = Blocks!Limit
      /\ BlocksGoal' = w
  BY <1>1, BlocksSums DEF BlocksAt, BlocksEnd, BlocksGoal, Blocks!Limit
<1> HIDE DEF w
<1>9. BlocksShape'
  <2>1. blocksSrc' \in Seq(Nat)
    BY <1>6, <1>7
  <2> QED
    BY <1>1, <1>2, <1>8, <2>1 DEF BlocksShape
<1>10. BlocksControl'
  BY <1>1, <1>2 DEF BlocksControl
<1>11. BlocksFills'
  <2>1. BlocksEnd' = d /\ Len(blocksSrc') = n /\ Len(blocksDone') = d /\ blocksCall' = blocksCall
    BY <1>1, <1>3, <1>6, <1>7, <1>8
  <2>2. BlocksEnd' + Len(blocksSrc') = Len(blocksDone') + blocksCall'.len
    BY <2>1
  <2>3. BlocksEnd' + Len(blocksSrc') <= Len(blocksDone') + blocksCall'.len
    <3>1. d + n <= d + n
      <4> HIDE DEF d, n
      <4> QED
        BY <1>2
    <3> QED
      BY <2>1, <3>1
  <2>4. \A i \in 1 .. Len(blocksSrc') : blocksSrc'[i] = BlocksGoal'[BlocksEnd' + i]
    BY <1>5, <1>6, <1>7, <1>8, <2>1
  <2> QED
    BY <1>1, <2>2, <2>3, <2>4 DEF BlocksFills
<1>12. BlocksInv'
  <2>1. Covers(sizes', blocks', BlocksGoal', BlocksEnd', blocksDone')
    BY <1>1, <1>4, <1>8
  <2> QED
    BY <1>1, <1>2, <1>9, <1>10, <1>11, <2>1, BlocksKeeps
<1> QED
  BY <1>1, <1>12, BlocksAreSilent DEF BlocksSteps

LEMMA BlocksFlushStart ==
  ASSUME BlocksInv, Blocks!FlushStart
  PROVE  BlocksSteps
<1>1. /\ blocksPc = "idle" /\ blocksPc' = "flush"
      /\ UNCHANGED <<blocksLimit, blocksSrc, blocksCall, blocksRefused, blocksDone>>
      /\ UNCHANGED <<sizes, blocks, ptr, full, self, blocksLeft, flushed, sink>>
  BY DEF Blocks!FlushStart, Blocks!blockVars, Blocks!selfVars, Blocks!flushVars
<1>2. BlocksShape /\ BlocksControl /\ flushed = 0 /\ sink = <<>>
  BY <1>1 DEF BlocksInv, BlocksControl
<1>3. /\ BlocksAt' = BlocksAt /\ BlocksEnd' = BlocksEnd /\ Blocks!Limit' = Blocks!Limit
      /\ BlocksGoal' = BlocksGoal
  BY <1>1, BlocksSums DEF BlocksAt, BlocksEnd, BlocksGoal, Blocks!Limit
<1>4. BlocksShape'
  BY <1>1, <1>2, <1>3 DEF BlocksShape
<1>5. BlocksControl'
  BY <1>1, <1>2 DEF BlocksControl
<1>6. ~blocksRefused' => BlocksFills'
  BY <1>1, <1>3 DEF BlocksInv, BlocksFills
<1>7. BlocksKeep'
  <2>1. PICK g : /\ Covers(sizes, blocks, g, BlocksEnd, blocksDone)
                 /\ ~blocksRefused => g = BlocksGoal
    BY DEF BlocksInv, BlocksKeep
  <2>2. BlocksHanded' = 0
    <3>1. CASE Len(blocks) = 0
      BY <1>1, <1>2, <1>3, <3>1, BlocksPlaces DEF BlocksHanded
    <3>2. CASE Len(blocks) # 0
      BY <1>1, <1>2, <3>2, BlocksPlaces, SumIs DEF BlocksHanded
    <3> QED
      BY <3>1, <3>2
  <2>3. SubSeq(g, 1, 0) = <<>>
    BY <2>1 DEF Covers
  <2>4. /\ Covers(sizes', blocks', g, BlocksEnd', blocksDone')
        /\ ~blocksRefused' => g = BlocksGoal'
        /\ blocksPc' \in {"flush", "flushed"} => sink' = SubSeq(g, 1, BlocksHanded')
    BY <1>1, <1>2, <1>3, <2>1, <2>2, <2>3
  <2> QED
    BY <2>4 DEF BlocksKeep
<1>8. BlocksInv'
  BY <1>4, <1>5, <1>6, <1>7 DEF BlocksInv
<1> QED
  BY <1>1, <1>8, BlocksAreSilent DEF BlocksSteps

LEMMA BlocksFlushEnd ==
  ASSUME BlocksInv, Blocks!FlushEnd
  PROVE  BlocksSteps
<1>1. /\ blocksPc = "flush" /\ blocksPc' = "flushed" /\ flushed = Len(blocks)
      /\ UNCHANGED <<blocksLimit, blocksSrc, blocksCall, blocksRefused, blocksDone>>
      /\ UNCHANGED <<sizes, blocks, ptr, full, self, blocksLeft, flushed, sink>>
  BY BlocksSums DEF Blocks!FlushEnd, Blocks!blockVars, Blocks!selfVars, Blocks!flushVars
<1>2. BlocksShape /\ BlocksControl
  BY DEF BlocksInv
<1>3. /\ BlocksAt' = BlocksAt /\ BlocksEnd' = BlocksEnd /\ Blocks!Limit' = Blocks!Limit
      /\ BlocksGoal' = BlocksGoal /\ BlocksHanded' = BlocksHanded
  BY <1>1, BlocksSums DEF BlocksAt, BlocksEnd, BlocksGoal, BlocksHanded, Blocks!Limit
<1>4. BlocksShape'
  BY <1>1, <1>2, <1>3 DEF BlocksShape
<1>5. BlocksControl'
  BY <1>1, <1>2 DEF BlocksControl
<1>6. ~blocksRefused' => BlocksFills'
  BY <1>1, <1>3 DEF BlocksInv, BlocksFills
<1>7. BlocksKeep'
  BY <1>1, <1>3 DEF BlocksInv, BlocksKeep
<1>8. BlocksInv'
  BY <1>4, <1>5, <1>6, <1>7 DEF BlocksInv
<1> QED
  BY <1>1, <1>8, BlocksAreSilent DEF BlocksSteps

LEMMA BlocksSlowAppendEnd ==
  ASSUME BlocksInv, Blocks!SlowAppendEnd
  PROVE  BlocksSteps
<1> DEFINE w == Wanted(blocksCall, blocksDone)
           k == Len(blocksSrc)
           d == Len(blocksDone)
           n == blocksCall.len
<1>1. /\ blocksPc \in {"slow", "slowSelf"} /\ k <= Blocks!Avail
      /\ Blocks!Put(blocksSrc, k) /\ Blocks!SlowReturns(TRUE)
      /\ UNCHANGED <<blocksLimit, sizes, full, self, blocksLeft, flushed, sink>>
  BY DEF Blocks!SlowAppendEnd, Blocks!selfVars, Blocks!flushVars
<1>2. /\ BlocksShape /\ BlocksControl /\ blocksCall \in Blocks!Calls /\ ~blocksRefused /\ n \in Nat
      /\ blocksDone \in Seq(Nat) /\ d \in Nat /\ Hold(sizes, blocks)
      /\ blocksSrc \in Seq(Nat) /\ k \in Nat /\ self \in Nat /\ blocksLeft \in Nat
  BY <1>1, BlocksCallIs, LengthIs DEF BlocksInv, BlocksControl, BlocksShape
<1>3. BlocksFills /\ Covers(sizes, blocks, w, BlocksEnd, blocksDone)
  BY <1>1, <1>2, BlocksGoalIs DEF BlocksGoal
<1>4. /\ BlocksEnd + k <= d + n
      /\ \A i \in 1 .. k : blocksSrc[i] = w[BlocksEnd + i]
      /\ blocksPc = "slow" => BlocksEnd + k = d + n
      /\ blocksPc = "slowSelf" =>
           /\ blocksCall.offset \in 1 .. d
           /\ d + n <= blocksLimit
           /\ BlocksEnd + k + blocksLeft = d + n
           /\ blocksLeft > 0 => self + blocksCall.offset = BlocksEnd + k
  BY <1>1, <1>3 DEF BlocksFills, BlocksGoal
<1>5. blocksPc = "slow" => blocksCall.kind = "literal"
  BY <1>2 DEF BlocksControl
<1>6. Len(w) = d + n
  <2>1. blocksCall.kind \in {"literal", "copy"} /\ (blocksCall.kind = "copy" => blocksCall.offset \in 1 .. d)
    BY <1>1, <1>2, <1>4, <1>5, BlocksCallIs
  <2> QED
    BY <1>2, <2>1, WantedIs
<1> HIDE DEF w
<1>7. /\ Hold(sizes, Blocks!Stored(blocksSrc)) /\ Len(Blocks!Stored(blocksSrc)) = Len(blocks)
      /\ Covers(sizes, Blocks!Stored(blocksSrc), w, BlocksEnd + k, blocksDone)
  <2>1. k <= Len(blocksSrc) /\ BlocksEnd + k <= Len(w)
    BY <1>2, <1>4, <1>6
  <2> QED
    BY <1>1, <1>2, <1>3, <1>4, <2>1, BlocksStored
<1>8. blocks' = Blocks!Stored(blocksSrc) /\ ptr' = ptr + k
  BY <1>1 DEF Blocks!Put
<1>9. /\ BlocksEnd \in Nat /\ BlocksEnd = BlocksAt + ptr /\ BlocksAt \in Nat /\ ptr \in Nat
      /\ Blocks!Avail = Blocks!Limit - ptr /\ Blocks!Limit \in Nat /\ ptr <= Blocks!Limit
  BY <1>2, BlocksPlaces
<1>10. ptr' \in 0 .. Blocks!Limit /\ BlocksAt + ptr' = BlocksEnd + k
  <2> HIDE DEF k
  <2>1. ptr + k \in Nat /\ ptr + k <= Blocks!Limit /\ BlocksAt + (ptr + k) = BlocksEnd + k
    BY <1>1, <1>2, <1>9
  <2> QED
    BY <1>8, <1>9, <2>1
<1>11. Hold(sizes, blocks') /\ Covers(sizes, blocks', w, BlocksAt + ptr', blocksDone)
  BY <1>7, <1>8, <1>10
<1>12. blocksSrc' = <<>>
  BY <1>1 DEF Blocks!SlowReturns
<1>13. CASE blocksPc = "slow"
  <2>1. Blocks!Returns(TRUE)
    BY <1>1, <1>13 DEF Blocks!SlowReturns
  <2>2. ~(blocksCall.kind = "copy")
    BY <1>5, <1>13
  <2>3. BlocksAt + ptr' = Len(blocksDone) + blocksCall.len
    BY <1>4, <1>10, <1>13
  <2>4. self' \in Nat /\ blocksLeft' \in Nat
    BY <1>1, <1>2
  <2> QED
    BY <1>1, <1>10, <1>11, <1>12, <1>13, <2>1, <2>2, <2>3, <2>4, BlocksSucceed DEF w
<1>14. CASE blocksPc = "slowSelf"
  <2>1. blocksPc' = "self" /\ UNCHANGED <<blocksCall, blocksRefused, blocksDone>>
    BY <1>1, <1>14 DEF Blocks!SlowReturns
  <2>2. Len(blocks') = Len(sizes) /\ Len(blocks) = Len(sizes)
    BY <1>2, <1>11 DEF Hold
  <2>3. /\ BlocksAt' = BlocksAt /\ BlocksEnd' = BlocksEnd + k /\ Blocks!Limit' = Blocks!Limit
        /\ BlocksGoal' = w
    BY <1>1, <1>10, <2>1, <2>2, BlocksSums DEF BlocksAt, BlocksEnd, BlocksGoal, Blocks!Limit, w
  <2>4. BlocksShape'
    <3>1. full' = BlocksAt' /\ flushed' \in 0 .. Len(blocks') /\ ptr' \in 0 .. Blocks!Limit'
      <4>1. full = BlocksAt /\ flushed \in 0 .. Len(blocks)
        BY <1>2, BlocksGoalIs DEF BlocksShape
      <4> QED
        BY <1>1, <1>10, <2>2, <2>3, <4>1
    <3>2. /\ blocksLimit' \in BlocksLimits /\ Hold(sizes', blocks') /\ WholeBlocks(sizes', blocksLimit')
          /\ sink' \in Seq(Nat) /\ self' \in Nat /\ blocksLeft' \in Nat
      BY <1>1, <1>2, <1>11 DEF BlocksShape
    <3>3. blocksSrc' \in Seq(Nat) /\ blocksDone' \in Seq(Nat)
      BY <1>2, <1>12, <2>1
    <3>4. blocksRefused' \in BOOLEAN
      BY <1>2, <2>1 DEF BlocksShape
    <3> QED
      BY <3>1, <3>2, <3>3, <3>4 DEF BlocksShape
  <2>5. BlocksControl'
    BY <1>1, <1>2, <1>12, <1>14, <2>1 DEF BlocksControl
  <2>6. BlocksFills'
    <3> DEFINE e == BlocksEnd + k
    <3>1. BlocksEnd' = e /\ Len(blocksSrc') = 0 /\ Len(blocksDone') = d /\ blocksCall' = blocksCall
      BY <1>12, <2>1, <2>3
    <3>2. /\ e \in Nat /\ e <= d + n /\ e + blocksLeft = d + n
          /\ blocksLeft > 0 => self + blocksCall.offset = e
      <4> HIDE DEF d, n, k
      <4> QED
        BY <1>2, <1>4, <1>9, <1>14
    <3> HIDE DEF e
    <3>3. e + 0 = e
      BY <3>2
    <3>4. /\ BlocksEnd' + Len(blocksSrc') <= Len(blocksDone') + blocksCall'.len
          /\ BlocksEnd' + Len(blocksSrc') + blocksLeft' = Len(blocksDone') + blocksCall'.len
          /\ blocksLeft' > 0 => self' + blocksCall'.offset = BlocksEnd' + Len(blocksSrc')
      BY <1>1, <3>1, <3>2, <3>3
    <3>5. \A i \in 1 .. Len(blocksSrc') : blocksSrc'[i] = BlocksGoal'[BlocksEnd' + i]
      BY <3>1
    <3>6. blocksCall'.offset \in 1 .. Len(blocksDone') /\ Len(blocksDone') + blocksCall'.len <= blocksLimit'
      BY <1>1, <1>4, <1>14, <2>1
    <3> QED
      BY <2>1, <3>4, <3>5, <3>6 DEF BlocksFills
  <2>7. BlocksInv'
    <3>1. Covers(sizes', blocks', BlocksGoal', BlocksEnd', blocksDone')
      BY <1>1, <1>10, <1>11, <2>1, <2>3
    <3> QED
      BY <1>2, <2>1, <2>4, <2>5, <2>6, <3>1, BlocksKeeps
  <2> QED
    BY <1>1, <2>1, <2>7, BlocksAreSilent DEF BlocksSteps
<1> QED
  BY <1>1, <1>13, <1>14

LEMMA BlocksSelfEnd ==
  ASSUME BlocksInv, Blocks!SelfEnd
  PROVE  BlocksSteps
<1> DEFINE w == Wanted(blocksCall, blocksDone)
<1>1. /\ blocksPc = "self" /\ blocksLeft = 0 /\ Blocks!Returns(TRUE)
      /\ UNCHANGED <<blocksLimit, blocksSrc, sizes, blocks, ptr, full, self, blocksLeft, flushed, sink>>
  BY DEF Blocks!SelfEnd, Blocks!blockVars, Blocks!selfVars, Blocks!flushVars
<1>2. /\ BlocksShape /\ BlocksControl /\ ~blocksRefused /\ blocksSrc = <<>>
      /\ Hold(sizes, blocks) /\ self \in Nat /\ blocksLeft \in Nat /\ ptr \in 0 .. Blocks!Limit
  BY <1>1 DEF BlocksInv, BlocksControl, BlocksShape
<1>3. BlocksFills /\ Covers(sizes, blocks, w, BlocksEnd, blocksDone)
  BY <1>1, <1>2, BlocksGoalIs DEF BlocksGoal
<1>4. BlocksEnd \in Nat /\ BlocksEnd = BlocksAt + ptr
  BY <1>2, BlocksPlaces
<1>5. BlocksEnd = Len(blocksDone) + blocksCall.len /\ blocksCall.offset \in 1 .. Len(blocksDone)
  <2>1. /\ BlocksEnd + Len(blocksSrc) + blocksLeft = Len(blocksDone) + blocksCall.len
        /\ blocksCall.offset \in 1 .. Len(blocksDone)
    BY <1>1, <1>3 DEF BlocksFills
  <2>2. Len(blocksSrc) = 0
    BY <1>2
  <2> DEFINE e == BlocksEnd
  <2> HIDE DEF e
  <2>3. e + 0 + 0 = e
    BY <1>4 DEF e
  <2> QED
    BY <1>1, <2>1, <2>2, <2>3 DEF e
<1> HIDE DEF w
<1>6. /\ ptr' \in 0 .. Blocks!Limit /\ Hold(sizes, blocks') /\ self' \in Nat /\ blocksLeft' \in Nat
      /\ BlocksAt + ptr' = Len(blocksDone) + blocksCall.len
      /\ Covers(sizes, blocks', w, BlocksAt + ptr', blocksDone)
      /\ blocksSrc' = <<>>
  BY <1>1, <1>2, <1>3, <1>4, <1>5
<1> QED
  BY <1>1, <1>5, <1>6, BlocksSucceed DEF w

LEMMA BlocksSlowAppendFromSelf ==
  ASSUME BlocksInv, Blocks!SlowAppendFromSelf
  PROVE  BlocksSteps
<1> DEFINE w == Wanted(blocksCall, blocksDone)
           d == Len(blocksDone)
           n == blocksCall.len
           o == blocksCall.offset
<1>1. /\ blocksPc = "call" /\ blocksCall.kind = "copy"
      /\ UNCHANGED <<blocksLimit, blocksSrc, sizes, blocks, ptr, full, flushed, sink>>
      /\ IF Blocks!Minus1u(o) >= Blocks!Size \/ blocksLimit - Blocks!Size < n
         THEN Blocks!Returns(FALSE) /\ UNCHANGED <<self, blocksLeft>>
         ELSE /\ self' = Blocks!Size - o /\ blocksLeft' = n /\ blocksPc' = "self"
              /\ UNCHANGED <<blocksCall, blocksRefused, blocksDone>>
  BY DEF Blocks!SlowAppendFromSelf, Blocks!blockVars, Blocks!selfVars, Blocks!flushVars
<1>2. /\ BlocksShape /\ BlocksControl /\ blocksCall \in Blocks!Calls /\ ~blocksRefused
      /\ n \in Nat /\ o \in Nat
      /\ blocksDone \in Seq(Nat) /\ d \in Nat /\ Hold(sizes, blocks) /\ blocksSrc = <<>>
      /\ self \in Nat /\ blocksLeft \in Nat /\ ptr \in 0 .. Blocks!Limit /\ flushed \in 0 .. Len(blocks)
  BY <1>1, BlocksCallIs, LengthIs DEF BlocksInv, BlocksControl, BlocksShape
<1>3. /\ BlocksEnd = d /\ Blocks!Size = d /\ full = BlocksAt
      /\ Covers(sizes, blocks, blocksDone, BlocksEnd, blocksDone)
  BY <1>1, <1>2, BlocksGoalIs DEF BlocksFills, BlocksGoal
<1>4. d <= blocksLimit /\ blocksLimit \in Nat /\ blocksLimit <= Blocks!MaxSize /\ Blocks!MaxSize \in Nat
  <2> DEFINE e == BlocksEnd
             s == Sum(sizes)[Len(sizes)]
  <2>1. /\ blocksLimit \in Nat /\ blocksLimit <= Blocks!MaxSize /\ Blocks!MaxSize \in Nat
        /\ Blocks!Limit \in Nat /\ ptr \in Nat /\ ptr <= Blocks!Limit /\ BlocksAt \in Nat
        /\ e = BlocksAt + ptr /\ s \in Nat /\ s <= blocksLimit /\ s = BlocksAt + Blocks!Limit
    BY <1>2, BlocksPlaces
  <2> HIDE DEF e, s
  <2>2. e <= blocksLimit
    BY <2>1
  <2> QED
    BY <1>3, <2>1, <2>2 DEF e
<1>5. BlocksAt' = BlocksAt /\ BlocksEnd' = BlocksEnd /\ Blocks!Limit' = Blocks!Limit
  BY <1>1, BlocksSums DEF BlocksAt, BlocksEnd, Blocks!Limit
<1>6. o # 0 => Blocks!Minus1u(o) = o - 1
  BY DEF Blocks!Minus1u
<1>7. o = 0 => Blocks!Minus1u(o) = Blocks!MaxSize
  BY DEF Blocks!Minus1u
<1>8. BlocksShape' <=> /\ blocksSrc' \in Seq(Nat) /\ blocksDone' \in Seq(Nat)
                       /\ self' \in Nat /\ blocksLeft' \in Nat /\ blocksRefused' \in BOOLEAN
  BY <1>1, <1>2, <1>3, <1>5 DEF BlocksShape
<1>9. CASE Blocks!Minus1u(o) >= Blocks!Size \/ blocksLimit - Blocks!Size < n
  <2>1. Blocks!Returns(FALSE) /\ UNCHANGED <<self, blocksLeft>>
    BY <1>1, <1>9
  <2>2. BlocksShape'
    <3>1. blocksRefused' \in BOOLEAN /\ blocksDone' = blocksDone
      BY <2>1 DEF Blocks!Returns
    <3>2. blocksSrc' \in Seq(Nat) /\ blocksDone' \in Seq(Nat) /\ self' \in Nat /\ blocksLeft' \in Nat
      BY <1>1, <1>2, <2>1, <3>1
    <3> QED
      BY <1>8, <3>1, <3>2
  <2>3. Covers(sizes', blocks', blocksDone, BlocksEnd', blocksDone)
    BY <1>1, <1>3, <1>5
  <2>4. d + n > blocksLimit \/ o \notin 1 .. d
    <3> DEFINE m == Blocks!Minus1u(o)
    <3>1. m >= d \/ blocksLimit - d < n
      BY <1>3, <1>9
    <3>2. o # 0 => m = o - 1
      BY <1>6
    <3> HIDE DEF m, o, n, d
    <3> QED
      BY <1>2, <1>4, <3>1, <3>2
  <2>5. blocksSrc' = <<>>
    BY <1>1, <1>2
  <2>6. \/ Len(blocksDone) + blocksCall.len > blocksLimit
        \/ blocksCall.kind = "copy" /\ blocksCall.offset \notin 1 .. Len(blocksDone)
    BY <1>1, <2>4
  <2> HIDE DEF d, n, o
  <2> QED
    BY <1>1, <2>1, <2>2, <2>3, <2>5, <2>6, BlocksRefuse
<1>10. CASE ~(Blocks!Minus1u(o) >= Blocks!Size \/ blocksLimit - Blocks!Size < n)
  <2>1. /\ self' = d - o /\ blocksLeft' = n /\ blocksPc' = "self"
        /\ UNCHANGED <<blocksCall, blocksRefused, blocksDone>>
    BY <1>1, <1>3, <1>10
  <2>2. o >= 1 /\ o <= d /\ d + n <= blocksLimit
    <3> DEFINE m == Blocks!Minus1u(o)
    <3>1. ~(m >= d) /\ ~(blocksLimit - d < n)
      BY <1>3, <1>10
    <3>2. (o # 0 => m = o - 1) /\ (o = 0 => m = Blocks!MaxSize)
      BY <1>6, <1>7
    <3> HIDE DEF m, o, n, d
    <3> QED
      BY <1>2, <1>4, <3>1, <3>2
  <2>3. self' \in Nat /\ self' + o = d
    <3> HIDE DEF o, d
    <3> QED
      BY <1>2, <2>1, <2>2
  <2>4. BlocksShape'
    <3>1. blocksRefused' \in BOOLEAN
      BY <1>2, <2>1 DEF BlocksShape
    <3> QED
      BY <1>1, <1>2, <1>8, <2>1, <2>3, <3>1
  <2>5. BlocksControl'
    BY <1>1, <1>2, <2>1 DEF BlocksControl
  <2>6. BlocksFills'
    <3>1. /\ BlocksEnd' = d /\ Len(blocksSrc') = 0 /\ Len(blocksDone') = d /\ blocksCall' = blocksCall
          /\ blocksSrc' = <<>>
      BY <1>1, <1>2, <1>3, <1>5, <2>1
    <3>2. d + 0 = d /\ d + n = d + n /\ d <= d + n
      <4> HIDE DEF d, n
      <4> QED
        BY <1>2
    <3>3. /\ BlocksEnd' + Len(blocksSrc') <= Len(blocksDone') + blocksCall'.len
          /\ BlocksEnd' + Len(blocksSrc') + blocksLeft' = Len(blocksDone') + blocksCall'.len
          /\ blocksLeft' > 0 => self' + blocksCall'.offset = BlocksEnd' + Len(blocksSrc')
      BY <1>1, <2>1, <2>3, <3>1, <3>2
    <3>4. \A i \in 1 .. Len(blocksSrc') : blocksSrc'[i] = BlocksGoal'[BlocksEnd' + i]
      BY <3>1
    <3>5. blocksCall'.offset \in 1 .. Len(blocksDone') /\ Len(blocksDone') + blocksCall'.len <= blocksLimit'
      <4>1. o \in 1 .. d
        BY <1>2, <2>2
      <4> QED
        BY <1>1, <2>1, <2>2, <4>1
    <3> QED
      BY <2>1, <3>3, <3>4, <3>5 DEF BlocksFills
  <2>7. Covers(sizes', blocks', BlocksGoal', BlocksEnd', blocksDone')
    <3>1. o \in 1 .. d
      BY <1>2, <2>2
    <3>2. Covers(sizes, blocks, w, BlocksEnd, blocksDone)
      BY <1>1, <1>2, <1>3, <3>1, CoversToo
    <3>3. BlocksGoal' = w
      BY <2>1 DEF BlocksGoal
    <3> QED
      BY <1>1, <1>5, <2>1, <3>2, <3>3
  <2>8. BlocksInv'
    BY <1>2, <2>1, <2>4, <2>5, <2>6, <2>7, BlocksKeeps
  <2> QED
    BY <1>1, <2>1, <2>8, BlocksAreSilent DEF BlocksSteps
<1> QED
  BY <1>9, <1>10

\* The block of a byte is its position divided by kBlockSize.
LEMMA BlocksByte ==
  ASSUME BlocksShape, NEW g, Covers(sizes, blocks, g, BlocksEnd, blocksDone),
         NEW p \in Nat, p < BlocksEnd
  PROVE  blocks[(p \div BlockSize) + 1][(p % BlockSize) + 1] = g[p + 1]
<1> DEFINE q == p \div BlockSize
           r == p % BlockSize
           b == BlockSize
           n == Len(sizes)
           s == Sum(sizes)
<1>1. /\ sizes \in Seq(Nat) /\ n \in Nat /\ b \in Nat /\ b >= 1
      /\ Blocks!Limit \in Nat /\ ptr \in Nat /\ ptr <= Blocks!Limit
      /\ BlocksAt \in Nat /\ BlocksEnd \in Nat /\ BlocksEnd = BlocksAt + ptr
      /\ n = 0 => BlocksAt = 0 /\ ptr = 0
      /\ n # 0 => Blocks!Limit = sizes[n] /\ BlocksAt = s[n - 1]
  BY BlocksPlaces
<1>2. q \in Nat /\ r \in Nat /\ r < b /\ (q * b) + r = p
  BY <1>1, BlockOf
<1>3. /\ \A i \in 1 .. n : sizes[i] \in 1 .. b
      /\ \A i \in 1 .. n - 1 : sizes[i] = b
  BY DEF BlocksShape, WholeBlocks
<1>4. \A i \in 0 .. n : i < n => s[i] = i * b
  BY <1>1, <1>3, SumsOfBlocks
<1> HIDE DEF s, q, r, b, n
<1>5. n # 0
  <2> DEFINE e == BlocksEnd
  <2>1. e = BlocksAt + ptr /\ p < e
    BY <1>1
  <2> HIDE DEF e
  <2> QED
    BY <1>1, <2>1
<1>6. n - 1 \in 0 .. n /\ n - 1 < n /\ n \in 1 .. n /\ n - 1 \in Nat
  BY <1>1, <1>5
<1>7. BlocksAt = (n - 1) * b /\ Blocks!Limit \in 1 .. b
  BY <1>1, <1>3, <1>4, <1>5, <1>6
<1>8. q < n
  <2> SUFFICES ASSUME n <= q PROVE FALSE
    BY <1>1, <1>2
  <2> DEFINE m == n - 1
             k == q - n
             x == m * b
             y == k * b
  <2>1. m \in Nat /\ k \in Nat /\ q = m + k + 1
    BY <1>1, <1>2, <1>6
  <2> HIDE DEF m, k
  <2>2. x \in Nat /\ y \in Nat /\ q * b = x + y + b
    BY <1>1, <2>1
  <2>3. BlocksAt = x
    BY <1>7 DEF m
  <2>4. ptr <= b
    BY <1>1, <1>7
  <2> DEFINE z == q * b
  <2>5. z + r = p /\ z = x + y + b /\ p < x + ptr
    BY <1>1, <1>2, <2>2, <2>3
  <2> HIDE DEF x, y, z
  <2> QED
    BY <1>1, <1>2, <2>2, <2>4, <2>5
<1>9. q \in 0 .. n /\ q + 1 \in 1 .. n /\ (q + 1) - 1 = q /\ s[q] = q * b
  BY <1>1, <1>2, <1>4, <1>8
<1>10. r + 1 \in 1 .. sizes[q + 1]
  <2>1. CASE q + 1 \in 1 .. n - 1
    BY <1>1, <1>2, <1>3, <2>1
  <2>2. CASE q + 1 = n
    <3>1. sizes[q + 1] = Blocks!Limit
      BY <1>1, <1>5, <2>2
    <3>2. BlocksAt = q * b
      <4>1. n - 1 = q
        BY <1>2, <2>2
      <4> QED
        BY <1>7, <4>1
    <3> DEFINE z == q * b
    <3>3. z + r = p /\ z \in Nat /\ p < z + ptr
      BY <1>1, <1>2, <3>2
    <3> HIDE DEF z
    <3>4. r + 1 \in 1 .. Blocks!Limit
      BY <1>1, <1>2, <3>3
    <3> QED
      BY <3>1, <3>4
  <2> QED
    BY <1>1, <1>2, <1>8, <1>9, <2>1, <2>2
<1>11. s[(q + 1) - 1] + (r + 1) = p + 1
  <2> DEFINE z == q * b
  <2>1. z \in Nat /\ z + r = p /\ s[q] = z
    BY <1>1, <1>2, <1>9
  <2> HIDE DEF z
  <2>2. z + (r + 1) = p + 1
    BY <1>2, <2>1
  <2> QED
    BY <1>9, <2>1, <2>2
<1>12. Held(sizes, blocks, g, BlocksEnd)
  BY DEF Covers
<1>13. s[(q + 1) - 1] + (r + 1) <= BlocksEnd
  <2> DEFINE e == BlocksEnd
  <2>1. e \in Nat /\ p < e
    BY <1>1
  <2> HIDE DEF e
  <2>2. p + 1 <= e
    BY <2>1
  <2> QED
    BY <1>11, <2>2 DEF e
<1>14. blocks[q + 1][r + 1] = g[s[(q + 1) - 1] + (r + 1)]
  BY <1>9, <1>10, <1>12, <1>13 DEF Held, s, n
<1> QED
  BY <1>11, <1>14 DEF q, r, b

LEMMA BlocksSelfRound ==
  ASSUME BlocksInv, Blocks!SelfRound
  PROVE  BlocksSteps
<1> DEFINE w == Wanted(blocksCall, blocksDone)
           d == Len(blocksDone)
           n == blocksCall.len
           o == blocksCall.offset
           e == BlocksEnd
           x == blocks[(self \div BlockSize) + 1][(self % BlockSize) + 1]
<1>1. /\ blocksPc = "self" /\ blocksLeft > 0 /\ blocksSrc' = <<x>>
      /\ self' = self + 1 /\ blocksLeft' = blocksLeft - 1 /\ blocksPc' = "slowSelf"
      /\ UNCHANGED <<blocksLimit, sizes, blocks, ptr, full, flushed, sink>>
      /\ UNCHANGED <<blocksCall, blocksRefused, blocksDone>>
  BY DEF Blocks!SelfRound, Blocks!blockVars, Blocks!flushVars
<1>2. /\ BlocksShape /\ BlocksControl /\ blocksCall \in Blocks!Calls /\ ~blocksRefused
      /\ n \in Nat /\ o \in Nat /\ blocksCall.kind = "copy"
      /\ blocksDone \in Seq(Nat) /\ d \in Nat /\ Hold(sizes, blocks) /\ blocksSrc = <<>>
      /\ self \in Nat /\ blocksLeft \in Nat
  BY <1>1, BlocksCallIs, LengthIs DEF BlocksInv, BlocksControl, BlocksShape
<1>3. BlocksFills /\ Covers(sizes, blocks, w, e, blocksDone)
  BY <1>1, <1>2, BlocksGoalIs DEF BlocksGoal
<1>4. e \in Nat /\ d <= e
  BY <1>2, <1>3, BlocksPlaces DEF Covers
<1>5. /\ o \in 1 .. d /\ d + n <= blocksLimit
      /\ e + blocksLeft = d + n /\ self + o = e
  <2>1. /\ o \in 1 .. d /\ d + n <= blocksLimit
        /\ e + Len(blocksSrc) + blocksLeft = d + n
        /\ self + o = e + Len(blocksSrc)
    BY <1>1, <1>3 DEF BlocksFills
  <2>2. Len(blocksSrc) = 0
    BY <1>2
  <2> HIDE DEF e
  <2>3. e + 0 = e
    BY <1>4
  <2> QED
    BY <2>1, <2>2, <2>3
<1>6. self < e /\ e + 1 \in d + 1 .. d + n /\ (e + 1) - o = self + 1
  <2> HIDE DEF e, d, n, o
  <2> QED
    BY <1>1, <1>2, <1>4, <1>5
<1>7. x = w[self + 1]
  BY <1>2, <1>3, <1>6, BlocksByte
<1>8. w[e + 1] = w[self + 1]
  <2>1. \A i \in d + 1 .. d + n : w[i] = w[i - o]
    BY <1>2, <1>5, WantedIs
  <2> HIDE DEF w, e, d, n, o
  <2> QED
    BY <1>6, <2>1
<1>9. x \in Nat
  <2>1. w \in Seq(Nat) /\ self + 1 \in 1 .. Len(w)
    <3>1. w \in Seq(Nat) /\ e <= Len(w)
      BY <1>3 DEF Covers
    <3>2. Len(w) \in Nat
      BY <3>1, LengthIs
    <3> DEFINE m == Len(w)
    <3> HIDE DEF m, e, w
    <3>3. self + 1 \in 1 .. m
      BY <1>2, <1>4, <1>6, <3>1, <3>2 DEF m
    <3> QED
      BY <3>1, <3>3 DEF m
  <2> HIDE DEF w
  <2>2. w[self + 1] \in Nat
    BY <2>1
  <2> QED
    BY <1>7, <2>2
<1> HIDE DEF x
<1>10. /\ blocksSrc' \in Seq(Nat) /\ Len(blocksSrc') = 1 /\ blocksSrc'[1] = x
  BY <1>1, <1>9
<1>11. /\ BlocksAt' = BlocksAt /\ BlocksEnd' = e /\ Blocks!Limit' = Blocks!Limit
       /\ BlocksGoal' = w
  BY <1>1, BlocksSums DEF BlocksAt, BlocksEnd, BlocksGoal, Blocks!Limit
<1>12. BlocksShape'
  <2>1. self' \in Nat /\ blocksLeft' \in Nat
    BY <1>1, <1>2
  <2> QED
    BY <1>1, <1>2, <1>10, <1>11, <2>1 DEF BlocksShape
<1>13. BlocksControl'
  BY <1>1, <1>2 DEF BlocksControl
<1>14. BlocksFills'
  <2>1. BlocksEnd' = e /\ Len(blocksSrc') = 1 /\ Len(blocksDone') = d /\ blocksCall' = blocksCall
    BY <1>1, <1>10, <1>11
  <2>2. /\ e + 1 <= d + n /\ e + 1 + blocksLeft' = d + n
        /\ self' + o = e + 1
    <3> HIDE DEF e, d, n, o
    <3> QED
      BY <1>1, <1>2, <1>4, <1>5
  <2>3. /\ BlocksEnd' + Len(blocksSrc') <= Len(blocksDone') + blocksCall'.len
        /\ BlocksEnd' + Len(blocksSrc') + blocksLeft' = Len(blocksDone') + blocksCall'.len
        /\ blocksLeft' > 0 => self' + blocksCall'.offset = BlocksEnd' + Len(blocksSrc')
    BY <2>1, <2>2
  <2>4. \A i \in 1 .. Len(blocksSrc') : blocksSrc'[i] = BlocksGoal'[BlocksEnd' + i]
    <3>1. blocksSrc'[1] = BlocksGoal'[e + 1]
      BY <1>7, <1>8, <1>10, <1>11
    <3> QED
      BY <2>1, <3>1
  <2>5. blocksCall'.offset \in 1 .. Len(blocksDone') /\ Len(blocksDone') + blocksCall'.len <= blocksLimit'
    BY <1>1, <1>5, <2>1
  <2> QED
    BY <1>1, <2>3, <2>4, <2>5 DEF BlocksFills
<1>15. BlocksInv'
  <2>1. Covers(sizes', blocks', BlocksGoal', BlocksEnd', blocksDone')
    BY <1>1, <1>3, <1>11
  <2> QED
    BY <1>1, <1>2, <1>12, <1>13, <1>14, <2>1, BlocksKeeps
<1> QED
  BY <1>1, <1>15, BlocksAreSilent DEF BlocksSteps

\* A round of SlowAppend: the rest of the block is filled.
LEMMA BlocksRoundFills ==
  ASSUME BlocksInv, blocksPc \in {"slow", "slowSelf"}, Len(blocksSrc) > Blocks!Avail,
         NEW filled, filled = Blocks!Stored(SubSeq(blocksSrc, 1, Blocks!Avail)),
         NEW rest, rest = SubSeq(blocksSrc, Blocks!Avail + 1, Len(blocksSrc)),
         NEW w, w = Wanted(blocksCall, blocksDone)
  PROVE  /\ Hold(sizes, filled) /\ Len(filled) = Len(sizes)
         /\ Covers(sizes, filled, w, BlocksAt + Blocks!Limit, blocksDone)
         /\ rest \in Seq(Nat) /\ Len(rest) \in Nat /\ Len(rest) >= 1
         /\ BlocksAt + Blocks!Limit \in Nat
         /\ BlocksAt + Blocks!Limit + Len(rest) = BlocksEnd + Len(blocksSrc)
         /\ \A i \in 1 .. Len(rest) : rest[i] = w[BlocksAt + Blocks!Limit + i]
<1> DEFINE a == Blocks!Avail
           k == Len(blocksSrc)
           d == Len(blocksDone)
           n == blocksCall.len
           bytes == SubSeq(blocksSrc, 1, a)
           e == BlocksEnd
<1>2. /\ BlocksShape /\ BlocksControl /\ blocksCall \in Blocks!Calls /\ ~blocksRefused /\ n \in Nat
      /\ blocksCall.kind \in {"literal", "copy"}
      /\ blocksDone \in Seq(Nat) /\ d \in Nat /\ Hold(sizes, blocks)
      /\ blocksSrc \in Seq(Nat) /\ k \in Nat
  BY BlocksCallIs, LengthIs DEF BlocksInv, BlocksControl, BlocksShape
<1>3. BlocksFills /\ Covers(sizes, blocks, w, e, blocksDone)
  BY <1>2, BlocksGoalIs DEF BlocksGoal
<1>4. /\ e + k <= d + n
      /\ \A i \in 1 .. k : blocksSrc[i] = w[e + i]
      /\ blocksPc = "slowSelf" => blocksCall.offset \in 1 .. d
  BY <1>3 DEF BlocksFills, BlocksGoal
<1>5. /\ e \in Nat /\ e = BlocksAt + ptr /\ BlocksAt \in Nat /\ ptr \in Nat
      /\ a \in Nat /\ a = Blocks!Limit - ptr /\ Blocks!Limit \in Nat /\ ptr <= Blocks!Limit
      /\ Len(blocks) = Len(sizes)
  BY <1>2, BlocksPlaces
<1>6. Len(w) = d + n
  <2>1. blocksCall.kind = "copy" => blocksCall.offset \in 1 .. d
    BY <1>2, <1>4 DEF BlocksControl
  <2> QED
    BY <1>2, <2>1, WantedIs
<1>7. /\ a < k /\ e + a = BlocksAt + Blocks!Limit /\ e + a \in Nat /\ e + a <= d + n
      /\ BlocksAt + Blocks!Limit \in Nat
  <2> HIDE DEF a, k, d, n, e
  <2> QED
    BY <1>2, <1>4, <1>5 DEF a, k
<1>8. /\ bytes \in Seq(Nat) /\ Len(bytes) = a /\ \A i \in 1 .. a : bytes[i] = blocksSrc[i]
      /\ rest \in Seq(Nat) /\ Len(rest) = k - a
      /\ \A i \in 1 .. k - a : rest[i] = blocksSrc[a + i]
  <2>1. a <= Len(blocksSrc) /\ a \in Nat /\ blocksSrc \in Seq(Nat)
    BY <1>2, <1>5
  <2> HIDE DEF a
  <2> QED
    BY <2>1, RestIs DEF a
<1> HIDE DEF bytes
<1>9. /\ Hold(sizes, filled) /\ Len(filled) = Len(blocks)
      /\ Covers(sizes, filled, w, e + a, blocksDone)
  <2>1. /\ Len(bytes) <= Blocks!Avail /\ a \in Nat /\ a <= Len(bytes)
        /\ BlocksEnd + a <= Len(w) /\ bytes \in Seq(Nat)
    BY <1>5, <1>6, <1>7, <1>8
  <2>2. \A i \in 1 .. a : bytes[i] = w[BlocksEnd + i]
    <3> TAKE i \in 1 .. a
    <3>1. i \in 1 .. k
      <4> HIDE DEF a, k
      <4> QED
        BY <1>2, <1>5, <1>7
    <3> QED
      BY <1>4, <1>8, <3>1
  <2>3. filled = Blocks!Stored(bytes)
    BY DEF bytes
  <2>4. Covers(sizes, blocks, w, BlocksEnd, blocksDone) /\ BlocksShape
    BY <1>2, <1>3
  <2> HIDE DEF a
  <2> QED
    BY <2>1, <2>2, <2>3, <2>4, BlocksStored DEF e
<1>10. /\ Len(rest) \in Nat /\ Len(rest) >= 1
       /\ BlocksAt + Blocks!Limit + Len(rest) = e + k
  <2> DEFINE m == BlocksAt + Blocks!Limit
  <2>1. m = e + a
    BY <1>7
  <2> HIDE DEF a, k, e, m
  <2>2. k - a \in Nat /\ k - a >= 1 /\ m + (k - a) = e + k
    BY <1>2, <1>5, <1>7, <2>1
  <2> QED
    BY <1>8, <2>2 DEF m
<1>11. \A i \in 1 .. Len(rest) : rest[i] = w[BlocksAt + Blocks!Limit + i]
  <2> TAKE i \in 1 .. Len(rest)
  <2>1. i \in 1 .. k - a
    BY <1>8
  <2>2. a + i \in 1 .. k /\ e + (a + i) = e + a + i
    <3> HIDE DEF a, k, e
    <3> QED
      BY <1>2, <1>5, <1>7, <2>1
  <2>3. rest[i] = w[e + (a + i)]
    BY <1>4, <1>8, <2>1, <2>2
  <2> QED
    BY <1>7, <2>2, <2>3
<1> QED
  BY <1>5, <1>7, <1>8, <1>9, <1>10, <1>11

LEMMA BlocksSlowAppendRound ==
  ASSUME BlocksInv, Blocks!SlowAppendRound
  PROVE  BlocksSteps
<1> DEFINE w == Wanted(blocksCall, blocksDone)
           d == Len(blocksDone)
           n == blocksCall.len
           e == BlocksAt + Blocks!Limit
           t == BlocksEnd + Len(blocksSrc)
           z == Blocks!Least(BlockSize, blocksLimit - (full + Blocks!Limit))
           rest == SubSeq(blocksSrc, Blocks!Avail + 1, Len(blocksSrc))
           filled == Blocks!Stored(SubSeq(blocksSrc, 1, Blocks!Avail))
<1>1. /\ blocksPc \in {"slow", "slowSelf"} /\ Len(blocksSrc) > Blocks!Avail
      /\ full' = full + Blocks!Limit
      /\ UNCHANGED <<blocksLimit, self, blocksLeft, flushed, sink>>
      /\ IF full' + Len(rest) > blocksLimit
         THEN /\ blocks' = filled /\ ptr' = Blocks!Limit
              /\ UNCHANGED sizes
              /\ Blocks!SlowReturns(FALSE)
         ELSE /\ blocks' = Append(filled, Blocks!Blank(z)) /\ ptr' = 0
              /\ sizes' = Append(sizes, z)
              /\ blocksSrc' = rest
              /\ UNCHANGED <<blocksCall, blocksRefused, blocksDone, blocksPc>>
  BY DEF Blocks!SlowAppendRound, Blocks!SlowRound, Blocks!selfVars, Blocks!flushVars
<1>2. /\ BlocksShape /\ BlocksControl /\ blocksCall \in Blocks!Calls /\ ~blocksRefused /\ n \in Nat
      /\ blocksDone \in Seq(Nat) /\ d \in Nat /\ flushed = 0 /\ sink = <<>>
      /\ self \in Nat /\ blocksLeft \in Nat
  BY <1>1, BlocksCallIs, LengthIs DEF BlocksInv, BlocksControl, BlocksShape
<1>3. BlocksFills /\ full = BlocksAt
  BY <1>2, BlocksGoalIs
<1>4. /\ t <= d + n
      /\ blocksPc = "slow" => t = d + n
      /\ blocksPc = "slowSelf" =>
           /\ blocksCall.offset \in 1 .. d
           /\ d + n <= blocksLimit
           /\ t + blocksLeft = d + n
           /\ blocksLeft > 0 => self + blocksCall.offset = t
  BY <1>1, <1>3 DEF BlocksFills
<1>5. /\ Hold(sizes, filled) /\ Len(filled) = Len(sizes)
      /\ Covers(sizes, filled, w, e, blocksDone)
      /\ rest \in Seq(Nat) /\ Len(rest) \in Nat /\ Len(rest) >= 1
      /\ e \in Nat /\ e + Len(rest) = t
      /\ \A i \in 1 .. Len(rest) : rest[i] = w[e + i]
  BY <1>1, BlocksRoundFills
<1>6. /\ sizes \in Seq(Nat) /\ Len(sizes) \in Nat /\ Sum(sizes)[Len(sizes)] = e
      /\ BlocksAt \in Nat /\ Blocks!Limit \in Nat /\ blocksLimit \in Nat /\ Len(blocks) = Len(sizes)
  BY <1>2, BlocksPlaces
<1>7. full' = e
  BY <1>1, <1>3
<1> HIDE DEF rest, filled
<1>8. CASE full' + Len(rest) > blocksLimit
  <2>1. /\ blocks' = filled /\ ptr' = Blocks!Limit /\ UNCHANGED sizes /\ Blocks!SlowReturns(FALSE)
    BY <1>1, <1>8
  <2>2. t > blocksLimit
    BY <1>5, <1>7, <1>8
  <2>3. blocksPc = "slow"
    <3> SUFFICES ASSUME blocksPc = "slowSelf" PROVE FALSE
      BY <1>1
    <3>1. t <= d + n /\ d + n <= blocksLimit
      BY <1>4
    <3>2. t \in Nat
      BY <1>4, <1>5
    <3> HIDE DEF t, d, n
    <3> QED
      BY <1>2, <1>6, <2>2, <3>1, <3>2
  <2>4. Blocks!Returns(FALSE) /\ blocksSrc' = <<>>
    BY <2>1, <2>3 DEF Blocks!SlowReturns
  <2>5. /\ BlocksAt' = BlocksAt /\ BlocksEnd' = e /\ Blocks!Limit' = Blocks!Limit
        /\ Len(blocks') = Len(sizes)
    BY <1>5, <1>6, <2>1, BlocksSums DEF BlocksAt, BlocksEnd, Blocks!Limit
  <2>6. BlocksShape'
    <3>1. blocksRefused' = TRUE /\ blocksDone' = blocksDone
      BY <2>4 DEF Blocks!Returns
    <3>2. full' = BlocksAt' + Blocks!Limit' /\ ptr' = Blocks!Limit'
      BY <1>7, <2>1, <2>5
    <3>3. ptr' \in 0 .. Blocks!Limit' /\ flushed' \in 0 .. Len(blocks')
      BY <1>1, <1>2, <1>6, <2>1, <2>5
    <3>4. /\ blocksLimit' \in BlocksLimits /\ Hold(sizes', blocks') /\ WholeBlocks(sizes', blocksLimit')
      BY <1>1, <1>2, <1>5, <2>1 DEF BlocksShape
    <3>5. blocksSrc' \in Seq(Nat) /\ blocksDone' \in Seq(Nat) /\ sink' \in Seq(Nat)
      BY <1>1, <1>2, <2>4, <3>1
    <3>6. self' \in Nat /\ blocksLeft' \in Nat
      BY <1>1, <1>2
    <3>7. blocksRefused' \in BOOLEAN
      BY <3>1
    <3> QED
      BY <3>1, <3>2, <3>3, <3>4, <3>5, <3>6, <3>7 DEF BlocksShape
  <2>7. Covers(sizes', blocks', w, BlocksEnd', blocksDone)
    BY <1>5, <2>1, <2>5
  <2>8. Len(blocksDone) + blocksCall.len > blocksLimit
    BY <1>4, <2>2, <2>3
  <2> QED
    BY <1>1, <2>3, <2>4, <2>6, <2>7, <2>8, BlocksRefuse
<1>9. CASE ~(full' + Len(rest) > blocksLimit)
  <2>1. /\ blocks' = Append(filled, Blank(z)) /\ ptr' = 0
        /\ sizes' = Append(sizes, z) /\ blocksSrc' = rest
        /\ UNCHANGED <<blocksCall, blocksRefused, blocksDone, blocksPc>>
    BY <1>1, <1>9, OneMemory
  <2>2. z = Blocks!Least(BlockSize, blocksLimit - Sum(sizes)[Len(sizes)])
    BY <1>3, <1>6
  <2>3. Sum(sizes)[Len(sizes)] < blocksLimit
    <3>1. ~(e + Len(rest) > blocksLimit)
      BY <1>7, <1>9
    <3> DEFINE m == Len(rest)
    <3> HIDE DEF m, e
    <3>2. e < blocksLimit
      BY <1>5, <1>6, <3>1 DEF m
    <3> QED
      BY <1>6, <3>2
  <2>4. z \in Nat /\ z >= 1 /\ z <= BlockSize /\ WholeBlocks(sizes', blocksLimit)
    <3>1. WholeBlocks(sizes, blocksLimit)
      BY <1>2 DEF BlocksShape
    <3> HIDE DEF z
    <3> QED
      BY <1>6, <2>1, <2>2, <2>3, <3>1, WholeGrown
  <2> HIDE DEF z
  <2>5. Hold(sizes', blocks') /\ Covers(sizes', blocks', w, e, blocksDone)
    <3>1. e <= Sum(sizes)[Len(sizes)]
      <4> HIDE DEF e
      <4>1. e <= e
        BY <1>5
      <4> QED
        BY <1>6, <4>1
    <3> HIDE DEF e, w
    <3> QED
      BY <1>5, <2>1, <2>4, <3>1, BlocksGrown
  <2>6. Len(sizes') = Len(sizes) + 1 /\ Len(blocks') = Len(sizes) + 1 /\ sizes'[Len(sizes) + 1] = z
    <3>1. Len(sizes') = Len(sizes) + 1 /\ sizes'[Len(sizes) + 1] = z
      BY <1>6, <2>1, <2>4, AppendIs
    <3>2. Len(blocks') = Len(sizes')
      BY <2>5 DEF Hold
    <3> QED
      BY <3>1, <3>2
  <2>7. BlocksAt' = e /\ Blocks!Limit' = z /\ BlocksEnd' = e
    <3>1. Sum(sizes')[Len(sizes)] = e
      <4>1. \A i \in 0 .. Len(sizes) : Sum(Append(sizes, z))[i] = Sum(sizes)[i]
        BY <1>6, <2>4, SumAppended
      <4>2. Len(sizes) \in 0 .. Len(sizes)
        BY <1>6
      <4> QED
        BY <1>6, <2>1, <4>1, <4>2
    <3>2. Len(blocks') # 0 /\ Len(blocks') - 1 = Len(sizes)
      BY <1>6, <2>6
    <3>3. BlocksAt' = e /\ Blocks!Limit' = z
      BY <2>6, <3>1, <3>2, BlocksSums DEF BlocksAt, Blocks!Limit
    <3>4. BlocksEnd' = e + 0
      BY <2>1, <3>3 DEF BlocksEnd
    <3> HIDE DEF e
    <3>5. e + 0 = e
      BY <1>5
    <3> QED
      BY <3>3, <3>4, <3>5
  <2>8. BlocksGoal' = w
    BY <1>1, <2>1 DEF BlocksGoal
  <2>9. BlocksShape'
    <3>1. full' = BlocksAt'
      BY <1>7, <2>7
    <3>2. ptr' \in 0 .. Blocks!Limit'
      BY <2>1, <2>4, <2>7
    <3>3. flushed' \in 0 .. Len(blocks')
      BY <1>1, <1>2, <1>6, <2>6
    <3>4. blocksLimit' \in BlocksLimits /\ Hold(sizes', blocks') /\ WholeBlocks(sizes', blocksLimit')
      BY <1>1, <1>2, <2>4, <2>5 DEF BlocksShape
    <3>5. blocksSrc' \in Seq(Nat) /\ blocksDone' \in Seq(Nat) /\ sink' \in Seq(Nat)
      BY <1>1, <1>2, <1>5, <2>1
    <3>6. self' \in Nat /\ blocksLeft' \in Nat
      BY <1>1, <1>2
    <3>7. blocksRefused' \in BOOLEAN
      BY <1>2, <2>1 DEF BlocksShape
    <3> QED
      BY <3>1, <3>2, <3>3, <3>4, <3>5, <3>6, <3>7 DEF BlocksShape
  <2>10. BlocksControl'
    BY <1>1, <1>2, <2>1 DEF BlocksControl
  <2>11. BlocksFills'
    <3>1. /\ BlocksEnd' + Len(blocksSrc') = t /\ Len(blocksDone') = d /\ blocksCall' = blocksCall
          /\ blocksPc' = blocksPc
      BY <1>5, <2>1, <2>7
    <3>2. \A i \in 1 .. Len(blocksSrc') : blocksSrc'[i] = BlocksGoal'[BlocksEnd' + i]
      BY <1>5, <2>1, <2>7, <2>8
    <3> HIDE DEF t, d
    <3> QED
      BY <1>1, <1>4, <3>1, <3>2 DEF BlocksFills, d
  <2>12. BlocksInv'
    <3>1. Covers(sizes', blocks', BlocksGoal', BlocksEnd', blocksDone')
      BY <2>1, <2>5, <2>7, <2>8
    <3> QED
      BY <1>1, <1>2, <2>1, <2>9, <2>10, <2>11, <3>1, BlocksKeeps
  <2> QED
    BY <1>1, <2>1, <2>12, BlocksAreSilent DEF BlocksSteps
<1> QED
  BY <1>8, <1>9

\* A block handed over is what comes next of the content.
LEMMA BlocksFlushBlock ==
  ASSUME BlocksInv, Blocks!FlushBlock
  PROVE  BlocksSteps
<1> DEFINE j == flushed + 1
           n == Len(sizes)
           k == Blocks!Least(sizes[j], Blocks!Size - Len(sink))
           h == Sum(sizes)[flushed]
           e == BlocksEnd
           f == flushed
           p == SubSeq(blocks[j], 1, k)
<1>1. /\ blocksPc = "flush" /\ f < Len(blocks) /\ sink' = sink \o p /\ flushed' = j
      /\ UNCHANGED <<blocksLimit, blocksSrc, blocksCall, blocksRefused, blocksDone, blocksPc>>
      /\ UNCHANGED <<sizes, blocks, ptr, full, self, blocksLeft>>
  BY BlocksSums DEF Blocks!FlushBlock, Blocks!FlushRound, Blocks!blockVars, Blocks!selfVars
<1>2. /\ BlocksShape /\ BlocksControl /\ Hold(sizes, blocks) /\ sink \in Seq(Nat)
      /\ flushed \in 0 .. Len(blocks)
  BY DEF BlocksInv, BlocksShape
<1>3. PICK g : /\ Covers(sizes, blocks, g, e, blocksDone)
               /\ ~blocksRefused => g = BlocksGoal
               /\ sink = SubSeq(g, 1, BlocksHanded)
  BY <1>1 DEF BlocksInv, BlocksKeep
<1>4. /\ sizes \in Seq(Nat) /\ n \in Nat /\ Len(blocks) = n
      /\ e \in Nat /\ e = BlocksAt + ptr /\ BlocksAt \in Nat /\ ptr \in Nat
      /\ Blocks!Limit \in Nat /\ ptr <= Blocks!Limit
      /\ n # 0 => Blocks!Limit = sizes[n] /\ BlocksAt = Sum(sizes)[n - 1]
  BY <1>2, BlocksPlaces
<1>5. f \in Nat /\ f < n /\ j \in 1 .. n /\ f \in 0 .. n /\ j - 1 = f /\ n # 0
      /\ n - 1 \in 0 .. n /\ f <= n - 1
  <2> HIDE DEF n
  <2> QED
    BY <1>1, <1>2, <1>4
<1>6. BlocksHanded = h
  BY <1>1 DEF BlocksHanded
<1>7. h \in Nat /\ h <= BlocksAt /\ sizes[j] \in Nat
  <2>1. h <= Sum(sizes)[n - 1]
    <3> HIDE DEF n, f
    <3> QED
      BY <1>4, <1>5, SumGrows DEF n, f
  <2>2. Sum(sizes) \in [0 .. n -> Nat]
    BY <1>4, SumIs
  <2> QED
    BY <1>4, <1>5, <2>1, <2>2
<1>8. Held(sizes, blocks, g, e) /\ g \in Seq(Nat) /\ e <= Len(g)
  BY <1>3 DEF Covers
<1> HIDE DEF h
<1>9. Len(sink) = h
  <2>1. h \in Nat /\ h <= Len(g)
    <3>1. Len(g) \in Nat
      BY <1>8, LengthIs
    <3> DEFINE m == Len(g)
    <3> HIDE DEF m, e
    <3> QED
      BY <1>4, <1>7, <1>8, <3>1 DEF m
  <2>2. Len(SubSeq(g, 1, h)) = h
    BY <1>8, <2>1, RestIs
  <2> QED
    BY <1>3, <1>6, <2>2
<1>10. \/ full = BlocksAt
       \/ full = BlocksAt + Blocks!Limit /\ ptr = Blocks!Limit
  BY <1>2 DEF BlocksShape
<1>11. Blocks!Size = full + ptr
  BY DEF Blocks!Size
<1>12. /\ k \in Nat /\ k <= sizes[j] /\ h + k <= e /\ BlocksHanded' = h + k
  <2>1. CASE j = n
    <3>1. h = BlocksAt /\ sizes[j] = Blocks!Limit
      BY <1>4, <1>5, <2>1 DEF h
    <3>2. k = ptr
      <4> DEFINE m == Blocks!Size - Len(sink)
                 l == sizes[j]
      <4>1. m = (full + ptr) - h /\ l = Blocks!Limit
        BY <1>9, <1>11, <3>1
      <4> HIDE DEF m, l
      <4>2. m \in Nat /\ (m = ptr \/ (l = ptr /\ l <= m))
        <5> DEFINE a == BlocksAt
                   q == Blocks!Limit
        <5>1. a \in Nat /\ q \in Nat /\ ptr \in Nat /\ m = (full + ptr) - a /\ l = q
          BY <1>4, <3>1, <4>1
        <5>2. full = a \/ (full = a + q /\ ptr = q)
          BY <1>10
        <5> HIDE DEF a, q
        <5> QED
          BY <5>1, <5>2
      <4>3. Blocks!Least(l, m) = ptr
        BY <1>4, <4>1, <4>2 DEF Blocks!Least
      <4> QED
        BY <4>3 DEF l, m
    <3>3. BlocksHanded' = e
      <4>1. flushed' = Len(blocks')
        BY <1>1, <1>4, <2>1
      <4> QED
        BY <1>1, <4>1, BlocksSums DEF BlocksHanded, BlocksEnd, BlocksAt
    <3> HIDE DEF k, e
    <3>4. h + k <= e /\ e = h + k
      BY <1>4, <3>1, <3>2
    <3> QED
      BY <1>4, <3>1, <3>2, <3>3, <3>4
  <2>2. CASE j # n
    <3>1. Sum(sizes)[j] = h + sizes[j] /\ Sum(sizes)[j] <= BlocksAt
      <4>1. j \in 0 .. n /\ n - 1 \in 0 .. n /\ j <= n - 1
        <5> HIDE DEF n
        <5> QED
          BY <1>4, <1>5, <2>2
      <4>2. Sum(sizes)[j] <= Sum(sizes)[n - 1]
        <5> HIDE DEF n, j
        <5> QED
          BY <1>4, <4>1, SumGrows DEF n
      <4>3. Sum(sizes)[j] = Sum(sizes)[j - 1] + sizes[j]
        BY <1>4, <1>5, SumIs
      <4> QED
        BY <1>4, <1>5, <4>2, <4>3 DEF h
    <3>2. k = sizes[j]
      <4> DEFINE m == Blocks!Size - Len(sink)
                 l == sizes[j]
      <4>1. m = (full + ptr) - h /\ l \in Nat /\ h + l <= BlocksAt
        BY <1>7, <1>9, <1>11, <3>1
      <4> HIDE DEF m, l
      <4>2. m \in Int /\ l <= m
        BY <1>4, <1>7, <1>10, <4>1
      <4>3. Blocks!Least(l, m) = l
        BY <4>2 DEF Blocks!Least
      <4> QED
        BY <4>3 DEF l, m
    <3>3. BlocksHanded' = Sum(sizes)[j]
      BY <1>1, <1>4, <2>2 DEF BlocksHanded
    <3> DEFINE l == sizes[j]
    <3>4. k = l /\ l \in Nat /\ h + l <= BlocksAt /\ BlocksHanded' = h + l
      BY <1>7, <3>1, <3>2, <3>3
    <3> HIDE DEF k, l, e
    <3>5. k <= l /\ k \in Nat /\ h + k <= e /\ BlocksHanded' = h + k
      BY <1>4, <1>7, <3>4
    <3> QED
      BY <3>5 DEF l
  <2> QED
    BY <2>1, <2>2
<1> HIDE DEF k
<1>13. p \in Seq(Nat) /\ Len(p) = k /\ \A x \in 1 .. k : p[x] = g[h + x]
  <2> DEFINE b == blocks[j]
  <2>1. b \in Seq(Nat) /\ Len(b) = sizes[j]
    BY <1>4, <1>5, <1>2 DEF Hold
  <2>2. k \in Nat /\ k <= Len(b)
    BY <1>12, <2>1
  <2> HIDE DEF b
  <2>3. /\ SubSeq(b, 1, k) \in Seq(Nat) /\ Len(SubSeq(b, 1, k)) = k
        /\ \A x \in 1 .. k : SubSeq(b, 1, k)[x] = b[x]
    BY <2>1, <2>2, RestIs
  <2>4. \A x \in 1 .. k : b[x] = g[h + x]
    <3> TAKE x \in 1 .. k
    <3> DEFINE l == sizes[j]
    <3>1. x \in 1 .. l /\ h + x <= e
      <4> HIDE DEF e, l
      <4> QED
        BY <1>4, <1>7, <1>12 DEF l
    <3>2. Sum(sizes)[j - 1] + x <= e
      BY <1>5, <3>1 DEF h
    <3>3. blocks[j][x] = g[Sum(sizes)[j - 1] + x]
      BY <1>5, <1>8, <3>1, <3>2, <1>4 DEF Held
    <3> QED
      BY <1>5, <3>3 DEF b, h
  <2> QED
    BY <2>3, <2>4 DEF b
<1> HIDE DEF p
<1>14. sink' = SubSeq(g, 1, h + k)
  <2> DEFINE c == h + k
             m == Len(g)
  <2>1. m \in Nat
    BY <1>8, LengthIs
  <2>2. c \in Nat /\ c <= m /\ h <= m
    <3> HIDE DEF m, e
    <3> QED
      BY <1>4, <1>7, <1>8, <1>12, <2>1 DEF m
  <2>3. c = Len(sink) + Len(p)
    BY <1>9, <1>13
  <2> HIDE DEF c
  <2>4. \A i \in 1 .. Len(sink) : g[i] = sink[i]
    <3>1. \A i \in 1 .. h : SubSeq(g, 1, h)[i] = g[i]
      BY <1>7, <1>8, <2>2, RestIs
    <3> QED
      BY <1>3, <1>6, <1>9, <3>1
  <2>5. \A i \in 1 .. Len(p) : g[Len(sink) + i] = p[i]
    BY <1>9, <1>13
  <2>6. SubSeq(g, 1, c) = sink \o p
    BY <1>2, <1>8, <1>13, <2>2, <2>3, <2>4, <2>5, BeginsWith
  <2> QED
    BY <1>1, <2>6 DEF c
<1>15. /\ BlocksAt' = BlocksAt /\ BlocksEnd' = BlocksEnd /\ Blocks!Limit' = Blocks!Limit
       /\ BlocksGoal' = BlocksGoal
  BY <1>1, BlocksSums DEF BlocksAt, BlocksEnd, BlocksGoal, Blocks!Limit
<1>16. BlocksShape'
  <2>1. sink' \in Seq(Nat)
    BY <1>1, <1>2, <1>13, JoinIs
  <2>2. flushed' \in 0 .. Len(blocks')
    BY <1>1, <1>4, <1>5
  <2> QED
    BY <1>1, <1>2, <1>15, <2>1, <2>2 DEF BlocksShape
<1>17. BlocksControl'
  BY <1>1, <1>2 DEF BlocksControl
<1>18. ~blocksRefused' => BlocksFills'
  BY <1>1, <1>15 DEF BlocksInv, BlocksFills
<1>19. BlocksKeep'
  <2>1. /\ Covers(sizes', blocks', g, BlocksEnd', blocksDone')
        /\ ~blocksRefused' => g = BlocksGoal'
        /\ blocksPc' \in {"flush", "flushed"} => sink' = SubSeq(g, 1, BlocksHanded')
    BY <1>1, <1>3, <1>12, <1>14, <1>15
  <2> QED
    BY <2>1 DEF BlocksKeep
<1>20. BlocksInv'
  BY <1>16, <1>17, <1>18, <1>19 DEF BlocksInv
<1> QED
  BY <1>1, <1>20, BlocksAreSilent DEF BlocksSteps

LEMMA BlocksInitInv == Blocks!Init => BlocksInv
<1> SUFFICES ASSUME Blocks!Init PROVE BlocksInv
  OBVIOUS
<1>1. /\ blocksLimit \in BlocksLimits /\ sizes = <<>> /\ blocks = <<>> /\ ptr = 0 /\ full = 0
      /\ blocksSrc = <<>> /\ self = 0 /\ blocksLeft = 0 /\ blocksCall = Blocks!NoCall
      /\ blocksRefused = FALSE /\ blocksPc = "idle" /\ flushed = 0 /\ sink = <<>>
      /\ blocksDone = <<>>
  BY DEF Blocks!Init
<1>2. sizes \in Seq(Nat) /\ Len(sizes) = 0 /\ Len(blocks) = 0
  BY <1>1
<1>3. Sum(sizes)[0] = 0
  BY <1>2, SumIs
<1>4. Hold(sizes, blocks)
  BY <1>1, <1>2 DEF Hold
<1>5. BlocksAt = 0 /\ BlocksEnd = 0 /\ Blocks!Limit = 0
  BY <1>1, <1>2, BlocksSums DEF BlocksAt, BlocksEnd, Blocks!Limit
<1>6. BlocksShape
  <2>1. blocksLimit \in Nat
    BY <1>1, BlocksNumbers
  <2>2. WholeBlocks(sizes, blocksLimit)
    BY <1>2, <1>3, <2>1 DEF WholeBlocks
  <2>3. ptr \in 0 .. Blocks!Limit /\ flushed \in 0 .. Len(blocks) /\ full = BlocksAt
    BY <1>1, <1>2, <1>5
  <2>4. blocksSrc \in Seq(Nat) /\ blocksDone \in Seq(Nat) /\ sink \in Seq(Nat)
        /\ self \in Nat /\ blocksLeft \in Nat
    BY <1>1
  <2>5. blocksRefused \in BOOLEAN
    BY <1>1
  <2> QED
    BY <1>1, <1>4, <2>2, <2>3, <2>4, <2>5 DEF BlocksShape
<1>7. BlocksControl
  BY <1>1 DEF BlocksControl
<1>8. BlocksFills
  BY <1>1, <1>5 DEF BlocksFills
<1>9. BlocksKeep
  <2>1. Held(sizes, blocks, blocksDone, BlocksEnd)
    BY <1>2 DEF Held
  <2>2. Covers(sizes, blocks, blocksDone, BlocksEnd, blocksDone)
    BY <1>1, <1>5, <2>1 DEF Covers
  <2>3. BlocksGoal = blocksDone
    BY <1>1 DEF BlocksGoal
  <2> QED
    BY <1>1, <2>2, <2>3 DEF BlocksKeep
<1> QED
  BY <1>6, <1>7, <1>8, <1>9 DEF BlocksInv

LEMMA BlocksStep == BlocksInv /\ [Blocks!Next]_Blocks!vars => BlocksSteps
<1> SUFFICES ASSUME BlocksInv, [Blocks!Next]_Blocks!vars PROVE BlocksSteps
  OBVIOUS
<1>1. ASSUME UNCHANGED Blocks!vars PROVE BlocksSteps
  <2>1. /\ UNCHANGED <<blocksLimit, sizes, blocks, ptr, full, blocksSrc, self, blocksLeft>>
        /\ UNCHANGED <<blocksCall, blocksRefused, blocksPc, flushed, sink, blocksDone>>
    BY <1>1 DEF Blocks!vars
  <2>2. /\ BlocksAt' = BlocksAt /\ BlocksEnd' = BlocksEnd /\ Blocks!Limit' = Blocks!Limit
        /\ BlocksGoal' = BlocksGoal /\ BlocksHanded' = BlocksHanded
    BY <2>1, BlocksSums DEF BlocksAt, BlocksEnd, BlocksGoal, BlocksHanded, Blocks!Limit
  <2>3. BlocksShape' /\ BlocksControl'
    BY <2>1, <2>2 DEF BlocksInv, BlocksShape, BlocksControl
  <2>4. ~blocksRefused' => BlocksFills'
    BY <2>1, <2>2 DEF BlocksInv, BlocksFills
  <2>5. BlocksKeep'
    BY <2>1, <2>2 DEF BlocksInv, BlocksKeep
  <2> QED
    BY <2>1, <2>3, <2>4, <2>5, BlocksAreSilent DEF BlocksSteps, BlocksInv
<1>2. ASSUME Blocks!Next PROVE BlocksSteps
  <2>1. ASSUME NEW c \in Blocks!Calls, Blocks!Call(c) PROVE BlocksSteps
    BY <2>1, BlocksCalled
  <2>2. CASE Blocks!FastAppend
    BY <2>2, BlocksFastAppend
  <2>3. CASE Blocks!FastAppendFromSelf
    BY <2>3, BlocksFastAppendFromSelf
  <2>4. CASE Blocks!SlowAppendStart
    BY <2>4, BlocksSlowAppendStart
  <2>5. CASE Blocks!SlowAppendRound
    BY <2>5, BlocksSlowAppendRound
  <2>6. CASE Blocks!SlowAppendEnd
    BY <2>6, BlocksSlowAppendEnd
  <2>7. CASE Blocks!SlowAppendFromSelf
    BY <2>7, BlocksSlowAppendFromSelf
  <2>8. CASE Blocks!SelfRound
    BY <2>8, BlocksSelfRound
  <2>9. CASE Blocks!SelfEnd
    BY <2>9, BlocksSelfEnd
  <2>10. CASE Blocks!FlushStart
    BY <2>10, BlocksFlushStart
  <2>11. CASE Blocks!FlushBlock
    BY <2>11, BlocksFlushBlock
  <2>12. CASE Blocks!FlushEnd
    BY <2>12, BlocksFlushEnd
  <2>13. CASE Blocks!Returned
    BY <1>1, <2>13 DEF Blocks!Returned
  <2> QED
    BY <1>2, <2>1, <2>2, <2>3, <2>4, <2>5, <2>6, <2>7, <2>8, <2>9, <2>10, <2>11, <2>12, <2>13
       DEF Blocks!Next
<1> QED
  BY <1>1, <1>2

\* What is joined is as long as its parts.
LEMMA JoinedLengths ==
  ASSUME NEW l, NEW v, Hold(l, v)
  PROVE  \A k \in 0 .. Len(l) : Len(Joined(v, Len(l))[k]) = Sum(l)[k]
<1> DEFINE n == Len(l)
           f == Joined(v, n)
           s == Sum(l)
           Differ == {i \in 0 .. n : Len(f[i]) # s[i]}
<1> SUFFICES ASSUME Differ # {} PROVE FALSE
  OBVIOUS
<1>1. /\ l \in Seq(Nat) /\ v \in Seq(Seq(Nat)) /\ Len(v) = n /\ n \in Nat
      /\ \A i \in 1 .. n : Len(v[i]) = l[i]
  BY LengthIs DEF Hold
<1>2. s \in [0 .. n -> Nat] /\ s[0] = 0 /\ \A i \in 1 .. n : s[i] = s[i - 1] + l[i]
  BY <1>1, SumIs
<1>3. /\ f \in [0 .. n -> Seq(Nat)] /\ f[0] = <<>> /\ \A i \in 1 .. n : f[i] = f[i - 1] \o v[i]
  <2>1. n <= Len(v)
    BY <1>1
  <2> HIDE DEF n
  <2> QED
    BY <1>1, <2>1, JoinedIs
<1> HIDE DEF f, s
<1>4. PICK i \in Differ : \A j \in Differ : i <= j
  <2>1. Differ \in SUBSET Nat
    BY <1>1
  <2> HIDE DEF Differ
  <2> QED
    BY <2>1, Facts!LeastOfNat
<1>5. i \in 0 .. n /\ Len(f[i]) # s[i]
  OBVIOUS
<1>6. i # 0
  BY <1>2, <1>3, <1>5
<1>7. i \in 1 .. n /\ i - 1 \in 0 .. n /\ i - 1 < i
  <2> HIDE DEF n
  <2> QED
    BY <1>1, <1>5, <1>6
<1>8. Len(f[i - 1]) = s[i - 1]
  <2>1. i - 1 \notin Differ
    <3> HIDE DEF Differ, n
    <3> QED
      BY <1>1, <1>4, <1>7
  <2> QED
    BY <1>7, <2>1
<1>9. Len(f[i]) = Len(f[i - 1]) + Len(v[i])
  <2> DEFINE S == Seq(Nat)
  <2>0. f \in [0 .. n -> S] /\ v \in Seq(S) /\ Len(v) = n
    BY <1>1, <1>3
  <2> HIDE DEF S, n
  <2>1. f[i - 1] \in S /\ v[i] \in S /\ f[i] = f[i - 1] \o v[i]
    <3>1. f[i - 1] \in S
      BY <1>7, <2>0
    <3>2. v[i] \in S
      BY <1>7, <2>0
    <3>3. f[i] = f[i - 1] \o v[i]
      BY <1>3, <1>7
    <3> QED
      BY <3>1, <3>2, <3>3
  <2> DEFINE b == f[i - 1]
             c == v[i]
  <2> HIDE DEF b, c
  <2>2. b \in Seq(Nat) /\ c \in Seq(Nat) /\ f[i] = b \o c
    BY <2>1 DEF b, c, S
  <2>3. Len(b \o c) = Len(b) + Len(c)
    BY <2>2, JoinIs
  <2> QED
    BY <2>2, <2>3 DEF b, c
<1> QED
  BY <1>1, <1>2, <1>5, <1>7, <1>8, <1>9

\* What the invariant says of the properties.
LEMMA BlocksHolds ==
  ASSUME BlocksInv
  PROVE  /\ Blocks!TypeOK /\ Blocks!InsideBlocks
         /\ Blocks!BlocksAreWhole /\ Blocks!SinkGetsContent
<1>1. BlocksShape /\ BlocksControl /\ Hold(sizes, blocks)
  BY DEF BlocksInv, BlocksShape
<1>2. /\ sizes \in Seq(Nat) /\ Len(sizes) \in Nat /\ Len(blocks) = Len(sizes)
      /\ blocksLimit \in Nat
      /\ Blocks!Limit \in Nat /\ ptr \in Nat /\ ptr <= Blocks!Limit
      /\ BlocksAt \in Nat /\ BlocksEnd \in Nat
      /\ Sum(sizes)[Len(sizes)] \in Nat /\ Sum(sizes)[Len(sizes)] <= blocksLimit
  BY <1>1, BlocksPlaces
<1>3. Blocks!TypeOK
  <2>1. blocksCall \in Blocks!Calls \cup {Blocks!NoCall}
    BY <1>1 DEF BlocksControl
  <2>2. sizes \in Seq(1 .. BlockSize)
    <3>1. \A i \in 1 .. Len(sizes) : sizes[i] \in 1 .. BlockSize
      BY <1>1 DEF BlocksShape, WholeBlocks
    <3> DEFINE S == 1 .. BlockSize
               n == Len(sizes)
    <3>2. n \in Nat /\ sizes = [i \in 1 .. n |-> sizes[i]]
      BY <1>2
    <3>3. \A i \in 1 .. n : sizes[i] \in S
      BY <3>1
    <3> HIDE DEF S, n
    <3>4. [i \in 1 .. n |-> sizes[i]] \in Seq(S)
      BY <3>2, <3>3
    <3> QED
      BY <3>2, <3>4 DEF S
  <2>3. full \in Nat
    <3>1. full = BlocksAt \/ full = BlocksAt + Blocks!Limit
      BY <1>1 DEF BlocksShape
    <3> QED
      BY <1>2, <3>1
  <2>4. blocks \in Seq(Seq(Nat)) /\ flushed \in 0 .. Len(blocks)
    BY <1>1 DEF Hold, BlocksShape
  <2>5. /\ blocksLimit \in BlocksLimits /\ blocksSrc \in Seq(Nat) /\ blocksDone \in Seq(Nat)
        /\ sink \in Seq(Nat) /\ self \in Nat /\ blocksLeft \in Nat /\ blocksRefused \in BOOLEAN
    BY <1>1 DEF BlocksShape
  <2>6. blocksPc \in {"idle", "call", "slow", "slowSelf", "self", "flush", "flushed"}
    BY <1>1 DEF BlocksControl
  <2> QED
    BY <1>2, <2>1, <2>2, <2>3, <2>4, <2>5, <2>6, BlocksSums DEF Blocks!TypeOK
<1>4. Blocks!InsideBlocks
  <2>1. \A i \in 1 .. Len(sizes) : Len(blocks[i]) = sizes[i]
    BY <1>1 DEF Hold
  <2> QED
    BY <1>2, <2>1, BlocksSums DEF Blocks!InsideBlocks
<1>5. Blocks!BlocksAreWhole
  <2>1. \A i \in 1 .. Len(sizes) - 1 : sizes[i] = BlockSize
    BY <1>1 DEF BlocksShape, WholeBlocks
  <2>2. Len(Joined(blocks, Len(sizes))[Len(sizes)]) = Sum(sizes)[Len(sizes)]
    <3>1. Len(sizes) \in 0 .. Len(sizes)
      BY <1>2
    <3> QED
      BY <1>1, <3>1, JoinedLengths
  <2> QED
    BY <1>2, <2>1, <2>2, BlocksSums DEF Blocks!BlocksAreWhole
<1>6. Blocks!SinkGetsContent
  <2> SUFFICES ASSUME blocksPc = "flushed"
               PROVE  /\ SubSeq(sink, 1, Len(blocksDone)) = blocksDone
                      /\ ~blocksRefused => sink = blocksDone
                      /\ \A i \in 1 .. Len(sink) : sink[i] # 0
    BY DEF Blocks!SinkGetsContent
  <2> DEFINE e == BlocksEnd
             d == Len(blocksDone)
  <2>1. PICK g : /\ Covers(sizes, blocks, g, e, blocksDone)
                 /\ ~blocksRefused => g = BlocksGoal
                 /\ sink = SubSeq(g, 1, BlocksHanded)
    BY DEF BlocksInv, BlocksKeep
  <2>2. BlocksHanded = e
    BY <1>1 DEF BlocksControl, BlocksHanded
  <2>3. /\ g \in Seq(Nat) /\ \A i \in 1 .. Len(g) : g[i] # 0
        /\ d <= e /\ e <= Len(g) /\ \A i \in 1 .. d : g[i] = blocksDone[i]
    BY <2>1 DEF Covers
  <2>4. d \in Nat /\ e \in Nat /\ Len(g) \in Nat /\ blocksDone \in Seq(Nat)
    BY <1>1, <1>2, <2>3, LengthIs DEF BlocksShape
  <2>5. sink \in Seq(Nat) /\ Len(sink) = e /\ \A i \in 1 .. e : sink[i] = g[i]
    <3> HIDE DEF e
    <3> QED
      BY <2>1, <2>2, <2>3, <2>4, RestIs
  <2>6. SubSeq(sink, 1, d) = blocksDone
    <3> DEFINE b == SubSeq(sink, 1, d)
    <3>1. b \in Seq(Nat) /\ Len(b) = d /\ \A i \in 1 .. d : b[i] = sink[i]
      <4>1. d <= Len(sink)
        BY <2>3, <2>5
      <4> HIDE DEF d
      <4> QED
        BY <2>4, <2>5, <4>1, RestIs
    <3> HIDE DEF b
    <3>2. \A i \in 1 .. d : b[i] = blocksDone[i]
      <4> TAKE i \in 1 .. d
      <4>1. i \in 1 .. e
        <5> HIDE DEF d, e
        <5> QED
          BY <2>3, <2>4
      <4> QED
        BY <2>3, <2>5, <3>1, <4>1
    <3>3. b = blocksDone
      BY <2>4, <3>1, <3>2, SameBytes
    <3> QED
      BY <3>3 DEF b
  <2>7. ASSUME ~blocksRefused PROVE sink = blocksDone
    <3>1. g = blocksDone /\ e = d
      BY <2>1, <2>7 DEF BlocksGoal, BlocksInv, BlocksFills
    <3>2. SubSeq(sink, 1, d) = sink
      BY <2>5, <3>1, WholeIs
    <3> QED
      BY <2>6, <3>2
  <2>8. \A i \in 1 .. Len(sink) : sink[i] # 0
    <3> TAKE i \in 1 .. Len(sink)
    <3>1. i \in 1 .. e
      BY <2>5
    <3>2. i \in 1 .. Len(g)
      <4> DEFINE m == Len(g)
      <4> HIDE DEF e, m
      <4> QED
        BY <2>3, <2>4, <3>1 DEF m
    <3> QED
      BY <2>3, <2>5, <3>1, <3>2
  <2> QED
    BY <2>6, <2>7, <2>8
<1> QED
  BY <1>3, <1>4, <1>5, <1>6

LEMMA BlocksInitIs == Blocks!Init => Blocks!Writer!Init
<1> SUFFICES ASSUME Blocks!Init PROVE Blocks!Writer!Init
  OBVIOUS
<1>1. /\ blocksLimit \in BlocksLimits /\ blocksCall = Blocks!NoCall /\ blocksDone = <<>>
      /\ blocksRefused = FALSE
  BY DEF Blocks!Init
<1>2. blocksLimit \in Nat
  BY <1>1, BlocksNumbers
<1> QED
  BY <1>1, <1>2, WantedCalls DEF Blocks!Writer!Init

(***************************************************************************)
(* The writers among the parts of the decompressor.                        *)
(***************************************************************************)
WritersInv == ArrayInv /\ IOVecInv /\ BlocksInv

\* Each writer's step is one of the abstract writer, or none.
WritersSteps == ArraySteps /\ IOVecSteps /\ BlocksSteps

LEMMA WritersInit ==
  AnyInit => WritersInv /\ Array!Writer!Init /\ IOVec!Writer!Init /\ Blocks!Writer!Init
BY ArrayInitInv, IOVecInitInv, BlocksInitInv, ArrayInitIs, IOVecInitIs, BlocksInitIs
   DEF AnyInit, WritersInv

LEMMA WritersStep == WritersInv /\ [AnyNext]_allVars => WritersSteps
<1> SUFFICES ASSUME WritersInv, [AnyNext]_allVars PROVE WritersSteps
  OBVIOUS
<1>1. /\ UNCHANGED arrayVars => UNCHANGED Array!vars
      /\ UNCHANGED iovVars => UNCHANGED IOVec!vars
      /\ UNCHANGED blocksVars => UNCHANGED Blocks!vars
  BY DEF arrayVars, iovVars, blocksVars, Array!vars, IOVec!vars, Blocks!vars
<1>2. /\ [Array!Next]_Array!vars => ArraySteps
      /\ [IOVec!Next]_IOVec!vars => IOVecSteps
      /\ [Blocks!Next]_Blocks!vars => BlocksSteps
  BY ArrayStep, IOVecStep, BlocksStep DEF WritersInv
<1>3. [Array!Next]_Array!vars /\ [IOVec!Next]_IOVec!vars /\ [Blocks!Next]_Blocks!vars
  <2>1. CASE UNCHANGED <<arrayVars, iovVars, blocksVars>>
    BY <1>1, <2>1
  <2>2. CASE CallRuns \/ CopyRuns \/ StreamRuns
    BY <2>1, <2>2 DEF CallRuns, CopyRuns, StreamRuns, OnlyStream
  <2>3. CASE ArrayRuns
    BY <1>1, <2>3 DEF ArrayRuns
  <2>4. CASE IOVecRuns
    BY <1>1, <2>4 DEF IOVecRuns
  <2>5. CASE BlocksRun
    BY <1>1, <2>5 DEF BlocksRun
  <2>6. CASE UNCHANGED allVars
    BY <2>1, <2>6 DEF allVars
  <2> QED
    BY <2>2, <2>3, <2>4, <2>5, <2>6 DEF AnyNext
<1> QED
  BY <1>2, <1>3 DEF WritersSteps

LEMMA WritersKeep == WritersSteps => WritersInv'
BY DEF WritersSteps, WritersInv, ArraySteps, IOVecSteps, BlocksSteps

\* For all calls, limits and sizes of buffers and blocks: what the iovec writer
\* counts is what its buffers hold, the length check finds bytes that went nowhere,
\* the validator says what the array writer would, and the scattered writer's sink
\* gets what was written (of the size it returns after a refusal nothing is said).
THEOREM TheWritersAgree == AnySpec => []WritersAgree
<1>1. WritersInv => WritersAgree
  BY ArrayHolds, IOVecHolds, BlocksHolds DEF WritersInv, WritersAgree
<1> QED
  BY <1>1, WritersInit, WritersStep, WritersKeep, PTL DEF AnySpec

\* For all of them: the array, the iovec and the scattered writer each do, call by
\* call, what the abstract writer does.
THEOREM TheWritersImplement == AnySpec => WritersImplement
<1>1. WritersSteps => /\ [Array!Writer!Next]_(Array!Writer!vars)
                      /\ [IOVec!Writer!Next]_(IOVec!Writer!vars)
                      /\ [Blocks!Writer!Next]_(Blocks!Writer!vars)
  BY DEF WritersSteps, ArraySteps, IOVecSteps, BlocksSteps
<1> QED
  BY <1>1, WritersInit, WritersStep, WritersKeep, PTL
     DEF AnySpec, WritersImplement, Array!Implements, IOVec!Implements, Blocks!Implements,
         Array!Writer!Spec, IOVec!Writer!Spec, Blocks!Writer!Spec

-----------------------------------------------------------------------------
(***************************************************************************)
(* A call of the iovec writer gets on: the buffers after the current one,  *)
(* the bytes to append and to copy and the buffers to look through make a  *)
(* number that every round of its loops lowers, one that copies no byte    *)
(* because a buffer is empty or full included.                             *)
(***************************************************************************)
IOVecCopying == 3 * iovLeft + 3 * (Len(len) - from) + 1
IOVecRounds ==
  IF iovPc = "call" THEN 3 * iovCall.len + 4 * Len(len) + 3
  ELSE IF iovPc = "append" THEN Len(iovSrc) + 1
  ELSE IF iovPc = "locate" THEN 3 * iovLeft + 3 * Len(len) + from + 2
  ELSE IF iovPc = "copy" THEN IOVecCopying
  ELSE IOVecCopying + Len(iovSrc) + 1
IOVecToDo == IF iovPc = "idle" THEN 0 ELSE (Len(len) - curr) + IOVecRounds

LEMMA IOVecSizes ==
  ASSUME IOVecInv
  PROVE  /\ Len(len) \in Nat /\ Len(len) >= 1 /\ curr \in Nat /\ curr <= Len(len)
         /\ from \in Nat /\ from >= 1 /\ from <= curr
         /\ written \in Nat /\ len[curr] \in Nat /\ written <= len[curr]
         /\ fromOffset \in Nat /\ len[from] \in Nat /\ fromOffset <= len[from]
         /\ iovLeft \in Nat /\ iovSrc \in Seq(Nat) /\ Len(iovSrc) \in Nat
         /\ (iovSrc = <<>>) <=> (Len(iovSrc) = 0)
         /\ iovPc \in {"idle", "call", "append", "appendSelf", "locate", "copy"}
         /\ iovPc # "idle" => iovCall.len \in Nat
<1>1. IOVecShape /\ IOVecControl
  BY DEF IOVecInv
<1>2. written <= len[curr] /\ fromOffset <= len[from] /\ iovLeft \in Nat /\ iovSrc \in Seq(Nat)
  BY <1>1 DEF IOVecShape
<1>3. iovPc # "idle" => iovCall.len \in Nat
  BY <1>1, IOVecCallIs DEF IOVecControl
<1> QED
  BY <1>1, <1>2, <1>3, IOVecPlaces DEF IOVecControl

LEMMA IOVecToDoIs ==
  ASSUME IOVecInv
  PROVE  IOVecToDo \in Nat /\ (iovPc # "idle" => IOVecToDo >= 1)
<1>1. Len(len) - from \in Nat /\ Len(len) - curr \in Nat
  BY IOVecSizes
<1>2. IOVecCopying \in Nat
  BY <1>1, IOVecSizes, SMTT(30) DEF IOVecCopying
<1>3. iovPc # "idle" => IOVecRounds \in Nat /\ IOVecRounds >= 1
  <2> DEFINE n == Len(len)
             l == iovCall.len
  <2>0. n \in Nat /\ from \in Nat /\ iovLeft \in Nat /\ (iovPc # "idle" => l \in Nat)
    BY IOVecSizes
  <2>1. CASE iovPc = "call"
    <3>1. IOVecRounds = 3 * l + 4 * n + 3
      BY <2>1 DEF IOVecRounds
    <3>2. l \in Nat
      BY <2>0, <2>1
    <3> HIDE DEF n, l
    <3> QED
      BY <2>0, <3>1, <3>2
  <2>3. CASE iovPc = "append"
    BY <2>3, IOVecSizes DEF IOVecRounds
  <2>4. CASE iovPc = "locate"
    <3>1. IOVecRounds = 3 * iovLeft + 3 * n + from + 2
      BY <2>4 DEF IOVecRounds
    <3> HIDE DEF n
    <3> QED
      BY <2>0, <3>1
  <2>2. CASE iovPc \in {"copy", "appendSelf"}
    <3>1. IOVecCopying >= 1
      BY <1>1, IOVecSizes, SMTT(30) DEF IOVecCopying
    <3> QED
      BY <1>2, <2>2, <3>1, IOVecSizes DEF IOVecRounds
  <2> QED
    BY <2>1, <2>2, <2>3, <2>4, IOVecSizes
<1> QED
  BY <1>1, <1>3 DEF IOVecToDo

LEMMA IOVecReturnLowers ==
  ASSUME IOVecInv, iovPc # "idle", iovPc' = "idle"
  PROVE  IOVecToDo' < IOVecToDo
<1>1. IOVecToDo' = 0
  BY DEF IOVecToDo
<1> QED
  BY <1>1, IOVecToDoIs

LEMMA IOVecStartLowers ==
  ASSUME IOVecInv, IOVec!AppendStart \/ IOVec!AppendFromSelf
  PROVE  IOVecToDo' < IOVecToDo
<1> DEFINE n == Len(len)
           l == iovCall.len
<1>0. /\ n \in Nat /\ n >= 1 /\ curr \in Nat /\ curr <= n
      /\ from \in Nat /\ from >= 1 /\ from <= curr /\ iovLeft \in Nat
  BY IOVecSizes
<1>1. iovPc = "call"
  BY DEF IOVec!AppendStart, IOVec!AppendFromSelf
<1>2. IOVecToDo = (n - curr) + (3 * l + 4 * n + 3)
  BY <1>1 DEF IOVecToDo, IOVecRounds
<1>9. l \in Nat
  BY <1>1, IOVecSizes
<1>3. CASE iovPc' = "idle"
  BY <1>1, <1>3, IOVecReturnLowers
<1>4. CASE iovPc' # "idle" /\ IOVec!AppendStart
  <2>1. /\ iovPc' = "append" /\ len' = len /\ curr' = curr
        /\ iovSrc' = IOVec!LiteralBytes(total, l)
    BY <1>4 DEF IOVec!AppendStart, IOVec!destination, IOVec!Returns
  <2>2. Len(iovSrc') = l
    BY <1>1, <2>1, IOVecSizes DEF IOVec!LiteralBytes
  <2>3. IOVecToDo' = (n - curr) + (l + 1)
    BY <2>1, <2>2 DEF IOVecToDo, IOVecRounds
  <2> HIDE DEF n, l
  <2> QED
    BY <1>0, <1>2, <1>9, <2>3
<1>5. CASE iovPc' # "idle" /\ IOVec!AppendFromSelf
  <2>1. /\ iovPc' = "locate" /\ len' = len /\ curr' = curr
        /\ from' = curr /\ iovLeft' = l
    BY <1>5 DEF IOVec!AppendFromSelf, IOVec!destination, IOVec!Returns
  <2>2. IOVecToDo' = (n - curr) + (3 * l + 3 * n + curr + 2)
    BY <2>1 DEF IOVecToDo, IOVecRounds
  <2> HIDE DEF n, l
  <2> QED
    BY <1>0, <1>2, <1>9, <2>2
<1> QED
  BY <1>3, <1>4, <1>5

LEMMA IOVecAppendReturnLowers ==
  ASSUME IOVecInv, IOVec!AppendEnd \/ IOVec!AppendNoBuffer
  PROVE  IOVecToDo' < IOVecToDo
<1>1. /\ iovPc \in {"append", "appendSelf"} /\ UNCHANGED <<len, curr, from, iovLeft>>
      /\ iovPc = "append" => iovPc' = "idle"
      /\ iovPc = "appendSelf" => iovPc' = "copy"
  BY DEF IOVec!AppendEnd, IOVec!AppendNoBuffer, IOVec!AppendReturns, IOVec!Returns,
         IOVec!destination, IOVec!copyVars
<1>2. CASE iovPc = "append"
  BY <1>1, <1>2, IOVecReturnLowers
<1>3. CASE iovPc = "appendSelf"
  <2>1. IOVecCopying' = IOVecCopying
    BY <1>1 DEF IOVecCopying
  <2>2. IOVecToDo' = (Len(len) - curr) + IOVecCopying
    BY <1>1, <1>3, <2>1 DEF IOVecToDo, IOVecRounds
  <2>3. IOVecToDo = (Len(len) - curr) + (IOVecCopying + Len(iovSrc) + 1)
    BY <1>3 DEF IOVecToDo, IOVecRounds
  <2>4. IOVecCopying \in Int
    BY IOVecSizes DEF IOVecCopying
  <2> QED
    BY <2>2, <2>3, <2>4, IOVecSizes
<1> QED
  BY <1>1, <1>2, <1>3

LEMMA IOVecAppendRoundLowers ==
  ASSUME IOVecInv, IOVec!AppendRound
  PROVE  IOVecToDo' < IOVecToDo
<1> DEFINE to == IF IOVec!Full THEN curr + 1 ELSE curr
           at == IF IOVec!Full THEN 0 ELSE written
           k == IOVec!Least(Len(iovSrc), len[to] - at)
           n == Len(len)
           s == Len(iovSrc)
<1>0. /\ n \in Nat /\ n >= 1 /\ curr \in Nat /\ curr <= n
      /\ from \in Nat /\ from >= 1 /\ from <= curr /\ iovLeft \in Nat
  BY IOVecSizes
<1>1. /\ iovPc \in {"append", "appendSelf"} /\ iovSrc # <<>> /\ to <= Len(len)
      /\ curr' = to /\ iovSrc' = SubSeq(iovSrc, k + 1, Len(iovSrc))
      /\ UNCHANGED <<len, iovPc, from, iovLeft>>
  BY DEF IOVec!AppendRound, IOVec!Count, IOVec!copyVars
<1>2. /\ k \in Nat /\ k <= Len(iovSrc)
      /\ (curr' = curr + 1) \/ (curr' = curr /\ k >= 1)
  <2>1. CASE IOVec!Full
    <3>1. len[curr + 1] \in Nat
      <4>1. len \in Seq(Nat) /\ curr + 1 \in 1 .. Len(len)
        <5>1. curr + 1 <= Len(len)
          BY <1>1, <2>1
        <5>2. len \in Seq(Nat)
          BY IOVecPlaces DEF IOVecInv
        <5>3. curr \in Nat /\ Len(len) \in Nat
          BY IOVecSizes
        <5> DEFINE m == Len(len)
        <5>4. curr + 1 \in 1 .. m
          <6> HIDE DEF m
          <6> QED
            BY <5>1, <5>3 DEF m
        <5> QED
          BY <5>2, <5>4
      <4> QED
        BY <4>1
    <3> QED
      BY <1>1, <2>1, <3>1, IOVecSizes DEF IOVec!Least
  <2>2. CASE ~IOVec!Full
    <3>1. len[curr] - written \in Nat /\ len[curr] - written >= 1
      BY <2>2, IOVecSizes DEF IOVec!Full
    <3> QED
      BY <1>1, <2>2, <3>1, IOVecSizes, SMTT(30) DEF IOVec!Least
  <2> QED
    BY <2>1, <2>2
<1>3. curr' \in Nat
  BY <1>2, IOVecSizes
<1> HIDE DEF to, at, k
<1>4. Len(iovSrc') = Len(iovSrc) - k
  BY <1>1, <1>2, IOVecSizes
<1>5. IOVecCopying' = IOVecCopying /\ IOVecCopying \in Int
  BY <1>1, IOVecSizes DEF IOVecCopying
<1>9. s \in Nat /\ k \in Nat /\ ((curr' = curr + 1) \/ (curr' = curr /\ k >= 1))
  BY <1>2, IOVecSizes
<1>6. CASE iovPc = "append"
  <2>1. /\ IOVecToDo = (n - curr) + (s + 1)
        /\ IOVecToDo' = (n - curr') + ((s - k) + 1)
    BY <1>1, <1>4, <1>6 DEF IOVecToDo, IOVecRounds
  <2> HIDE DEF n, s
  <2>2. CASE curr' = curr + 1
    BY <1>0, <1>3, <1>9, <2>1, <2>2
  <2>3. CASE curr' = curr /\ k >= 1
    BY <1>0, <1>3, <1>9, <2>1, <2>3
  <2> QED
    BY <1>9, <2>2, <2>3
<1>7. CASE iovPc = "appendSelf"
  <2>1. /\ IOVecToDo = (n - curr) + (IOVecCopying + s + 1)
        /\ IOVecToDo' = (n - curr') + (IOVecCopying + (s - k) + 1)
    BY <1>1, <1>4, <1>5, <1>7 DEF IOVecToDo, IOVecRounds
  <2> HIDE DEF n, s
  <2>2. CASE curr' = curr + 1
    BY <1>0, <1>3, <1>5, <1>9, <2>1, <2>2
  <2>3. CASE curr' = curr /\ k >= 1
    BY <1>0, <1>3, <1>5, <1>9, <2>1, <2>3
  <2> QED
    BY <1>9, <2>2, <2>3
<1> QED
  BY <1>1, <1>6, <1>7

LEMMA IOVecLocateLowers ==
  ASSUME IOVecInv, IOVec!Locate
  PROVE  IOVecToDo' < IOVecToDo
<1> DEFINE n == Len(len)
<1>0. /\ n \in Nat /\ n >= 1 /\ curr \in Nat /\ curr <= n
      /\ from \in Nat /\ from >= 1 /\ from <= curr /\ iovLeft \in Nat
  BY IOVecSizes
<1>1. /\ iovPc = "locate" /\ UNCHANGED <<len, curr, iovLeft>>
      /\ (iovPc' = "copy" /\ from' = from) \/ (iovPc' = "locate" /\ from' = from - 1)
  BY DEF IOVec!Locate, IOVec!destination
<1>2. IOVecToDo = (n - curr) + (3 * iovLeft + 3 * n + from + 2)
  BY <1>1 DEF IOVecToDo, IOVecRounds
<1>3. CASE iovPc' = "copy" /\ from' = from
  <2>1. IOVecToDo' = (n - curr) + (3 * iovLeft + 3 * (n - from) + 1)
    BY <1>1, <1>3 DEF IOVecToDo, IOVecRounds, IOVecCopying
  <2> HIDE DEF n
  <2> QED
    BY <1>0, <1>2, <2>1
<1>4. CASE iovPc' = "locate" /\ from' = from - 1
  <2>1. IOVecToDo' = (n - curr) + (3 * iovLeft + 3 * n + (from - 1) + 2)
    BY <1>1, <1>4 DEF IOVecToDo, IOVecRounds
  <2> HIDE DEF n
  <2> QED
    BY <1>0, <1>2, <2>1
<1> QED
  BY <1>1, <1>3, <1>4

LEMMA IOVecEarlierLowers ==
  ASSUME IOVecInv, IOVec!CopyFromEarlier
  PROVE  IOVecToDo' < IOVecToDo
<1> DEFINE k == IOVec!Least(len[from] - fromOffset, iovLeft)
           n == Len(len)
<1>0. /\ n \in Nat /\ n >= 1 /\ curr \in Nat /\ curr <= n
      /\ from \in Nat /\ from >= 1 /\ from <= curr /\ iovLeft \in Nat
  BY IOVecSizes
<1>1. /\ iovPc = "copy" /\ iovLeft > 0 /\ iovPc' = "appendSelf" /\ UNCHANGED <<len, curr>>
      /\ iovSrc' = SubSeq(iov[from], fromOffset + 1, fromOffset + k) /\ iovLeft' = iovLeft - k
      /\ (iovLeft > k /\ from' = from + 1) \/ (~(iovLeft > k) /\ from' = from)
  BY DEF IOVec!CopyFromEarlier, IOVec!destination
<1>2. k \in Nat /\ k <= iovLeft /\ fromOffset + k <= len[from]
  BY IOVecSizes DEF IOVec!Least
<1> HIDE DEF k
<1>3. Len(iovSrc') = k
  <2>1. iov[from] \in Seq(Nat) /\ Len(iov[from]) = len[from]
    BY IOVecSizes DEF IOVecInv, IOVecShape, Hold
  <2>2. Len(SubSeq(iov[from], fromOffset + 1, fromOffset + k)) = (fromOffset + k) - (fromOffset + 1) + 1
    <3>1. /\ fromOffset + 1 \in Nat /\ 1 <= fromOffset + 1 /\ fromOffset + k \in Nat
          /\ fromOffset + k <= Len(iov[from]) /\ fromOffset + 1 <= (fromOffset + k) + 1
      BY <1>2, <2>1, IOVecSizes, SMTT(30)
    <3> QED
      BY <2>1, <3>1, PartIs
  <2>3. Len(SubSeq(iov[from], fromOffset + 1, fromOffset + k)) = k
    <3>1. \A a \in Nat : (a + k) - (a + 1) + 1 = k
      BY <1>2
    <3>2. fromOffset \in Nat
      BY IOVecSizes
    <3> QED
      BY <2>2, <3>1, <3>2, Zenon
  <2> QED
    BY <1>1, <2>3, Zenon
<1>4. IOVecToDo = (n - curr) + (3 * iovLeft + 3 * (n - from) + 1)
  BY <1>1 DEF IOVecToDo, IOVecRounds, IOVecCopying
<1>5. IOVecToDo' = (n - curr) + ((3 * (iovLeft - k) + 3 * (n - from') + 1) + k + 1)
  BY <1>1, <1>3 DEF IOVecToDo, IOVecRounds, IOVecCopying
<1>6. /\ k \in Nat /\ k <= iovLeft /\ iovLeft > 0
      /\ (iovLeft > k /\ from' = from + 1) \/ (~(iovLeft > k) /\ from' = from)
  BY <1>1, <1>2
<1> HIDE DEF n
<1> QED
  BY <1>0, <1>4, <1>5, <1>6

LEMMA IOVecCopyLowers ==
  ASSUME IOVecInv, IOVec!CopyNextBuffer \/ IOVec!CopyWithin \/ IOVec!CopyEnd
  PROVE  IOVecToDo' < IOVecToDo
<1> DEFINE k == IOVec!Least(len[curr] - written, iovLeft)
           n == Len(len)
<1>0. /\ n \in Nat /\ n >= 1 /\ curr \in Nat /\ curr <= n
      /\ from \in Nat /\ from >= 1 /\ from <= curr /\ iovLeft \in Nat
  BY IOVecSizes
<1>1. iovPc = "copy"
  BY DEF IOVec!CopyNextBuffer, IOVec!CopyWithin, IOVec!CopyEnd
<1>2. CASE iovPc' = "idle"
  BY <1>1, <1>2, IOVecReturnLowers
<1>3. CASE iovPc' # "idle"
  <2>1. /\ iovPc' = "copy" /\ UNCHANGED <<len, from>>
        /\ \/ curr' = curr + 1 /\ iovLeft' = iovLeft
           \/ /\ curr' = curr /\ iovLeft' = iovLeft - k
              /\ iovLeft > 0 /\ ~IOVec!Full
    BY <1>1, <1>3 DEF IOVec!CopyNextBuffer, IOVec!CopyWithin, IOVec!CopyEnd, IOVec!Returns,
                      IOVec!copyVars
  <2>2. iovLeft > 0 /\ ~IOVec!Full => k \in Nat /\ k >= 1
    BY IOVecSizes DEF IOVec!Least, IOVec!Full
  <2> HIDE DEF k
  <2>3. IOVecToDo = (n - curr) + (3 * iovLeft + 3 * (n - from) + 1)
    BY <1>1 DEF IOVecToDo, IOVecRounds, IOVecCopying
  <2>4. IOVecToDo' = (n - curr') + (3 * iovLeft' + 3 * (n - from) + 1)
    BY <2>1 DEF IOVecToDo, IOVecRounds, IOVecCopying
  <2>5. \/ curr' = curr + 1 /\ iovLeft' = iovLeft
        \/ curr' = curr /\ iovLeft' = iovLeft - k /\ k \in Nat /\ k >= 1
    BY <2>1, <2>2
  <2> HIDE DEF n
  <2> QED
    BY <1>0, <2>3, <2>4, <2>5
<1> QED
  BY <1>2, <1>3

LEMMA IOVecLowers ==
  ASSUME IOVecInv, [IOVec!Next]_IOVec!vars, iovPc # "idle"
  PROVE  [IOVecToDo' < IOVecToDo]_IOVec!vars
<1>1. CASE \E c \in IOVec!Calls : IOVec!Call(c)
  BY <1>1 DEF IOVec!Call
<1>2. CASE IOVec!TryFastAppend
  <2>1. iovPc' = "idle"
    BY <1>2 DEF IOVec!TryFastAppend, IOVec!FastAppend, IOVec!Returns
  <2> QED
    BY <2>1, IOVecReturnLowers
<1>3. CASE IOVec!Stopped \/ UNCHANGED IOVec!vars
  BY <1>3 DEF IOVec!Stopped
<1> QED
  BY <1>1, <1>2, <1>3, IOVecStartLowers, IOVecAppendReturnLowers, IOVecAppendRoundLowers,
     IOVecLocateLowers, IOVecEarlierLowers, IOVecCopyLowers DEF IOVec!Next
=============================================================================
