------------------------------ MODULE CiProofs ------------------------------
(* Proofs about modules CiLink and PropertyExchange, for every content of        *)
(* messages, every set of handlers, every size of the buffer and of the room,    *)
(* every trailing bytes, and every text and data.  The messages are laid out by  *)
(* create_message() and read back by the ci_dispatcher: most of the lemmas are   *)
(* about what is where in the bytes, first of a message, then of eight-bit data  *)
(* in groups of seven, then of text in escapes and surrogate pairs.              *)
EXTENDS PropertyExchange, Iteration, SequenceTheorems, TLAPS

-------------------------------------------------------------------------------
(* Numbers and their bits.                                                       *)

\* The halves of a number, one after the other.
Halves(n, h) ==
  /\ h \in [0 .. 13 -> Nat]
  /\ h[0] = n
  /\ \A b \in 1 .. 13 : h[b] = h[b - 1] \div 2

\* The bits of a number are those of its halves that are odd.
LEMMA BitsOfIs ==
  ASSUME NEW n \in Nat
  PROVE  \E h : Halves(n, h) /\ BitsOf(n) = {b \in 0 .. 13 : h[b] % 2 = 1}
<1> DEFINE f == [i \in 1 .. 13 |-> [x \in Nat |-> x \div 2]]
           Rec(h) == h = [b \in 0 .. 13 |-> IF b = 0 THEN n ELSE h[b - 1] \div 2]
<1>1. f \in Steps(Nat, 13) /\ \A i \in 1 .. 13, x \in Nat : f[i][x] = x \div 2
  BY DEF Steps
<1>2. PICK h : h = (CHOOSE q : Rec(q)) /\ BitsOf(n) = {b \in 0 .. 13 : h[b] % 2 = 1}
  BY DEF BitsOf
<1> HIDE DEF f
<1>3. PICK g : Path(Nat, 13, n, f, g)
  <2>1. 13 \in Nat
    OBVIOUS
  <2> QED  BY <1>1, <2>1, PathExists
<1>4. g \in [0 .. 13 -> Nat] /\ g[0] = n /\ \A i \in 1 .. 13 : g[i] = g[i - 1] \div 2
  BY <1>1, <1>3 DEF Path
<1>5. Rec(g)
  <2> DEFINE G == [b \in 0 .. 13 |-> IF b = 0 THEN n ELSE g[b - 1] \div 2]
  <2>1. \A b \in 0 .. 13 : g[b] = G[b]
    BY <1>4
  <2>2. g = [b \in 0 .. 13 |-> g[b]]
    BY <1>4
  <2> QED  BY <2>1, <2>2
<1>6. Rec(h)
  <2> HIDE DEF Rec
  <2> QED  BY <1>2, <1>5
<1>7. h[0] = n /\ \A b \in 1 .. 13 : h[b] = h[b - 1] \div 2
  <2>1. h = [b \in 0 .. 13 |-> IF b = 0 THEN n ELSE h[b - 1] \div 2]
    BY <1>6
  <2> HIDE DEF Rec
  <2> QED  BY <2>1
<1> HIDE DEF Rec
<1>8. \A b \in 0 .. 13 : h[b] = g[b]
  <2> DEFINE N == 13
  <2>1. N \in Nat /\ Path(Nat, N, n, f, g) /\ h[0] = n
    BY <1>3, <1>7
  <2>2. \A i \in 1 .. N : h[i - 1] \in Nat => h[i] = f[i][h[i - 1]]
    BY <1>1, <1>7
  <2>3. ASSUME \A i \in 0 .. N : h[i] = g[i]
        PROVE  \A b \in 0 .. 13 : h[b] = g[b]
    BY <2>3
  <2> HIDE DEF N
  <2>4. \A i \in 0 .. N : h[i] = g[i]
    BY <2>1, <2>2, PathUnique
  <2> QED  BY <2>3, <2>4
<1>9. h \in [0 .. 13 -> Nat]
  <2>1. h = [b \in 0 .. 13 |-> IF b = 0 THEN n ELSE h[b - 1] \div 2]
    BY <1>6 DEF Rec
  <2>2. DOMAIN h = 0 .. 13 /\ h = [b \in 0 .. 13 |-> h[b]]
    BY <2>1
  <2> QED  BY <1>4, <1>8, <2>2
<1> QED  BY <1>2, <1>7, <1>9 DEF Halves

\* The bits of a number in seven bits, and in fourteen.
LEMMA BitsOfByte ==
  ASSUME NEW n \in 0 .. 127
  PROVE  BitsOf(n) \in SUBSET b7
<1>1. PICK h : Halves(n, h) /\ BitsOf(n) = {b \in 0 .. 13 : h[b] % 2 = 1}
  BY BitsOfIs
<1>2. h[0] = n /\ \A b \in 1 .. 13 : h[b] \in Nat /\ h[b] = h[b - 1] \div 2
  BY <1>1 DEF Halves
<1>3. h[1] <= 63 /\ h[2] <= 31 /\ h[3] <= 15 /\ h[4] <= 7 /\ h[5] <= 3 /\ h[6] <= 1
  BY <1>2
<1>4. /\ h[7] = 0 /\ h[8] = 0 /\ h[9] = 0 /\ h[10] = 0 /\ h[11] = 0 /\ h[12] = 0 /\ h[13] = 0
  BY <1>2, <1>3
<1> QED  BY <1>1, <1>4 DEF b7

\* The numbers that the bits make, the highest first.
Adds(bits, g) ==
  /\ g \in [0 .. 14 -> Nat]
  /\ g[0] = 0
  /\ \A n \in 1 .. 14 : g[n] = 2 * g[n - 1] + (IF 14 - n \in bits THEN 1 ELSE 0)

\* A number is made of its bits one by one, the highest first.
LEMMA NumberIs ==
  ASSUME NEW bits
  PROVE  \E g : Adds(bits, g) /\ Number(bits) = g[14]
<1> DEFINE bit(n) == IF 14 - n \in bits THEN 1 ELSE 0
           f == [i \in 1 .. 14 |-> [x \in Nat |-> 2 * x + bit(i)]]
           Rec(h) == h = [n \in 0 .. 14 |-> IF n = 0 THEN 0 ELSE 2 * h[n - 1] + bit(n)]
<1>1. f \in Steps(Nat, 14) /\ \A i \in 1 .. 14, x \in Nat : f[i][x] = 2 * x + bit(i)
  BY DEF Steps
<1>2. PICK h : h = (CHOOSE q : Rec(q)) /\ Number(bits) = h[14]
  BY DEF Number
<1> HIDE DEF f
<1>3. PICK g : Path(Nat, 14, 0, f, g)
  <2>1. 14 \in Nat /\ 0 \in Nat
    OBVIOUS
  <2> QED  BY <1>1, <2>1, PathExists
<1>4. g \in [0 .. 14 -> Nat] /\ g[0] = 0 /\ \A i \in 1 .. 14 : g[i] = 2 * g[i - 1] + bit(i)
  <2> HIDE DEF bit
  <2> QED  BY <1>1, <1>3 DEF Path
<1>5. Rec(g)
  <2> HIDE DEF bit
  <2> DEFINE G == [n \in 0 .. 14 |-> IF n = 0 THEN 0 ELSE 2 * g[n - 1] + bit(n)]
  <2>1. \A n \in 0 .. 14 : g[n] = G[n]
    BY <1>4
  <2>2. g = [n \in 0 .. 14 |-> g[n]]
    BY <1>4
  <2> QED  BY <2>1, <2>2
<1>6. Rec(h)
  <2> HIDE DEF Rec
  <2> QED  BY <1>2, <1>5
<1> HIDE DEF bit
<1>7. h[0] = 0 /\ \A n \in 1 .. 14 : h[n] = 2 * h[n - 1] + bit(n)
  <2>1. h = [n \in 0 .. 14 |-> IF n = 0 THEN 0 ELSE 2 * h[n - 1] + bit(n)]
    BY <1>6
  <2> HIDE DEF Rec
  <2> QED  BY <2>1
<1> HIDE DEF Rec
<1>8. \A n \in 0 .. 14 : h[n] = g[n]
  <2> DEFINE N == 14
  <2>1. N \in Nat /\ Path(Nat, N, 0, f, g) /\ h[0] = 0
    BY <1>3, <1>7
  <2>2. \A i \in 1 .. N : h[i - 1] \in Nat => h[i] = f[i][h[i - 1]]
    BY <1>1, <1>7
  <2>3. ASSUME \A i \in 0 .. N : h[i] = g[i]
        PROVE  \A n \in 0 .. 14 : h[n] = g[n]
    BY <2>3
  <2> HIDE DEF N
  <2>4. \A i \in 0 .. N : h[i] = g[i]
    BY <2>1, <2>2, PathUnique
  <2> QED  BY <2>3, <2>4
<1>9. Adds(bits, g) /\ Number(bits) = g[14]
  BY <1>2, <1>4, <1>8 DEF Adds, bit
<1> QED  BY <1>9

\* The bits of a number make the number.
LEMMA NumberOfBits ==
  ASSUME NEW n \in 0 .. MaxLength
  PROVE  Number(BitsOf(n)) = n
<1>0. n \in Nat /\ n <= 16383
  BY DEF MaxLength
<1>1. PICK h : Halves(n, h) /\ BitsOf(n) = {b \in 0 .. 13 : h[b] % 2 = 1}
  BY <1>0, BitsOfIs
<1>2. PICK g : Adds(BitsOf(n), g) /\ Number(BitsOf(n)) = g[14]
  BY NumberIs
<1> DEFINE bit(b) == h[b] % 2
<1>3. /\ h[0] = n
      /\ \A b \in 1 .. 13 : h[b] \in Nat /\ h[b] = h[b - 1] \div 2
      /\ \A b \in 0 .. 13 : h[b] \in Nat /\ bit(b) \in {0, 1}
      /\ \A b \in 1 .. 13 : h[b - 1] = 2 * h[b] + bit(b - 1)
  <2>1. h[0] = n /\ \A b \in 1 .. 13 : h[b] = h[b - 1] \div 2
    BY <1>1 DEF Halves
  <2>2. \A b \in 0 .. 13 : h[b] \in Nat
    BY <1>1 DEF Halves
  <2>3. \A x \in Nat : (x % 2) \in {0, 1} /\ x = 2 * (x \div 2) + (x % 2)
    OBVIOUS
  <2>4. \A b \in 1 .. 13 : b - 1 \in 0 .. 13 /\ b \in 0 .. 13
    OBVIOUS
  <2> QED  BY <2>1, <2>2, <2>3, <2>4
<1>4. h[1] <= 8191 /\ h[2] <= 4095 /\ h[3] <= 2047 /\ h[4] <= 1023 /\ h[5] <= 511
  <2> HIDE DEF bit
  <2> QED  BY <1>0, <1>3
<1>5. h[6] <= 255 /\ h[7] <= 127 /\ h[8] <= 63 /\ h[9] <= 31 /\ h[10] <= 15
  <2> HIDE DEF bit
  <2> QED  BY <1>3, <1>4
<1>6. h[11] <= 7 /\ h[12] <= 3 /\ h[13] <= 1
  <2> HIDE DEF bit
  <2> QED  BY <1>3, <1>5
<1>7. bit(13) = h[13]
  <2>1. h[13] \in Nat /\ h[13] <= 1
    BY <1>3, <1>6
  <2> QED  BY <2>1
<1>8. g[0] = 0 /\ \A k \in 1 .. 14 : g[k] = 2 * g[k - 1] + bit(14 - k)
  <2>1. ASSUME NEW k \in 1 .. 14
        PROVE  g[k] = 2 * g[k - 1] + bit(14 - k)
    <3>1. 14 - k \in 0 .. 13
      OBVIOUS
    <3>2. bit(14 - k) \in {0, 1}
      BY <1>3, <3>1
    <3>3. (14 - k \in BitsOf(n)) <=> bit(14 - k) = 1
      BY <1>1, <3>1
    <3>4. g[k] = 2 * g[k - 1] + (IF 14 - k \in BitsOf(n) THEN 1 ELSE 0)
      BY <1>2 DEF Adds
    <3> HIDE DEF bit
    <3> QED  BY <3>2, <3>3, <3>4
  <2> QED  BY <1>2, <2>1 DEF Adds
<1> HIDE DEF bit
<1> DEFINE T == {k \in Nat : k \in 1 .. 14 => g[k] = h[14 - k]}
<1>9. 0 \in T
  OBVIOUS
<1>10. ASSUME NEW k \in T
       PROVE  k + 1 \in T
  <2>1. k \in Nat /\ (k \in 1 .. 14 => g[k] = h[14 - k])
    OBVIOUS
  <2> HIDE DEF T
  <2>2. ASSUME k = 0
        PROVE  g[1] = h[13]
    <3>1. g[1] = 2 * g[0] + bit(13)
      <4>1. 1 \in 1 .. 14 /\ 1 - 1 = 0 /\ 14 - 1 = 13
        OBVIOUS
      <4> QED  BY <1>8, <4>1, Zenon
    <3>2. bit(13) \in {0, 1}
      BY <1>3
    <3> QED  BY <1>7, <1>8, <3>1, <3>2
  <2>3. ASSUME k \in 1 .. 13
        PROVE  g[k + 1] = h[14 - (k + 1)]
    <3>1. /\ k + 1 \in 1 .. 14 /\ (k + 1) - 1 = k /\ 14 - (k + 1) = 13 - k
          /\ 14 - k \in 1 .. 13 /\ (14 - k) - 1 = 13 - k
      BY <2>3
    <3>2. g[k + 1] = 2 * g[k] + bit(13 - k)
      BY <1>8, <3>1, Zenon
    <3>3. h[13 - k] = 2 * h[14 - k] + bit(13 - k)
      BY <1>3, <3>1, Zenon
    <3>4. g[k] = h[14 - k]
      BY <2>1, <2>3
    <3> QED  BY <3>1, <3>2, <3>3, <3>4
  <2>4. k + 1 \in 1 .. 14 => g[k + 1] = h[14 - (k + 1)]
    <3>1. k = 0 => k + 1 = 1 /\ 14 - (k + 1) = 13
      OBVIOUS
    <3>2. k + 1 \in 1 .. 14 => k = 0 \/ k \in 1 .. 13
      BY <2>1
    <3> QED  BY <2>2, <2>3, <3>1, <3>2
  <2>5. k + 1 \in Nat
    BY <2>1
  <2> QED  BY <2>4, <2>5 DEF T
<1>11. T = Nat
  <2>1. T \in SUBSET Nat
    OBVIOUS
  <2> HIDE DEF T
  <2> QED  BY <1>9, <1>10, <2>1, AllNumbers
<1>12. g[14] = h[14 - 14]
  BY <1>11
<1>13. 14 - 14 = 0
  OBVIOUS
<1> QED  BY <1>2, <1>3, <1>12, <1>13

-------------------------------------------------------------------------------
(* Sequences put together.                                                       *)

\* Whatever takes the steps of a path, starting where it starts, is on the path.
Follows(S, n, f, h) == \A i \in 1 .. n : h[i - 1] \in S => h[i] = f[i][h[i - 1]]

\* There is one path only.
LEMMA OnePath ==
  ASSUME NEW S, NEW n \in Nat, NEW f, NEW g, NEW h,
         Path(S, n, h[0], f, g), Follows(S, n, f, h)
  PROVE  \A i \in 0 .. n : h[i] = g[i]
BY PathUnique DEF Follows

\* The places where each of some sequences begins, and where the last one ends.
Offsets(seqs, off) ==
  /\ off \in [0 .. Len(seqs) -> Nat]
  /\ off[0] = 0
  /\ \A i \in 1 .. Len(seqs) : off[i] = off[i - 1] + Len(seqs[i])

\* A sequence in which some others follow each other.
Joined(seqs, off, all) ==
  /\ Len(all) = off[Len(seqs)]
  /\ \A i \in 1 .. Len(seqs) : \A j \in 1 .. Len(seqs[i]) : all[off[i - 1] + j] = seqs[i][j]

\* Where the bytes of two sequences are when the one follows the other.
LEMMA Concat ==
  ASSUME NEW S, NEW s \in Seq(S), NEW t \in Seq(S)
  PROVE  /\ s \o t \in Seq(S)
         /\ Len(s) \in Nat /\ Len(t) \in Nat /\ Len(s \o t) = Len(s) + Len(t)
         /\ \A j \in 1 .. Len(s) : (s \o t)[j] = s[j]
         /\ \A j \in 1 .. Len(t) : (s \o t)[Len(s) + j] = t[j]
OBVIOUS

\* A sequence of sequences is laid one after the other, step by step.
LEMMA FlattenedSteps ==
  ASSUME NEW S, NEW seqs \in Seq(Seq(S))
  PROVE  \E g : /\ g \in [0 .. Len(seqs) -> Seq(S)] /\ g[0] = <<>>
                /\ \A i \in 1 .. Len(seqs) : g[i] = g[i - 1] \o seqs[i]
                /\ FlattenSeq(seqs) = g[Len(seqs)]
<1> DEFINE n == Len(seqs)
           f == [i \in 1 .. n |-> [x \in Seq(S) |-> x \o seqs[i]]]
           Rec(h) == h = [i \in 1 .. n |-> IF i = 1 THEN seqs[i] ELSE h[i - 1] \o seqs[i]]
<1>1. n \in Nat /\ \A i \in 1 .. n : seqs[i] \in Seq(S)
  BY LenProperties
<1>2. f \in Steps(Seq(S), n) /\ \A i \in 1 .. n, x \in Seq(S) : f[i][x] = x \o seqs[i]
  BY <1>1 DEF Steps
<1>3. FlattenSeq(seqs) = IF n = 0 THEN seqs ELSE (CHOOSE h : Rec(h))[n]
  BY DEF FlattenSeq
<1> HIDE DEF f, n, Rec
<1>4. PICK g : Path(Seq(S), n, <<>>, f, g)
  <2>1. <<>> \in Seq(S)
    OBVIOUS
  <2> QED  BY <1>1, <1>2, <2>1, PathExists
<1>5. g \in [0 .. n -> Seq(S)] /\ g[0] = <<>> /\ \A i \in 1 .. n : g[i] = g[i - 1] \o seqs[i]
  <2>1. g \in [0 .. n -> Seq(S)] /\ g[0] = <<>> /\ \A i \in 1 .. n : g[i] = f[i][g[i - 1]]
    BY <1>4 DEF Path
  <2>2. ASSUME NEW i \in 1 .. n
        PROVE  g[i] = g[i - 1] \o seqs[i]
    <3>1. i - 1 \in 0 .. n
      BY <1>1
    <3>2. g[i - 1] \in Seq(S)
      BY <2>1, <3>1
    <3> QED  BY <1>2, <2>1, <3>2
  <2> QED  BY <2>1, <2>2
<1>9. CASE n = 0
  <2>1. seqs = <<>>
    BY <1>9 DEF n
  <2>2. FlattenSeq(seqs) = g[n]
    BY <1>3, <1>5, <1>9, <2>1
  <2> QED  BY <1>5, <2>2 DEF n
<1>10. CASE n # 0
  <2> DEFINE h == CHOOSE h : Rec(h)
             r == [i \in 1 .. n |-> g[i]]
  <2>1. \A i \in 1 .. n : i # 1 => i - 1 \in 1 .. n
    BY <1>1
  <2>2. Rec(r)
    <3> DEFINE G == [i \in 1 .. n |-> IF i = 1 THEN seqs[i] ELSE r[i - 1] \o seqs[i]]
    <3>1. ASSUME NEW i \in 1 .. n
          PROVE  r[i] = G[i]
      <4>1. CASE i = 1
        <5>1. 1 \in 1 .. n /\ 1 - 1 = 0
          BY <4>1
        <5>2. g[1] = <<>> \o seqs[1] /\ seqs[1] \in Seq(S)
          BY <1>1, <1>5, <5>1
        <5> QED  BY <4>1, <5>2
      <4>2. CASE i # 1
        BY <1>5, <2>1, <4>2
      <4> QED  BY <4>1, <4>2
    <3>2. r = [i \in 1 .. n |-> r[i]]
      OBVIOUS
    <3>3. r = G
      <4> HIDE DEF r
      <4> QED  BY <3>1, <3>2
    <3> QED  BY <3>3 DEF Rec
  <2>3. Rec(h)
    <3> HIDE DEF r
    <3> QED  BY <2>2
  <2> HIDE DEF h
  <2>4. \A i \in 1 .. n : h[i] = IF i = 1 THEN seqs[i] ELSE h[i - 1] \o seqs[i]
    <3>1. h = [i \in 1 .. n |-> IF i = 1 THEN seqs[i] ELSE h[i - 1] \o seqs[i]]
      BY <2>3 DEF Rec
    <3> QED  BY <3>1
  <2> DEFINE z == [i \in 0 .. n |-> IF i = 0 THEN <<>> ELSE h[i]]
  <2>5. z[0] = <<>> /\ \A i \in 1 .. n : z[i] = h[i]
    BY <1>1
  <2> HIDE DEF z
  <2>6. ASSUME NEW i \in 1 .. n, z[i - 1] \in Seq(S)
        PROVE  z[i] = f[i][z[i - 1]]
    <3>1. z[i] = z[i - 1] \o seqs[i]
      <4>1. CASE i = 1
        <5>1. 1 \in 1 .. n /\ 1 - 1 = 0
          BY <4>1
        <5>2. seqs[1] \in Seq(S) /\ h[1] = seqs[1] /\ z[1] = h[1]
          BY <1>1, <2>4, <2>5, <5>1
        <5>3. <<>> \o seqs[1] = seqs[1]
          BY <5>2
        <5>4. z[i] = seqs[1] /\ z[i - 1] = <<>> /\ seqs[i] = seqs[1]
          BY <2>5, <4>1, <5>1, <5>2
        <5> QED  BY <5>3, <5>4
      <4>2. CASE i # 1
        BY <2>1, <2>4, <2>5, <4>2
      <4> QED  BY <4>1, <4>2
    <3> QED  BY <1>2, <2>6, <3>1
  <2>7. z[n] = g[n]
    <3>1. Follows(Seq(S), n, f, z) /\ Path(Seq(S), n, z[0], f, g)
      BY <1>4, <2>5, <2>6 DEF Follows
    <3>2. \A i \in 0 .. n : z[i] = g[i]
      BY <1>1, <3>1, OnePath
    <3> QED  BY <1>1, <3>2
  <2>8. FlattenSeq(seqs) = g[n]
    BY <1>1, <1>3, <1>10, <2>5, <2>7 DEF h
  <2> QED  BY <1>5, <2>8 DEF n
<1> QED  BY <1>9, <1>10

\* What is at each offset then.
LEMMA Flattened ==
  ASSUME NEW S, NEW seqs \in Seq(Seq(S)), NEW off, Offsets(seqs, off)
  PROVE  FlattenSeq(seqs) \in Seq(S) /\ Joined(seqs, off, FlattenSeq(seqs))
<1> DEFINE n == Len(seqs)
<1>1. n \in Nat /\ \A i \in 1 .. n : seqs[i] \in Seq(S)
  BY LenProperties
<1>o. /\ off \in [0 .. n -> Nat] /\ off[0] = 0
      /\ \A i \in 1 .. n : off[i] = off[i - 1] + Len(seqs[i])
  BY DEF Offsets
<1>j. ASSUME NEW all, Len(all) = off[n],
             \A i \in 1 .. n : \A j \in 1 .. Len(seqs[i]) : all[off[i - 1] + j] = seqs[i][j]
      PROVE  Joined(seqs, off, all)
  BY <1>j DEF Joined
<1>4. PICK g : /\ g \in [0 .. n -> Seq(S)] /\ g[0] = <<>>
               /\ \A i \in 1 .. n : g[i] = g[i - 1] \o seqs[i]
               /\ FlattenSeq(seqs) = g[n]
  BY FlattenedSteps
<1>5. g \in [0 .. n -> Seq(S)] /\ g[0] = <<>> /\ \A i \in 1 .. n : g[i] = g[i - 1] \o seqs[i]
  BY <1>4
<1> HIDE DEF n
<1> DEFINE Built(k) ==
      k <= n =>
        /\ Len(g[k]) = off[k]
        /\ \A i \in 1 .. k : off[i] <= off[k]
        /\ \A i \in 1 .. k : \A j \in 1 .. Len(seqs[i]) : g[k][off[i - 1] + j] = seqs[i][j]
           T == {k \in Nat : Built(k)}
<1>6. 0 \in T
  BY <1>5, <1>o
<1>7. ASSUME NEW k \in T
      PROVE  k + 1 \in T
  <2>1. k \in Nat /\ Built(k)
    OBVIOUS
  <2>2. SUFFICES ASSUME k + 1 <= n
                 PROVE  Built(k + 1)
    BY <2>1
  <2> HIDE DEF T
  <2>3. k + 1 \in 1 .. n /\ k \in 0 .. n /\ (k + 1) - 1 = k /\ k <= n
    BY <1>1, <2>1, <2>2
  <2>4. /\ g[k] \in Seq(S) /\ seqs[k + 1] \in Seq(S)
        /\ g[k + 1] = g[k] \o seqs[k + 1] /\ off[k + 1] = off[k] + Len(seqs[k + 1])
        /\ off[k] \in Nat
    <3>1. g[k] \in Seq(S) /\ off[k] \in Nat
      BY <1>5, <1>o, <2>3
    <3>2. seqs[k + 1] \in Seq(S)
      BY <1>1, <2>3
    <3>3. g[k + 1] = g[(k + 1) - 1] \o seqs[k + 1]
              /\ off[k + 1] = off[(k + 1) - 1] + Len(seqs[k + 1])
      BY <1>5, <1>o, <2>3
    <3> QED  BY <2>3, <3>1, <3>2, <3>3
  <2>5. /\ Len(g[k]) = off[k] /\ \A i \in 1 .. k : off[i] <= off[k]
        /\ \A i \in 1 .. k : \A j \in 1 .. Len(seqs[i]) : g[k][off[i - 1] + j] = seqs[i][j]
    BY <2>1, <2>3
  <2> HIDE DEF Built
  <2> DEFINE x == g[k]
             y == seqs[k + 1]
  <2>0. /\ x \o y \in Seq(S)
        /\ Len(x) \in Nat /\ Len(y) \in Nat /\ Len(x \o y) = Len(x) + Len(y)
        /\ \A j \in 1 .. Len(x) : (x \o y)[j] = x[j]
        /\ \A j \in 1 .. Len(y) : (x \o y)[Len(x) + j] = y[j]
    <3>1. x \in Seq(S) /\ y \in Seq(S)
      BY <2>4
    <3> HIDE DEF x, y
    <3> QED  BY <3>1, Concat
  <2>a. Len(x) = off[k] /\ off[k + 1] = off[k] + Len(y) /\ g[k + 1] = x \o y
    BY <2>4, <2>5
  <2>7. \A j \in 1 .. off[k] : g[k + 1][j] = g[k][j]
    BY <2>0, <2>a
  <2>8. \A j \in 1 .. Len(seqs[k + 1]) : g[k + 1][off[k] + j] = seqs[k + 1][j]
    BY <2>0, <2>a
  <2> HIDE DEF x, y
  <2>6. Len(g[k + 1]) = off[k + 1] /\ off[k] <= off[k + 1]
    BY <2>0, <2>a
  <2>9. ASSUME NEW i \in 1 .. k + 1
        PROVE  /\ off[i] <= off[k + 1]
               /\ \A j \in 1 .. Len(seqs[i]) : g[k + 1][off[i - 1] + j] = seqs[i][j]
    <3>1. CASE i = k + 1
      <4>1. i - 1 = k
        BY <2>1, <3>1
      <4>2. off[k + 1] \in Nat
        BY <2>0, <2>a, <2>4
      <4> QED  BY <2>8, <3>1, <4>1, <4>2
    <3>2. CASE i # k + 1
      <4>1. i \in 1 .. k /\ i \in 1 .. n /\ i \in 0 .. n /\ i - 1 \in 0 .. n
        BY <1>1, <2>3, <3>2
      <4>2. /\ off[i] \in Nat /\ off[i - 1] \in Nat /\ off[i] = off[i - 1] + Len(seqs[i])
            /\ Len(seqs[i]) \in Nat /\ off[i] <= off[k]
        BY <1>1, <1>o, <2>5, <4>1, LenProperties
      <4>3. off[i] <= off[k + 1]
        <5>1. off[k + 1] \in Nat
          BY <2>0, <2>a, <2>4
        <5> QED  BY <2>4, <2>6, <4>2, <5>1
      <4>4. ASSUME NEW j \in 1 .. Len(seqs[i])
            PROVE  g[k + 1][off[i - 1] + j] = seqs[i][j]
        <5>1. off[i - 1] + j \in 1 .. off[k]
          <6>1. j \in Nat /\ 1 <= j /\ j <= Len(seqs[i])
            BY <4>2
          <6> QED  BY <2>4, <4>2, <6>1
        <5> QED  BY <2>5, <2>7, <4>1, <5>1
      <4> QED  BY <4>3, <4>4
    <3> QED  BY <3>1, <3>2
  <2> QED  BY <2>6, <2>9 DEF Built
<1>8. \A k \in 0 .. n : Built(k)
  <2>1. T = Nat
    <3> HIDE DEF Built
    <3>1. T \in SUBSET Nat
      OBVIOUS
    <3> HIDE DEF T
    <3> QED  BY <1>6, <1>7, <3>1, AllNumbers
  <2> HIDE DEF Built
  <2>2. \A k \in 0 .. n : k \in Nat
    BY <1>1
  <2> QED  BY <2>1, <2>2
<1>9. g[n] \in Seq(S) /\ Built(n) /\ n <= n
  BY <1>1, <1>5, <1>8
<1> QED  BY <1>4, <1>9, <1>j

\* The offsets of the fields of a part.
Sized(fields, s) ==
  /\ s \in [0 .. Len(fields) -> Nat]
  /\ s[0] = 0
  /\ \A i \in 1 .. Len(fields) : s[i] = s[i - 1] + fields[i].size

\* The offsets that Sizes computes are the sums of the sizes of the fields.
LEMMA SizesAre ==
  ASSUME NEW fields, Len(fields) \in Nat,
         \A i \in 1 .. Len(fields) : fields[i].size \in Nat
  PROVE  Sized(fields, Sizes(fields))
<1> DEFINE n == Len(fields)
           w(i) == fields[i].size
           f == [i \in 1 .. n |-> [x \in Nat |-> x + w(i)]]
           Rec(k) == k = [i \in 0 .. n |-> IF i = 0 THEN 0 ELSE k[i - 1] + w(i)]
<1>1. n \in Nat /\ \A i \in 1 .. n : w(i) \in Nat
  OBVIOUS
<1>2. PICK h : h = (CHOOSE q : Rec(q)) /\ Sizes(fields) = h
  BY DEF Sizes
<1>3. ASSUME NEW k, k \in [0 .. n -> Nat], k[0] = 0, \A i \in 1 .. n : k[i] = k[i - 1] + w(i)
      PROVE  Sized(fields, k)
  BY <1>3 DEF Sized
<1> HIDE DEF n, w
<1>4. f \in Steps(Nat, n) /\ \A i \in 1 .. n, x \in Nat : f[i][x] = x + w(i)
  BY <1>1 DEF Steps
<1> HIDE DEF f
<1>5. PICK g : Path(Nat, n, 0, f, g)
  <2>1. 0 \in Nat
    OBVIOUS
  <2> QED  BY <1>1, <1>4, <2>1, PathExists
<1>6. g \in [0 .. n -> Nat] /\ g[0] = 0 /\ \A i \in 1 .. n : g[i] = g[i - 1] + w(i)
  <2>1. g \in [0 .. n -> Nat] /\ g[0] = 0 /\ \A i \in 1 .. n : g[i] = f[i][g[i - 1]]
    BY <1>5 DEF Path
  <2>2. \A i \in 1 .. n : i - 1 \in 0 .. n
    BY <1>1
  <2>3. \A i \in 1 .. n : g[i - 1] \in Nat
    BY <2>1, <2>2
  <2> QED  BY <1>4, <2>1, <2>3
<1>7. Rec(g)
  <2> DEFINE G == [i \in 0 .. n |-> IF i = 0 THEN 0 ELSE g[i - 1] + w(i)]
  <2>1. \A i \in 0 .. n : g[i] = G[i]
    BY <1>1, <1>6
  <2>2. g = [i \in 0 .. n |-> g[i]]
    BY <1>6
  <2> QED  BY <2>1, <2>2
<1>8. Rec(h)
  <2> HIDE DEF Rec
  <2> QED  BY <1>2, <1>7
<1>9. h = [i \in 0 .. n |-> IF i = 0 THEN 0 ELSE h[i - 1] + w(i)]
  BY <1>8
<1> HIDE DEF Rec
<1>10. h[0] = 0 /\ \A i \in 1 .. n : h[i] = h[i - 1] + w(i)
  <2>1. 0 \in 0 .. n /\ \A i \in 1 .. n : i \in 0 .. n /\ i # 0
    BY <1>1
  <2> QED  BY <1>9, <2>1
<1>11. h = [i \in 0 .. n |-> h[i]]
  BY <1>9
<1>12. \A i \in 0 .. n : h[i] = g[i]
  <2>1. Follows(Nat, n, f, h) /\ Path(Nat, n, h[0], f, g)
    BY <1>4, <1>5, <1>10 DEF Follows
  <2> QED  BY <1>1, <2>1, OnePath
<1>13. h \in [0 .. n -> Nat]
  BY <1>6, <1>11, <1>12
<1> QED  BY <1>2, <1>3, <1>10, <1>13

-------------------------------------------------------------------------------
(* The table of the messages.                                                    *)

FieldName ==
  {"manufacturer", "family", "model", "version", "capability", "max_sysex_size",
   "output_path_id", "function_block", "status", "target_muid", "original_id", "status_code",
   "status_data", "details", "pid", "num_channels", "reserved", "target", "num_simultaneous",
   "major_version", "minor_version", "request", "number_of_chunks", "chunk_number",
   "message_data_control", "system_message", "channel_controller", "note_data_messages",
   "features"}
Field == {f \in [name : FieldName, size : Nat \ {0}, carried : SUBSET Nat] :
            f.carried \subseteq 0 .. 7 * f.size - 1}

\* The forms of a message: fields, an array that follows fields, or two of them.
OneFixed(parts) ==
  \E fields \in Seq(Field) : fields # <<>> /\ parts = <<Fixed(fields)>>
OneCounted(parts) ==
  \E fields \in Seq(Field), unit \in Nat \ {0} : \E tail :
    tail # "" /\ parts = <<Counted(fields, tail, unit)>>

\* A record of the name, the size and the bits of a field is one.
LEMMA FieldIs ==
  ASSUME NEW name \in FieldName, NEW n \in Nat \ {0}, NEW bits \in SUBSET (0 .. 7 * n - 1)
  PROVE  [name |-> name, size |-> n, carried |-> bits] \in Field
<1> DEFINE f == [name |-> name, size |-> n, carried |-> bits]
<1>1. 0 .. 7 * n - 1 \in SUBSET Nat
  OBVIOUS
<1>2. bits \in SUBSET Nat
  BY <1>1
<1>3. f \in [name : FieldName, size : Nat \ {0}, carried : SUBSET Nat]
  BY <1>2
<1>4. f.carried = bits /\ f.size = n
  OBVIOUS
<1> HIDE DEF f
<1>5. f.carried \subseteq 0 .. 7 * f.size - 1
  BY <1>4
<1>6. f \in Field
  BY <1>3, <1>5 DEF Field
<1> QED  BY <1>6 DEF f

\* The fields of ci_types.hpp, whatever carries them: a byte, some bytes, flags.
LEMMA FieldsAre ==
  \A name \in FieldName :
    /\ Byte(name) \in Field
    /\ \A n \in Nat \ {0} : Bytes(name, n) \in Field
    /\ \A bits \in SUBSET b7 : Flags(name, bits) \in Field
<1> SUFFICES ASSUME NEW name \in FieldName
             PROVE  /\ Byte(name) \in Field
                    /\ \A n \in Nat \ {0} : Bytes(name, n) \in Field
                    /\ \A bits \in SUBSET b7 : Flags(name, bits) \in Field
  OBVIOUS
<1>1. ASSUME NEW n \in Nat \ {0}
      PROVE  Bytes(name, n) \in Field
  <2>1. 0 .. 7 * n - 1 \in SUBSET (0 .. 7 * n - 1)
    OBVIOUS
  <2> QED  BY <2>1, FieldIs DEF Bytes
<1>2. ASSUME NEW bits \in SUBSET b7
      PROVE  Flags(name, bits) \in Field
  <2>1. bits \in SUBSET (0 .. 7 * 1 - 1) /\ 1 \in Nat \ {0}
    BY DEF b7
  <2> QED  BY <2>1, FieldIs DEF Flags
<1>3. Byte(name) \in Field
  <2>1. 1 \in Nat \ {0}
    OBVIOUS
  <2> QED  BY <1>1, <2>1 DEF Byte
<1> QED  BY <1>1, <1>2, <1>3

\* Reserved bytes are fields too.
LEMMA ReservedIs ==
  \A n \in Nat \ {0} : Reserved(n) \in Field
<1>1. ASSUME NEW n \in Nat \ {0}
      PROVE  Reserved(n) \in Field
  <2>1. {} \in SUBSET (0 .. 7 * n - 1) /\ "reserved" \in FieldName
    BY DEF FieldName
  <2> QED  BY <2>1, FieldIs DEF Reserved
<1> QED  BY <1>1

\* Fields that a later version adds follow those of the earlier one.
LEMMA LongerFields ==
  ASSUME NEW s \in Seq(Field), s # <<>>, NEW t \in Seq(Field)
  PROVE  s \o t \in Seq(Field) /\ s \o t # <<>>
<1>1. s \o t \in Seq(Field) /\ Len(s) > 0 /\ Len(s \o t) = Len(s) + Len(t) /\ Len(t) \in Nat
  OBVIOUS
<1> QED  BY <1>1

\* A message whose second version has more fields.
LEMMA VersionsAre ==
  ASSUME NEW id, NEW fields \in Seq(Field), fields # <<>>, NEW more \in Seq(Field)
  PROVE  LET m == Versions(id, fields, more)
         IN  m.id = id /\ OneFixed(m.v1) /\ OneFixed(m.v2)
<1>1. fields \o more \in Seq(Field) /\ fields \o more # <<>>
  BY LongerFields
<1> QED  BY <1>1 DEF Versions, Message, OneFixed

\* A message that has one form in every version.
LEMMA SameAre ==
  ASSUME NEW id, NEW parts
  PROVE  LET m == Same(id, parts) IN m.id = id /\ m.v1 = parts /\ m.v2 = parts
BY DEF Same, Message

\* The lists of fields of which the messages are made.
IsList(fields) == fields \in Seq(Field) /\ fields # <<>>

\* Each of them is not empty, and its fields are of the kinds above.
LEMMA Lists ==
  /\ <<>> \in Seq(Field)
  /\ IsList(Identity)
  /\ IsList(<<Byte("output_path_id")>>)
  /\ IsList(<<Byte("output_path_id"), Byte("function_block")>>)
  /\ IsList(<<Byte("status")>>)
  /\ IsList(<<Bytes("target_muid", 4)>>)
  /\ IsList(<<Byte("original_id"), Byte("status_code"), Byte("status_data"),
              Bytes("details", 5)>>)
  /\ IsList(Pid)
  /\ IsList(<<Bytes("num_channels", 2)>>)
  /\ IsList(<<Reserved(2)>>)
  /\ IsList(Pid \o <<Byte("target")>>)
  /\ IsList(<<Byte("num_simultaneous")>>)
  /\ IsList(<<Byte("major_version"), Byte("minor_version")>>)
  /\ IsList(<<Byte("request")>>)
  /\ IsList(<<Bytes("number_of_chunks", 2), Bytes("chunk_number", 2)>>)
  /\ IsList(<<Byte("features")>>)
  /\ IsList(<<Byte("message_data_control"), SystemMessage, Reserved(1), ChannelController,
              NoteDataMessages>>)
  /\ IsList(<<SystemMessage, Reserved(1), ChannelController, NoteDataMessages>>)
<1>1. /\ 1 \in Nat \ {0} /\ 2 \in Nat \ {0} /\ 3 \in Nat \ {0} /\ 4 \in Nat \ {0}
      /\ 5 \in Nat \ {0}
  OBVIOUS
<1>2. /\ Bytes("manufacturer", 3) \in Field /\ Bytes("family", 2) \in Field
      /\ Bytes("model", 2) \in Field /\ Bytes("version", 4) \in Field
      /\ Byte("capability") \in Field /\ Bytes("max_sysex_size", 4) \in Field
      /\ Byte("output_path_id") \in Field /\ Byte("function_block") \in Field
      /\ Byte("status") \in Field /\ Bytes("target_muid", 4) \in Field
  <2>1. /\ "manufacturer" \in FieldName /\ "family" \in FieldName /\ "model" \in FieldName
        /\ "version" \in FieldName /\ "capability" \in FieldName
        /\ "max_sysex_size" \in FieldName /\ "output_path_id" \in FieldName
        /\ "function_block" \in FieldName /\ "status" \in FieldName
        /\ "target_muid" \in FieldName
    BY DEF FieldName
  <2> QED  BY <1>1, <2>1, FieldsAre, Zenon
<1>3. /\ Byte("original_id") \in Field /\ Byte("status_code") \in Field
      /\ Byte("status_data") \in Field /\ Bytes("details", 5) \in Field
      /\ Bytes("pid", 5) \in Field /\ Bytes("num_channels", 2) \in Field
      /\ Byte("target") \in Field /\ Byte("num_simultaneous") \in Field
      /\ Byte("major_version") \in Field /\ Byte("minor_version") \in Field
  <2>1. /\ "original_id" \in FieldName /\ "status_code" \in FieldName
        /\ "status_data" \in FieldName /\ "details" \in FieldName /\ "pid" \in FieldName
        /\ "num_channels" \in FieldName /\ "target" \in FieldName
        /\ "num_simultaneous" \in FieldName /\ "major_version" \in FieldName
        /\ "minor_version" \in FieldName
    BY DEF FieldName
  <2> QED  BY <1>1, <2>1, FieldsAre, Zenon
<1>4. /\ Byte("request") \in Field /\ Bytes("number_of_chunks", 2) \in Field
      /\ Bytes("chunk_number", 2) \in Field /\ Byte("features") \in Field
      /\ Byte("message_data_control") \in Field
  <2>1. /\ "request" \in FieldName /\ "number_of_chunks" \in FieldName
        /\ "chunk_number" \in FieldName /\ "features" \in FieldName
        /\ "message_data_control" \in FieldName
    BY DEF FieldName
  <2> QED  BY <1>1, <2>1, FieldsAre, Zenon
<1>5. SystemMessage \in Field /\ ChannelController \in Field /\ NoteDataMessages \in Field
  <2>1. /\ "system_message" \in FieldName /\ "channel_controller" \in FieldName
        /\ "note_data_messages" \in FieldName
    BY DEF FieldName
  <2>2. 0 .. 2 \in SUBSET b7 /\ 0 .. 5 \in SUBSET b7 /\ 0 .. 4 \in SUBSET b7
    BY DEF b7
  <2> QED  BY <2>1, <2>2, FieldsAre DEF SystemMessage, ChannelController, NoteDataMessages
<1>6. Reserved(1) \in Field /\ Reserved(2) \in Field
  BY <1>1, ReservedIs
<1>7. /\ <<>> \in Seq(Field)
      /\ \A a \in Field : IsList(<<a>>)
      /\ \A a, b \in Field : IsList(<<a, b>>)
      /\ \A a, b, c, d \in Field : IsList(<<a, b, c, d>>)
  BY DEF IsList
<1>8. /\ \A a, b, c, d, e \in Field : IsList(<<a, b, c, d, e>>)
      /\ \A a, b, c, d, e, f \in Field : IsList(<<a, b, c, d, e, f>>)
  BY DEF IsList
<1>9. IsList(Identity)
  BY <1>2, <1>8 DEF Identity
<1>10. IsList(Pid) /\ IsList(<<Byte("target")>>)
  BY <1>3, <1>7 DEF Pid
<1>11. IsList(Pid \o <<Byte("target")>>)
  BY <1>10, LongerFields DEF IsList
<1>12. /\ IsList(<<Byte("message_data_control"), SystemMessage, Reserved(1), ChannelController,
                   NoteDataMessages>>)
       /\ IsList(<<SystemMessage, Reserved(1), ChannelController, NoteDataMessages>>)
       /\ IsList(<<Byte("original_id"), Byte("status_code"), Byte("status_data"),
                   Bytes("details", 5)>>)
  BY <1>3, <1>4, <1>5, <1>6, <1>7, <1>8
<1> QED  BY <1>2, <1>3, <1>4, <1>6, <1>7, <1>9, <1>10, <1>11, <1>12

\* The messages of fields alone: one non-empty part in each version.
LEMMA SingleAre ==
  ASSUME NEW t \in Single
  PROVE  OneFixed(Messages[t].v1) /\ OneFixed(Messages[t].v2)
<1> DEFINE Good(m) == OneFixed(m.v1) /\ OneFixed(m.v2)
<1>1. \A id : \A fields, more : IsList(fields) /\ IsList(more) => Good(Versions(id, fields, more))
  BY VersionsAre DEF IsList
<1>2. \A id : \A fields : IsList(fields) => Good(Same(id, <<Fixed(fields)>>))
  BY SameAre DEF IsList, OneFixed
<1> HIDE DEF Good
<1>3. Good(discovery) /\ Good(discovery_reply)
  BY <1>1, Lists DEF discovery, discovery_reply
<1>4. Good(endpoint) /\ Good(invalidate_muid)
  BY <1>2, Lists DEF endpoint, invalidate_muid
<1>5. /\ Good(profile_set_on) /\ Good(profile_set_off) /\ Good(profile_enabled)
      /\ Good(profile_disabled)
  BY <1>1, Lists DEF profile_set_on, profile_set_off, profile_enabled, profile_disabled
<1>6. Good(profile_added) /\ Good(profile_removed) /\ Good(profile_details)
  BY <1>2, Lists DEF profile_added, profile_removed, profile_details
<1>7. Good(pe_capability) /\ Good(pe_capability_reply)
  BY <1>1, Lists DEF pe_capability, pe_capability_reply, Capabilities
<1>8. Good(Messages[t])
  BY <1>3, <1>4, <1>5, <1>6, <1>7 DEF Single, Messages
<1> QED  BY <1>8 DEF Good

\* The messages of fields and an array; the nak has no array in its first version.
LEMMA WithArrayAre ==
  ASSUME NEW t \in WithArray
  PROVE  OneCounted(Messages[t].v2) /\ (t # "nak" => OneCounted(Messages[t].v1))
<1> DEFINE Good(m) == OneCounted(m.v1) /\ OneCounted(m.v2)
<1>1. \A fields : IsList(fields) => /\ OneCounted(<<Counted(fields, "message", 1)>>)
                                    /\ OneCounted(<<Counted(fields, "information", 1)>>)
                                    /\ OneCounted(<<Counted(fields, "data", 1)>>)
  <2>1. 1 \in Nat \ {0} /\ "message" # "" /\ "information" # "" /\ "data" # ""
    OBVIOUS
  <2> QED  BY <2>1 DEF IsList, OneCounted
<1>2. OneCounted(Acknowledged)
  BY <1>1, Lists DEF Acknowledged
<1>3. OneCounted(nak.v2)
  BY <1>2 DEF nak, Message
<1>4. \A id, parts : OneCounted(parts) => Good(Same(id, parts))
  BY SameAre
<1> HIDE DEF Good
<1>5. Good(ack)
  BY <1>2, <1>4 DEF ack
<1>6. Good(endpoint_reply)
  BY <1>1, <1>4, Lists DEF endpoint_reply
<1>7. Good(profile_details_reply) /\ Good(profile_specific_data)
  BY <1>1, <1>4, Lists DEF profile_details_reply, profile_specific_data
<1>8. /\ Good(Messages["ack"]) /\ Good(Messages["endpoint_reply"])
      /\ Good(Messages["profile_details_reply"]) /\ Good(Messages["profile_specific_data"])
      /\ Messages["nak"] = nak
  BY <1>5, <1>6, <1>7 DEF Messages
<1> QED  BY <1>3, <1>8 DEF WithArray, Good

\* The property exchange messages: a header and its data, in both versions.
LEMMA ExchangeAre ==
  ASSUME NEW t \in PropertyExchange
  PROVE  /\ \E f, g : /\ IsList(f) /\ IsList(g)
                      /\ Messages[t].v2 = <<Counted(f, "header", 1), Counted(g, "data", 1)>>
         /\ Messages[t].v1 = Messages[t].v2
<1> DEFINE f == <<Byte("request")>>
           g == <<Bytes("number_of_chunks", 2), Bytes("chunk_number", 2)>>
           Form == <<Counted(f, "header", 1), Counted(g, "data", 1)>>
           Good(m) == m.v1 = Form /\ m.v2 = Form
<1>1. IsList(f) /\ IsList(g)
  BY Lists
<1>2. \A id : Good(Exchange(id))
  BY SameAre DEF Exchange
<1>3. /\ Good(pe_get) /\ Good(pe_get_reply) /\ Good(pe_set) /\ Good(pe_set_reply) /\ Good(pe_sub)
      /\ Good(pe_sub_reply) /\ Good(pe_notify)
  <2> HIDE DEF Good
  <2> QED  BY <1>2
           DEF pe_get, pe_get_reply, pe_set, pe_set_reply, pe_sub, pe_sub_reply, pe_notify
<1>4. Good(Messages[t])
  <2> HIDE DEF Good
  <2> QED  BY <1>3 DEF Messages, PropertyExchange
<1> HIDE DEF f, g
<1> QED  BY <1>1, <1>4

\* The process inquiry messages have no form in the first version.
LEMMA InquiryAre ==
  ASSUME NEW t \in ProcessInquiry, NEW v
  PROVE  \/ Parts(t, v) = NotAvailable
         \/ \E fields \in Seq(Field) : Parts(t, v) = <<Fixed(fields)>>
<1> DEFINE Ok(p) == p = NotAvailable \/ \E fields \in Seq(Field) : p = <<Fixed(fields)>>
           Good(m) == Ok(m.v1) /\ Ok(m.v2)
<1>1. Ok(NotAvailable) /\ Ok(Empty) /\ \A fields : IsList(fields) => Ok(<<Fixed(fields)>>)
  BY Lists DEF Empty, IsList
<1> HIDE DEF Ok
<1>2. Good(pi_capability)
  BY <1>1, SameAre DEF pi_capability
<1>3. \A id, p, q : Ok(p) /\ Ok(q) => Good(Message(id, p, q))
  BY DEF Message
<1> HIDE DEF Good
<1>4. Good(pi_capability_reply)
  BY <1>1, <1>3, Lists DEF pi_capability_reply
<1>5. Good(pi_mm_report)
  BY <1>1, <1>3, Lists DEF pi_mm_report
<1>6. Good(pi_mm_report_reply)
  BY <1>1, <1>3, Lists DEF pi_mm_report_reply
<1>7. Good(pi_mm_report_end)
  BY <1>1, <1>3 DEF pi_mm_report_end
<1>8. Good(Messages[t])
  BY <1>2, <1>4, <1>5, <1>6, <1>7 DEF Messages, ProcessInquiry
<1>9. Ok(Messages[t].v1) /\ Ok(Messages[t].v2)
  BY <1>8 DEF Good
<1>10. Ok(Parts(t, v))
  BY <1>9 DEF Parts
<1> QED  BY <1>10 DEF Ok

\* The profile inquiry has no body; its reply has two lists of profiles.
LEMMA ProfilesAre ==
  /\ Messages["profile_inquiry"].v1 = <<Fixed(<<>>)>>
  /\ Messages["profile_inquiry"].v2 = <<Fixed(<<>>)>>
  /\ Messages["profile_inquiry_reply"].v1 =
       <<Counted(<<>>, "enabled", 5), Counted(<<>>, "disabled", 5)>>
  /\ Messages["profile_inquiry_reply"].v2 =
       <<Counted(<<>>, "enabled", 5), Counted(<<>>, "disabled", 5)>>
BY SameAre DEF Messages, profile_inquiry, profile_inquiry_reply, Empty

\* Every type of message is of one of the classes that have a consumer.
LEMMA TypesAre ==
  ASSUME NEW t \in Types
  PROVE  \/ t \in Single \/ t \in WithArray \/ t \in ProcessInquiry \/ t \in PropertyExchange
         \/ t = "profile_inquiry" \/ t = "profile_inquiry_reply"
BY DEF Types, Messages, Single, WithArray, ProcessInquiry, PropertyExchange

\* No type is of two classes: a consumer is found by at most one of its names.
LEMMA ClassesApart ==
  ASSUME NEW t
  PROVE  /\ t \in Single =>
              t \notin WithArray /\ t \notin ProcessInquiry /\ t \notin PropertyExchange
         /\ t \in WithArray => t \notin ProcessInquiry /\ t \notin PropertyExchange
         /\ t \in ProcessInquiry => t \notin PropertyExchange
         /\ t \in {"header", "discard", "profile_inquiry", "profile_inquiry_reply"} =>
              /\ t \notin Single /\ t \notin WithArray /\ t \notin ProcessInquiry
              /\ t \notin PropertyExchange
BY DEF Single, WithArray, ProcessInquiry, PropertyExchange

\* The consumers of headers and of unknown messages are not types of messages.
LEMMA NamesApart ==
  /\ "header" \notin Types /\ "discard" \notin Types /\ "unknown" \notin Types
  /\ Single \subseteq Types /\ WithArray \subseteq Types /\ ProcessInquiry \subseteq Types
  /\ PropertyExchange \subseteq Types
BY DEF Types, Messages, Single, WithArray, ProcessInquiry, PropertyExchange

\* The sub-ID of a message is a byte and tells its type.
LEMMA IdsApart ==
  /\ \A t \in Types : Messages[t].id \in 0 .. 127
  /\ \A t, u \in Types : Messages[t].id = Messages[u].id => t = u
<1>1. \A id, p, q : Message(id, p, q).id = id /\ Versions(id, p, q).id = id /\ Same(id, p).id = id
  BY DEF Message, Versions, Same
<1>2. /\ discovery.id = 112 /\ discovery_reply.id = 113 /\ endpoint.id = 114
      /\ endpoint_reply.id = 115 /\ invalidate_muid.id = 126 /\ ack.id = 125 /\ nak.id = 127
      /\ profile_inquiry.id = 32 /\ profile_inquiry_reply.id = 33 /\ profile_set_on.id = 34
      /\ profile_set_off.id = 35 /\ profile_enabled.id = 36 /\ profile_disabled.id = 37
      /\ profile_added.id = 38 /\ profile_removed.id = 39 /\ profile_details.id = 40
      /\ profile_details_reply.id = 41 /\ profile_specific_data.id = 47
  BY <1>1 DEF discovery, discovery_reply, endpoint, endpoint_reply, invalidate_muid, ack, nak,
     profile_inquiry, profile_inquiry_reply, profile_set_on, profile_set_off, profile_enabled,
     profile_disabled, profile_added, profile_removed, profile_details, profile_details_reply,
     profile_specific_data
<1>3. /\ pe_capability.id = 48 /\ pe_capability_reply.id = 49 /\ pe_get.id = 52
      /\ pe_get_reply.id = 53 /\ pe_set.id = 54 /\ pe_set_reply.id = 55 /\ pe_sub.id = 56
      /\ pe_sub_reply.id = 57 /\ pe_notify.id = 63 /\ pi_capability.id = 64
      /\ pi_capability_reply.id = 65 /\ pi_mm_report.id = 66 /\ pi_mm_report_reply.id = 67
      /\ pi_mm_report_end.id = 68
  BY <1>1 DEF pe_capability, pe_capability_reply, Capabilities, Exchange, pe_get, pe_get_reply,
     pe_set, pe_set_reply, pe_sub, pe_sub_reply, pe_notify, pi_capability, pi_capability_reply,
     pi_mm_report, pi_mm_report_reply, pi_mm_report_end
<1>4. \A t \in Types : Messages[t].id \in 0 .. 127
  BY <1>2, <1>3 DEF Types, Messages
<1>5. ASSUME NEW t \in Types, NEW u \in Types, Messages[t].id = Messages[u].id
      PROVE  t = u
  <2>1. CASE Messages[t].id \in 112 .. 127
    BY <1>2, <1>3, <1>5, <2>1 DEF Types, Messages
  <2>2. CASE Messages[t].id \in 32 .. 47
    BY <1>2, <1>3, <1>5, <2>2 DEF Types, Messages
  <2>3. CASE Messages[t].id \in 48 .. 68
    BY <1>2, <1>3, <1>5, <2>3 DEF Types, Messages
  <2> QED  BY <1>2, <1>3, <2>1, <2>2, <2>3 DEF Types, Messages
<1> QED  BY <1>4, <1>5

-------------------------------------------------------------------------------
(* The bytes of a part of a message.                                             *)

Septet == SUBSET b7

\* The bytes from some place on are those of a value.
Reads(bytes, from, value, n) == \A i \in 1 .. n : bytes[from + i] = to_le7(value, n)[i]

\* The bytes of a little-endian value: each has seven of its bits.
LEMMA Le7 ==
  ASSUME NEW value, NEW n \in Nat
  PROVE  /\ to_le7(value, n) \in Seq(Septet) /\ Len(to_le7(value, n)) = n
         /\ \A i \in 1 .. n : to_le7(value, n)[i] = {b \in b7 : 7 * (i - 1) + b \in value}
<1>1. to_le7(value, n) = [i \in 1 .. n |-> {b \in b7 : 7 * (i - 1) + b \in value}]
  BY DEF to_le7
<1>2. \A i \in 1 .. n : {b \in b7 : 7 * (i - 1) + b \in value} \in Septet
  BY DEF Septet
<1>3. to_le7(value, n) \in [1 .. n -> Septet]
  BY <1>1, <1>2
<1> QED  BY <1>1, <1>3

\* from_le7() undoes to_le7(): the value that was written is read.
LEMMA ValueIs ==
  ASSUME NEW buf \in Seq(Septet), NEW from \in Nat, NEW n \in Nat, from + n <= Len(buf),
         NEW value \in SUBSET (0 .. 7 * n - 1), Reads(buf, from, value, n)
  PROVE  Value(buf, from, n) = value
<1> DEFINE s == SubSeq(buf, from + 1, from + n)
<1>1. DOMAIN s = 1 .. n /\ \A i \in 1 .. n : s[i] = buf[from + i]
  <2>1. Len(s) = n /\ s \in Seq(Septet)
    OBVIOUS
  <2>2. \A i \in 1 .. n : s[i] = buf[(from + 1) + i - 1]
    OBVIOUS
  <2>3. \A i \in 1 .. n : (from + 1) + i - 1 = from + i
    OBVIOUS
  <2> HIDE DEF s
  <2> QED  BY <2>1, <2>2, <2>3
<1>2. \A i \in 1 .. n : s[i] = {b \in b7 : 7 * (i - 1) + b \in value}
  <2> HIDE DEF s
  <2>1. \A i \in 1 .. n : s[i] = to_le7(value, n)[i]
    BY <1>1 DEF Reads
  <2>2. \A i \in 1 .. n : to_le7(value, n)[i] = {b \in b7 : 7 * (i - 1) + b \in value}
    BY Le7
  <2> QED  BY <2>1, <2>2
<1>3. Value(buf, from, n) = UNION {{7 * (i - 1) + b : b \in s[i]} : i \in DOMAIN s}
  BY DEF Value, from_le7
<1> HIDE DEF s
<1>4. ASSUME NEW x \in Value(buf, from, n)
      PROVE  x \in value
  <2>1. PICK i \in 1 .. n : x \in {7 * (i - 1) + b : b \in s[i]}
    BY <1>1, <1>3
  <2>2. PICK b \in s[i] : x = 7 * (i - 1) + b
    BY <2>1
  <2> QED  BY <1>2, <2>2
<1>5. ASSUME NEW x \in value
      PROVE  x \in Value(buf, from, n)
  <2>1. x \in Nat /\ x <= 7 * n - 1
    OBVIOUS
  <2> DEFINE i == x \div 7 + 1
             b == x % 7
  <2>2. x = 7 * (x \div 7) + (x % 7) /\ x \div 7 \in Nat /\ (x % 7) \in 0 .. 6
    BY <2>1
  <2>3. i \in 1 .. n /\ b \in b7 /\ x = 7 * (i - 1) + b
    <3>1. x \div 7 < n
      BY <2>1, <2>2
    <3> QED  BY <2>2, <3>1 DEF b7
  <2> HIDE DEF i, b
  <2>4. b \in s[i]
    BY <1>2, <2>3
  <2>5. x \in {7 * (i - 1) + c : c \in s[i]}
    BY <2>3, <2>4
  <2> QED  BY <1>1, <1>3, <2>3, <2>5
<1> QED  BY <1>4, <1>5

\* A part as the table has it.
IsPart(part) ==
  /\ part.fields \in Seq(Field)
  /\ part.unit \in Nat
  /\ part.tail # "" => part.unit # 0

Elements(part, object) == IF part.tail = "" THEN 0 ELSE Len(object[part.tail])
PartSize(part, object) == FixedSize(part) + part.unit * Elements(part, object)

\* Every field of a part lies within it, at its offset.
LEMMA FieldTypes ==
  ASSUME NEW fields \in Seq(Field)
  PROVE  /\ Len(fields) \in Nat /\ DOMAIN fields = 1 .. Len(fields)
         /\ \A i \in 1 .. Len(fields) :
              /\ fields[i].size \in Nat \ {0}
              /\ fields[i].carried \subseteq 0 .. 7 * fields[i].size - 1
         /\ Sized(fields, Sizes(fields))
         /\ SizeOf(fields) \in Nat
         /\ \A i \in 1 .. Len(fields) :
              /\ Sizes(fields)[i - 1] \in Nat
              /\ Sizes(fields)[i - 1] + fields[i].size <= SizeOf(fields)
<1> DEFINE n == Len(fields)
           s == Sizes(fields)
<1>1. /\ n \in Nat /\ DOMAIN fields = 1 .. n
      /\ \A i \in 1 .. n : fields[i] \in Field
  OBVIOUS
<1>2. \A i \in 1 .. n : /\ fields[i].size \in Nat \ {0}
                        /\ fields[i].carried \subseteq 0 .. 7 * fields[i].size - 1
  BY <1>1 DEF Field
<1>3. Sized(fields, s)
  BY <1>1, <1>2, SizesAre
<1>4. /\ s \in [0 .. n -> Nat] /\ \A i \in 1 .. n : s[i] = s[i - 1] + fields[i].size
  BY <1>3 DEF Sized
<1>5. SizeOf(fields) = s[n]
  BY DEF SizeOf
<1> HIDE DEF n, s
<1> DEFINE T == {k \in Nat : k <= n => s[n - k] <= s[n]}
<1>6. T = Nat
  <2>1. 0 \in T
    <3>1. n - 0 = n /\ n \in 0 .. n
      BY <1>1
    <3>2. s[n] \in Nat
      BY <1>4, <3>1
    <3> QED  BY <3>1, <3>2
  <2>2. ASSUME NEW k \in T
        PROVE  k + 1 \in T
    <3>1. k \in Nat /\ (k <= n => s[n - k] <= s[n])
      OBVIOUS
    <3>2. ASSUME k + 1 <= n
          PROVE  s[n - (k + 1)] <= s[n]
      <4> DEFINE i == n - k
      <4>1. i \in 1 .. n /\ i \in 0 .. n /\ i - 1 \in 0 .. n /\ n \in 0 .. n /\ i - 1 = n - (k + 1)
        BY <1>1, <3>1, <3>2
      <4>2. s[i] <= s[n]
        BY <1>1, <3>1, <3>2
      <4> HIDE DEF i
      <4>3. s[i] \in Nat /\ s[i - 1] \in Nat /\ s[n] \in Nat
        BY <1>4, <4>1
      <4>4. s[i] = s[i - 1] + fields[i].size /\ fields[i].size \in Nat
        BY <1>2, <1>4, <4>1
      <4>5. s[i - 1] <= s[n]
        BY <4>2, <4>3, <4>4
      <4> QED  BY <4>1, <4>5
    <3> QED  BY <3>1, <3>2
  <2>3. T \in SUBSET Nat
    OBVIOUS
  <2> HIDE DEF T
  <2> QED  BY <2>1, <2>2, <2>3, AllNumbers
<1>7. ASSUME NEW i \in 1 .. n
      PROVE  s[i - 1] \in Nat /\ s[i - 1] + fields[i].size <= s[n]
  <2>1. i \in 0 .. n /\ i - 1 \in 0 .. n /\ n - i \in Nat /\ n - i <= n /\ n - (n - i) = i
    BY <1>1
  <2>2. n - i \in T
    BY <1>6, <2>1
  <2>3. s[n - (n - i)] <= s[n]
    BY <2>1, <2>2
  <2> QED  BY <1>4, <2>1, <2>3
<1>8. s[n] \in Nat
  BY <1>1, <1>4
<1> QED  BY <1>1, <1>2, <1>3, <1>5, <1>7, <1>8 DEF n, s

\* The bytes from some place on are those of the fields of a part and of the length
\* of its array; and those of its array.
HeadLaid(part, object, bytes, from) ==
  /\ \A i \in 1 .. Len(part.fields) :
       LET f == part.fields[i]
       IN  f.name # "reserved" =>
             Reads(bytes, from + Sizes(part.fields)[i - 1], object[f.name], f.size)
  /\ part.tail # "" =>
       Reads(bytes, from + SizeOf(part.fields), BitsOf(Elements(part, object)), 2)
TailLaid(part, object, bytes, from) ==
  part.tail # "" =>
    \A k \in 1 .. Elements(part, object) :
      Reads(bytes, from + FixedSize(part) + part.unit * (k - 1), object[part.tail][k],
            part.unit)
Laid(part, object, bytes, from) ==
  HeadLaid(part, object, bytes, from) /\ TailLaid(part, object, bytes, from)

\* The lengths that two bytes of seven bits can hold.
LEMMA LengthsAre ==
  /\ 0 \in 0 .. MaxLength
  /\ \A x \in Nat : x <= MaxLength => x \in 0 .. MaxLength
  /\ \A x \in 0 .. MaxLength : x \in Nat /\ x <= MaxLength
<1>1. MaxLength \in Nat
  BY DEF MaxLength
<1> QED  BY <1>1

\* The bytes before the array are those of the fields, and the length of the array.
LEMMA FixedIs ==
  ASSUME NEW part, SizeOf(part.fields) \in Nat
  PROVE  FixedSize(part) =
           IF part.tail = "" THEN SizeOf(part.fields) ELSE SizeOf(part.fields) + 2
<1>1. PICK s \in Nat : s = SizeOf(part.fields)
  OBVIOUS
<1>2. FixedSize(part) = s + (IF part.tail = "" THEN 0 ELSE 2)
  BY <1>1 DEF FixedSize
<1>3. part.tail = "" => (IF part.tail = "" THEN 0 ELSE 2) = 0
  OBVIOUS
<1>4. part.tail # "" => (IF part.tail = "" THEN 0 ELSE 2) = 2
  OBVIOUS
<1>5. s + 0 = s
  OBVIOUS
<1>6. FixedSize(part) = IF part.tail = "" THEN s ELSE s + 2
  BY <1>2, <1>3, <1>4, <1>5, Zenon
<1> QED  BY <1>1, <1>6

\* The sizes of a part of a message that its fields can hold.
LEMMA PartTypes ==
  ASSUME NEW part, IsPart(part), NEW object, Holds(object, part)
  PROVE  /\ Elements(part, object) \in 0 .. MaxLength
         /\ FixedSize(part) \in Nat /\ PartSize(part, object) \in Nat
         /\ PartSize(part, object) >= FixedSize(part)
         /\ part.unit * Elements(part, object) \in Nat
<1>1. SizeOf(part.fields) \in Nat
  BY FieldTypes DEF IsPart
<1>2. Elements(part, object) \in 0 .. MaxLength
  <2>1. CASE part.tail = ""
    BY <2>1, LengthsAre DEF Elements
  <2>2. CASE part.tail # ""
    <3>1. object[part.tail] \in Seq(SUBSET (0 .. 7 * part.unit - 1))
          /\ Len(object[part.tail]) <= MaxLength
      BY <2>2 DEF Holds
    <3>2. Len(object[part.tail]) \in Nat
      BY <3>1, LenProperties
    <3>3. Len(object[part.tail]) \in 0 .. MaxLength
      BY <3>1, <3>2, LengthsAre
    <3> QED  BY <2>2, <3>3 DEF Elements
  <2> QED  BY <2>1, <2>2
<1>3. FixedSize(part) \in Nat
  <2>1. PICK s \in Nat : s = SizeOf(part.fields)
    BY <1>1
  <2>2. s + 2 \in Nat
    OBVIOUS
  <2> QED  BY <2>1, <2>2, FixedIs
<1>4. part.unit * Elements(part, object) \in Nat
  <2>1. part.unit \in Nat /\ Elements(part, object) \in Nat
    BY <1>2, LengthsAre DEF IsPart
  <2>2. \A x, y \in Nat : x * y \in Nat
    OBVIOUS
  <2> QED  BY <2>1, <2>2
<1> QED  BY <1>2, <1>3, <1>4 DEF PartSize

\* The packed structure: every field is at its offset, the reserved ones between.
LEMMA FieldsPacked ==
  ASSUME NEW part, IsPart(part), NEW object, Holds(object, part)
  PROVE  LET all == FlattenSeq([i \in DOMAIN part.fields |-> PackedField(part.fields[i], object)])
         IN  /\ all \in Seq(Septet) /\ Len(all) = SizeOf(part.fields)
             /\ \A i \in 1 .. Len(part.fields) :
                  LET f == part.fields[i]
                  IN  f.name # "reserved" =>
                        Reads(all, Sizes(part.fields)[i - 1], object[f.name], f.size)
<1> DEFINE fields == part.fields
           n == Len(fields)
           off == Sizes(fields)
           one(i) == PackedField(fields[i], object)
           seqs == [i \in DOMAIN fields |-> one(i)]
           all == FlattenSeq(seqs)
<1>1. /\ n \in Nat /\ DOMAIN fields = 1 .. n /\ Sized(fields, off)
      /\ \A i \in 1 .. n : fields[i].size \in Nat
  BY FieldTypes DEF IsPart
<1>2. ASSUME NEW i \in 1 .. n
      PROVE  /\ one(i) \in Seq(Septet) /\ Len(one(i)) = fields[i].size
             /\ fields[i].name # "reserved" =>
                  one(i) = to_le7(object[fields[i].name], fields[i].size)
  <2>1. \A value : /\ to_le7(value, fields[i].size) \in Seq(Septet)
                   /\ Len(to_le7(value, fields[i].size)) = fields[i].size
    BY <1>1, Le7
  <2>2. ASSUME fields[i].name # "reserved"
        PROVE  one(i) = to_le7(object[fields[i].name], fields[i].size)
    <3>1. object[fields[i].name] \subseteq fields[i].carried
      BY <1>1, <2>2 DEF Holds
    <3>2. object[fields[i].name] \intersect fields[i].carried = object[fields[i].name]
      BY <3>1
    <3> QED  BY <2>2, <3>2 DEF PackedField
  <2>3. one(i) \in Seq(Septet) /\ Len(one(i)) = fields[i].size
    BY <2>1 DEF PackedField
  <2> QED  BY <2>2, <2>3
<1>3. SizeOf(fields) = off[n]
  BY DEF SizeOf
<1>4. \A i \in 1 .. n : seqs[i] = one(i)
  BY <1>1
<1>5. seqs \in Seq(Seq(Septet)) /\ Len(seqs) = n
  <2> HIDE DEF one, n
  <2>1. seqs \in [1 .. n -> Seq(Septet)]
    BY <1>1, <1>2
  <2> QED  BY <1>1, <2>1
<1>6. off \in [0 .. n -> Nat] /\ off[0] = 0
          /\ \A i \in 1 .. n : off[i] = off[i - 1] + fields[i].size
  BY <1>1 DEF Sized
<1> HIDE DEF off, one, n, seqs
<1>7. Offsets(seqs, off)
  BY <1>2, <1>4, <1>5, <1>6 DEF Offsets
<1>8. all \in Seq(Septet) /\ Joined(seqs, off, all)
  BY <1>5, <1>7, Flattened
<1>9. Len(all) = off[n]
          /\ \A i \in 1 .. n : \A j \in 1 .. Len(seqs[i]) : all[off[i - 1] + j] = seqs[i][j]
  BY <1>5, <1>8 DEF Joined
<1>10. ASSUME NEW i \in 1 .. n, fields[i].name # "reserved"
       PROVE  Reads(all, off[i - 1], object[fields[i].name], fields[i].size)
  <2>1. /\ seqs[i] = to_le7(object[fields[i].name], fields[i].size)
        /\ Len(seqs[i]) = fields[i].size
    BY <1>2, <1>4, <1>10
  <2>2. \A j \in 1 .. fields[i].size :
            all[off[i - 1] + j] = to_le7(object[fields[i].name], fields[i].size)[j]
    BY <1>9, <2>1
  <2> QED  BY <2>2 DEF Reads
<1>11. all \in Seq(Septet) /\ Len(all) = SizeOf(fields)
  BY <1>3, <1>8, <1>9
<1> HIDE DEF all
<1>12. /\ all \in Seq(Septet) /\ Len(all) = SizeOf(part.fields)
       /\ \A i \in 1 .. Len(part.fields) :
            LET f == part.fields[i]
            IN  f.name # "reserved" =>
                  Reads(all, Sizes(part.fields)[i - 1], object[f.name], f.size)
  BY <1>10, <1>11 DEF n, off
<1> QED  BY <1>12 DEF all, seqs, one

\* The elements of an array follow each other, each in its unit.
LEMMA ArrayPacked ==
  ASSUME NEW array, NEW unit \in Nat, Len(array) \in Nat, DOMAIN array = 1 .. Len(array)
  PROVE  LET all == FlattenSeq([i \in DOMAIN array |-> to_le7(array[i], unit)])
         IN  /\ all \in Seq(Septet) /\ Len(all) = unit * Len(array)
             /\ \A k \in 1 .. Len(array) : Reads(all, unit * (k - 1), array[k], unit)
<1> DEFINE n == Len(array)
           one(i) == to_le7(array[i], unit)
           seqs == [i \in DOMAIN array |-> one(i)]
           off == [i \in 0 .. n |-> unit * i]
           all == FlattenSeq(seqs)
<1>1. n \in Nat /\ DOMAIN array = 1 .. n
  OBVIOUS
<1>2. \A i \in 1 .. n : one(i) \in Seq(Septet) /\ Len(one(i)) = unit
  BY Le7
<1>3. seqs \in Seq(Seq(Septet)) /\ Len(seqs) = n /\ \A i \in 1 .. n : seqs[i] = one(i)
  <2> HIDE DEF one, n
  <2>1. seqs \in [1 .. n -> Seq(Septet)] /\ \A i \in 1 .. n : seqs[i] = one(i)
    BY <1>1, <1>2
  <2> HIDE DEF seqs
  <2> QED  BY <1>1, <2>1
<1>4. off \in [0 .. n -> Nat] /\ off[0] = 0 /\ \A i \in 0 .. n : off[i] = unit * i
  <2> HIDE DEF n
  <2>1. \A i \in 0 .. n : i \in Nat /\ unit * i \in Nat
    BY <1>1
  <2>2. unit * 0 = 0 /\ 0 \in 0 .. n
    BY <1>1
  <2>3. \A i \in 0 .. n : off[i] = unit * i
    OBVIOUS
  <2> QED  BY <2>1, <2>2, <2>3
<1>5. \A i \in 1 .. n : i \in 0 .. n /\ i - 1 \in 0 .. n /\ unit * i = unit * (i - 1) + unit
  BY <1>1
<1>6. \A i \in 1 .. n : off[i - 1] = unit * (i - 1) /\ off[i] = off[i - 1] + unit
  BY <1>4, <1>5
<1> HIDE DEF n, one, seqs, off
<1>7. Offsets(seqs, off)
  BY <1>2, <1>3, <1>4, <1>6 DEF Offsets
<1>8. all \in Seq(Septet) /\ Joined(seqs, off, all)
  BY <1>3, <1>7, Flattened
<1>9. Len(all) = off[n]
          /\ \A i \in 1 .. n : \A j \in 1 .. Len(seqs[i]) : all[off[i - 1] + j] = seqs[i][j]
  BY <1>3, <1>8 DEF Joined
<1>10. ASSUME NEW k \in 1 .. n
       PROVE  Reads(all, unit * (k - 1), array[k], unit)
  <2>1. seqs[k] = to_le7(array[k], unit) /\ Len(seqs[k]) = unit
    BY <1>2, <1>3 DEF one
  <2>2. \A j \in 1 .. unit : all[unit * (k - 1) + j] = to_le7(array[k], unit)[j]
    BY <1>6, <1>9, <2>1
  <2> QED  BY <2>2 DEF Reads
<1>11. Len(all) = unit * n
  <2>1. n \in 0 .. n
    BY <1>1
  <2> QED  BY <1>4, <1>9, <2>1
<1> HIDE DEF all
<1>12. /\ all \in Seq(Septet) /\ Len(all) = unit * Len(array)
       /\ \A k \in 1 .. Len(array) : Reads(all, unit * (k - 1), array[k], unit)
  BY <1>8, <1>10, <1>11 DEF n
<1> QED  BY <1>12 DEF all, seqs, one

\* A value that is copied to another place is read there.
LEMMA ReadsMoved ==
  ASSUME NEW b, NEW c, NEW from \in Nat, NEW to \in Nat, NEW n \in Nat, NEW value,
         Reads(b, from, value, n),
         \A i \in 1 .. n : c[to + i] = b[from + i]
  PROVE  Reads(c, to, value, n)
BY DEF Reads

\* The array of a part is a sequence of values that its unit can hold.
LEMMA ArrayTypes ==
  ASSUME NEW part, IsPart(part), NEW object, Holds(object, part), part.tail # ""
  PROVE  /\ object[part.tail] \in Seq(SUBSET (0 .. 7 * part.unit - 1))
         /\ Elements(part, object) = Len(object[part.tail])
         /\ Len(object[part.tail]) \in Nat
         /\ DOMAIN object[part.tail] = 1 .. Len(object[part.tail])
<1>1. object[part.tail] \in Seq(SUBSET (0 .. 7 * part.unit - 1))
  BY DEF Holds
<1>2. \A S : \A q \in Seq(S) : Len(q) \in Nat /\ DOMAIN q = 1 .. Len(q)
  BY LenProperties
<1>3. Elements(part, object) = Len(object[part.tail])
  BY DEF Elements
<1> QED  BY <1>1, <1>2, <1>3, Zenon

\* An array of equal units: what is before an element, the element, what is after.
LEMMA Shares ==
  ASSUME NEW u \in Nat, NEW m \in Nat, NEW k \in 1 .. m
  PROVE  u * m = u * (k - 1) + u + u * (m - k)
OBVIOUS

\* write_packed() lays out the fields, the length of the array and the array.
LEMMA PackedIs ==
  ASSUME NEW part, IsPart(part), NEW object, Holds(object, part)
  PROVE  /\ Packed(part, object) \in Seq(Septet)
         /\ Len(Packed(part, object)) = PartSize(part, object)
         /\ Laid(part, object, Packed(part, object), 0)
<1> DEFINE F == FlattenSeq([i \in DOMAIN part.fields |-> PackedField(part.fields[i], object)])
           L == PackedLength(part, object)
           T == PackedTail(part, object)
           n == Len(part.fields)
           s == SizeOf(part.fields)
           off(i) == Sizes(part.fields)[i - 1]
           size(i) == part.fields[i].size
           name(i) == part.fields[i].name
<1>1. /\ F \in Seq(Septet) /\ Len(F) = s
      /\ \A i \in 1 .. n : name(i) # "reserved" => Reads(F, off(i), object[name(i)], size(i))
  BY FieldsPacked
<1>2. /\ n \in Nat /\ s \in Nat
      /\ \A i \in 1 .. n : size(i) \in Nat /\ off(i) \in Nat /\ off(i) + size(i) <= s
  BY FieldTypes DEF IsPart
<1>3. Packed(part, object) = (F \o L) \o T
  BY DEF Packed
<1> DEFINE P == (F \o L) \o T
<1>4. SUFFICES /\ P \in Seq(Septet) /\ Len(P) = PartSize(part, object)
               /\ Laid(part, object, P, 0)
  BY <1>3
<1>5. ASSUME NEW X \in Seq(Septet), \A j \in 1 .. s : X[j] = F[j],
             part.tail # "" => Reads(X, s, BitsOf(Elements(part, object)), 2),
             TailLaid(part, object, X, 0)
      PROVE  Laid(part, object, X, 0)
  <2>1. ASSUME NEW i \in 1 .. n, name(i) # "reserved"
        PROVE  Reads(X, 0 + off(i), object[name(i)], size(i))
    <3>1. Reads(F, off(i), object[name(i)], size(i))
      BY <1>1, <2>1
    <3>2. 0 + off(i) = off(i) /\ off(i) \in Nat /\ size(i) \in Nat /\ off(i) + size(i) <= s
      BY <1>2
    <3>3. \A j \in 1 .. size(i) : off(i) + j \in 1 .. s
      BY <1>2, <3>2
    <3>4. \A j \in 1 .. size(i) : X[off(i) + j] = F[off(i) + j]
      BY <1>5, <3>3
    <3> HIDE DEF off, size, name
    <3> QED  BY <3>1, <3>2, <3>4, ReadsMoved
  <2>2. 0 + s = s
    BY <1>2
  <2> QED  BY <1>5, <2>1, <2>2 DEF Laid, HeadLaid
<1>6. CASE part.tail = ""
  <2>1. L = <<>> /\ T = <<>>
    BY <1>6 DEF PackedLength, PackedTail
  <2>2. P = F
    <3> HIDE DEF F, L, T
    <3> QED  BY <1>1, <2>1
  <2>3. PartSize(part, object) = s
    <3>1. FixedSize(part) = s /\ Elements(part, object) = 0
      BY <1>2, <1>6, FixedIs DEF Elements
    <3>2. \A x, u \in Nat : x + u * 0 = x
      OBVIOUS
    <3> QED  BY <1>2, <3>1, <3>2 DEF PartSize, IsPart
  <2>4. Laid(part, object, F, 0)
    BY <1>1, <1>5, <1>6 DEF TailLaid
  <2> QED  BY <1>1, <2>2, <2>3, <2>4
<1>7. CASE part.tail # ""
  <2> DEFINE array == object[part.tail]
             unit == part.unit
             m == Len(array)
  <2>1. m \in Nat /\ DOMAIN array = 1 .. m /\ unit \in Nat /\ Elements(part, object) = m
    BY <1>7, ArrayTypes DEF IsPart
  <2>2. L \in Seq(Septet) /\ Len(L) = 2 /\ L = to_le7(BitsOf(m), 2)
    BY <1>7, Le7 DEF PackedLength
  <2>3. /\ T \in Seq(Septet) /\ Len(T) = unit * m
        /\ \A k \in 1 .. m : Reads(T, unit * (k - 1), array[k], unit)
    BY <1>7, <2>1, ArrayPacked DEF PackedTail
  <2>4. FixedSize(part) = s + 2
    BY <1>2, <1>7, FixedIs
  <2>5. unit * m \in Nat /\ \A k \in 1 .. m : /\ unit * (k - 1) \in Nat
                                              /\ unit * (k - 1) + unit <= unit * m
    <3> HIDE DEF unit, m
    <3>1. \A x \in Nat : unit * x \in Nat
      BY <2>1
    <3>2. ASSUME NEW k \in 1 .. m
          PROVE  unit * (k - 1) \in Nat /\ unit * (k - 1) + unit <= unit * m
      <4>1. k - 1 \in Nat /\ m - k \in Nat
        BY <2>1
      <4>2. unit * (k - 1) \in Nat /\ unit * (m - k) \in Nat
        BY <3>1, <4>1
      <4>3. unit * m = unit * (k - 1) + unit + unit * (m - k)
        BY <2>1, Shares
      <4>4. \A a, b, c, d \in Nat : a = b + c + d => b + c <= a
        OBVIOUS
      <4>5. unit \in Nat /\ unit * m \in Nat
        BY <2>1, <3>1
      <4> QED  BY <4>2, <4>3, <4>4, <4>5, Zenon
    <3> QED  BY <2>1, <3>1, <3>2
  <2> HIDE DEF F, L, T
  <2> DEFINE H == F \o L
  <2>6. /\ H \in Seq(Septet) /\ Len(H) = s + 2
        /\ \A j \in 1 .. s : H[j] = F[j]
        /\ \A j \in 1 .. 2 : H[s + j] = L[j]
    <3>1. F \in Seq(Septet) /\ L \in Seq(Septet) /\ Len(F) = s /\ Len(L) = 2
      BY <1>1, <2>2
    <3>2. \A f, g \in Seq(Septet) :
            /\ f \o g \in Seq(Septet) /\ Len(f \o g) = Len(f) + Len(g)
            /\ \A j \in 1 .. Len(f) : (f \o g)[j] = f[j]
            /\ \A j \in 1 .. Len(g) : (f \o g)[Len(f) + j] = g[j]
      BY Concat
    <3>3. /\ H \in Seq(Septet) /\ Len(H) = Len(F) + Len(L)
          /\ \A j \in 1 .. Len(F) : H[j] = F[j]
          /\ \A j \in 1 .. Len(L) : H[Len(F) + j] = L[j]
      BY <3>1, <3>2, Zenon
    <3> HIDE DEF H
    <3> QED  BY <3>1, <3>3
  <2> HIDE DEF H
  <2>7. /\ P \in Seq(Septet) /\ Len(P) = s + 2 + unit * m
        /\ \A j \in 1 .. s + 2 : P[j] = H[j]
        /\ \A j \in 1 .. unit * m : P[s + 2 + j] = T[j]
    <3>1. P = H \o T
      BY DEF H
    <3>2. /\ H \o T \in Seq(Septet) /\ Len(H \o T) = Len(H) + Len(T)
          /\ \A j \in 1 .. Len(H) : (H \o T)[j] = H[j]
          /\ \A j \in 1 .. Len(T) : (H \o T)[Len(H) + j] = T[j]
      <4>1. H \in Seq(Septet) /\ T \in Seq(Septet)
        BY <2>3, <2>6
      <4> QED  BY <4>1, Concat
    <3> HIDE DEF P, unit, m
    <3> QED  BY <2>3, <2>6, <3>1, <3>2
  <2>8. Len(P) = PartSize(part, object)
    BY <2>1, <2>4, <2>7 DEF PartSize
  <2>9. \A j \in 1 .. s : P[j] = F[j]
    <3>1. \A j \in 1 .. s : j \in 1 .. s + 2
      BY <1>2
    <3> HIDE DEF P
    <3> QED  BY <2>6, <2>7, <3>1
  <2>10. Reads(P, s, BitsOf(Elements(part, object)), 2)
    <3>1. \A j \in 1 .. 2 : s + j \in 1 .. s + 2
      BY <1>2
    <3>2. \A j \in 1 .. 2 : P[s + j] = to_le7(BitsOf(m), 2)[j]
      <4> HIDE DEF P
      <4> QED  BY <2>2, <2>6, <2>7, <3>1
    <3> QED  BY <2>1, <3>2 DEF Reads
  <2>11. TailLaid(part, object, P, 0)
    <3>1. ASSUME NEW k \in 1 .. m
          PROVE  Reads(P, 0 + FixedSize(part) + unit * (k - 1), array[k], unit)
      <4> DEFINE from == unit * (k - 1)
                 to == 0 + FixedSize(part) + unit * (k - 1)
      <4>1. from \in Nat /\ to \in Nat /\ to = s + 2 + from /\ from + unit <= unit * m
        BY <1>2, <2>4, <2>5
      <4>2. Reads(T, from, array[k], unit)
        BY <2>3
      <4> HIDE DEF from, to
      <4>3. \A j \in 1 .. unit : from + j \in 1 .. unit * m /\ to + j = s + 2 + (from + j)
        <5> HIDE DEF unit, m
        <5> QED  BY <1>2, <2>1, <2>5, <4>1
      <4>4. \A j \in 1 .. unit : P[to + j] = T[from + j]
        <5> HIDE DEF P
        <5> QED  BY <2>7, <4>3
      <4>5. Reads(P, to, array[k], unit)
        <5> HIDE DEF P, array, unit
        <5> QED  BY <2>1, <4>1, <4>2, <4>4, ReadsMoved
      <4> QED  BY <4>5 DEF to
    <3> QED  BY <2>1, <3>1 DEF TailLaid
  <2> HIDE DEF P
  <2>12. Laid(part, object, P, 0)
    BY <1>5, <2>7, <2>9, <2>10, <2>11
  <2> QED  BY <2>7, <2>8, <2>12
<1> QED  BY <1>6, <1>7

(* Sums of natural numbers.                                                      *)
\* Sums of natural numbers: a smaller addend, a smaller sum.
LEMMA SumLess ==
  \A x, y, z, w \in Nat : z <= y /\ x + y <= w => x + z <= w
OBVIOUS

\* A unit of an array lies within the bytes that hold the array.
LEMMA Within ==
  ASSUME NEW from \in Nat, NEW f \in Nat, NEW z \in Nat, NEW u \in Nat, NEW w \in Nat,
         NEW v \in Nat, v = z + u + w, NEW len \in Nat, from + (f + v) <= len
  PROVE  from + f + z \in Nat /\ (from + f + z) + u <= len
OBVIOUS

\* The bytes before an element of an array and after it are natural numbers.
LEMMA Product ==
  ASSUME NEW u \in Nat, NEW m \in Nat, NEW k \in 1 .. m
  PROVE  /\ u * (k - 1) \in Nat /\ u * (m - k) \in Nat /\ u * m \in Nat
         /\ u * m = u * (k - 1) + u + u * (m - k)
<1>1. \A x \in Nat : u * x \in Nat
  OBVIOUS
<1>2. k - 1 \in Nat /\ m - k \in Nat
  OBVIOUS
<1> QED  BY <1>1, <1>2, Shares

\* Bytes are found wherever they are copied to.
LEMMA HeadMoved ==
  ASSUME NEW part, IsPart(part), NEW object, Holds(object, part), NEW b, NEW c,
         NEW from \in Nat, NEW to \in Nat, HeadLaid(part, object, b, from),
         \A i \in 1 .. FixedSize(part) : c[to + i] = b[from + i]
  PROVE  HeadLaid(part, object, c, to)
<1> DEFINE n == Len(part.fields)
           s == SizeOf(part.fields)
           off(i) == Sizes(part.fields)[i - 1]
           size(i) == part.fields[i].size
           name(i) == part.fields[i].name
<1>1. /\ n \in Nat /\ s \in Nat
      /\ \A i \in 1 .. n : size(i) \in Nat /\ off(i) \in Nat /\ off(i) + size(i) <= s
  BY FieldTypes DEF IsPart
<1>2. FixedSize(part) \in Nat /\ s <= FixedSize(part)
          /\ (part.tail # "" => FixedSize(part) = s + 2)
  <2>1. \A x \in Nat : x <= x + 2 /\ x <= x /\ x + 2 \in Nat
    OBVIOUS
  <2> QED  BY <1>1, <2>1, FixedIs
<1>3. ASSUME NEW at \in Nat, NEW len \in Nat, at + len <= FixedSize(part), NEW value,
             Reads(b, from + at, value, len)
      PROVE  Reads(c, to + at, value, len)
  <2>1. \A i \in 1 .. len : at + i \in 1 .. FixedSize(part)
    <3>1. \A x \in Nat : at + len <= x => \A i \in 1 .. len : at + i \in 1 .. x
      OBVIOUS
    <3> QED  BY <1>2, <1>3, <3>1, Zenon
  <2>2. \A i \in 1 .. len : to + (at + i) = (to + at) + i /\ from + (at + i) = (from + at) + i
    BY <1>3
  <2>3. \A i \in 1 .. len : c[(to + at) + i] = b[(from + at) + i]
    BY <2>1, <2>2
  <2>4. from + at \in Nat /\ to + at \in Nat
    BY <1>3
  <2> QED  BY <1>3, <2>3, <2>4, ReadsMoved
<1>4. /\ \A i \in 1 .. n : name(i) # "reserved" =>
           Reads(b, from + off(i), object[name(i)], size(i))
      /\ part.tail # "" => Reads(b, from + s, BitsOf(Elements(part, object)), 2)
  BY DEF HeadLaid
<1>5. ASSUME NEW i \in 1 .. n, name(i) # "reserved"
      PROVE  Reads(c, to + off(i), object[name(i)], size(i))
  <2>1. off(i) \in Nat /\ size(i) \in Nat /\ off(i) + size(i) <= FixedSize(part)
    <3>1. off(i) \in Nat /\ size(i) \in Nat /\ off(i) + size(i) <= s
      BY <1>1
    <3>2. \A x, y, z, w \in Nat : x + y <= z /\ z <= w => x + y <= w
      OBVIOUS
    <3>3. s \in Nat /\ s <= FixedSize(part) /\ FixedSize(part) \in Nat
      BY <1>1, <1>2
    <3> HIDE DEF off, size, s
    <3> QED  BY <3>1, <3>2, <3>3, Zenon
  <2>2. Reads(b, from + off(i), object[name(i)], size(i))
    BY <1>4, <1>5
  <2> HIDE DEF off, size, name
  <2> QED  BY <1>3, <2>1, <2>2
<1>6. ASSUME part.tail # ""
      PROVE  Reads(c, to + s, BitsOf(Elements(part, object)), 2)
  <2>1. s \in Nat /\ 2 \in Nat /\ s + 2 <= FixedSize(part)
    <3>1. \A x \in Nat : x + 2 <= x + 2 /\ 2 \in Nat
      OBVIOUS
    <3> QED  BY <1>1, <1>2, <1>6, <3>1, Zenon
  <2>2. Reads(b, from + s, BitsOf(Elements(part, object)), 2)
    BY <1>4, <1>6
  <2> HIDE DEF s
  <2> QED  BY <1>3, <2>1, <2>2
<1> QED  BY <1>5, <1>6 DEF HeadLaid

\* A part that is copied as a whole is found where it was copied to.
LEMMA LaidMoved ==
  ASSUME NEW part, IsPart(part), NEW object, Holds(object, part), NEW b, NEW c,
         NEW from \in Nat, NEW to \in Nat, Laid(part, object, b, from),
         \A i \in 1 .. PartSize(part, object) : c[to + i] = b[from + i]
  PROVE  Laid(part, object, c, to)
<1> DEFINE f == FixedSize(part)
           u == part.unit
           m == Elements(part, object)
<1>1. /\ f \in Nat /\ u \in Nat /\ m \in Nat /\ u * m \in Nat
      /\ PartSize(part, object) = f + u * m
  <2>1. m \in Nat
    BY PartTypes, LengthsAre
  <2> QED  BY <2>1, PartTypes DEF IsPart, PartSize
<1> HIDE DEF f, u, m
<1>2. HeadLaid(part, object, c, to)
  <2>1. \A i \in 1 .. f : i \in 1 .. f + u * m
    BY <1>1
  <2>2. \A i \in 1 .. f : c[to + i] = b[from + i]
    BY <1>1, <2>1
  <2>3. HeadLaid(part, object, b, from)
    BY DEF Laid
  <2> QED  BY <2>2, <2>3, HeadMoved DEF f
<1>3. TailLaid(part, object, c, to)
  <2>1. SUFFICES ASSUME part.tail # "", NEW k \in 1 .. m
                 PROVE  Reads(c, to + f + u * (k - 1), object[part.tail][k], u)
    BY DEF TailLaid, f, u, m
  <2>2. Reads(b, from + f + u * (k - 1), object[part.tail][k], u)
    BY <2>1 DEF Laid, TailLaid, f, u, m
  <2>3. k - 1 \in Nat /\ m - k \in Nat
    BY <1>1
  <2>4. /\ u * (k - 1) \in Nat /\ u * (m - k) \in Nat
        /\ u * m = u * (k - 1) + u + u * (m - k)
    <3>1. \A x \in Nat : u * x \in Nat
      BY <1>1
    <3> QED  BY <1>1, <2>3, <3>1, Shares
  <2> DEFINE z == u * (k - 1)
             w == u * (m - k)
             v == u * m
  <2>5. z \in Nat /\ w \in Nat /\ v \in Nat /\ v = z + u + w
    BY <1>1, <2>4
  <2>6. \A i \in 1 .. PartSize(part, object) : c[to + i] = b[from + i]
    OBVIOUS
  <2>7. PartSize(part, object) = f + v
    BY <1>1
  <2> HIDE DEF z, w, v
  <2>8. \A i \in 1 .. u : f + z + i \in 1 .. f + v
    BY <1>1, <2>5
  <2>9. \A i \in 1 .. u : /\ to + (f + z + i) = (to + f + z) + i
                          /\ from + (f + z + i) = (from + f + z) + i
    BY <1>1, <2>5
  <2>10. \A i \in 1 .. u : c[(to + f + z) + i] = b[(from + f + z) + i]
    BY <2>6, <2>7, <2>8, <2>9
  <2>11. Reads(b, from + f + z, object[part.tail][k], u)
    BY <2>2 DEF z
  <2>12. from + f + z \in Nat /\ to + f + z \in Nat
    BY <1>1, <2>5
  <2>13. Reads(c, to + f + z, object[part.tail][k], u)
    BY <1>1, <2>10, <2>11, <2>12, ReadsMoved
  <2> QED  BY <2>13 DEF z
<1> QED  BY <1>2, <1>3 DEF Laid

-------------------------------------------------------------------------------
(* What is read back.                                                            *)

\* The consumer reads the length of the array from the bytes before it.
LEMMA LengthIs ==
  ASSUME NEW part, IsPart(part), NEW object, Holds(object, part),
         NEW buf \in Seq(Septet), NEW from \in Nat, from + FixedSize(part) <= Len(buf),
         HeadLaid(part, object, buf, from)
  PROVE  /\ Length(part, buf, from) = Elements(part, object)
         /\ TailSize(part, buf, from) = part.unit * Elements(part, object)
<1> DEFINE s == SizeOf(part.fields)
           m == Elements(part, object)
<1>1. s \in Nat /\ m \in 0 .. MaxLength
  BY FieldTypes, PartTypes DEF IsPart
<1>2. Length(part, buf, from) = m
  <2>1. CASE part.tail = ""
    BY <2>1 DEF Length, Elements
  <2>2. CASE part.tail # ""
    <3>1. Length(part, buf, from) = Number(Value(buf, from + s, 2))
      BY <2>2 DEF Length
    <3>2. Reads(buf, from + s, BitsOf(m), 2)
      BY <2>2 DEF HeadLaid
    <3>3. BitsOf(m) \in SUBSET (0 .. 7 * 2 - 1)
      BY DEF BitsOf
    <3>4. from + s \in Nat /\ 2 \in Nat /\ (from + s) + 2 <= Len(buf)
      <4>1. FixedSize(part) = s + 2
        BY <1>1, <2>2, FixedIs
      <4>2. Len(buf) \in Nat
        BY LenProperties
      <4> HIDE DEF s
      <4> QED  BY <1>1, <4>1, <4>2
    <3> HIDE DEF s, m
    <3>5. Value(buf, from + s, 2) = BitsOf(m)
      BY <3>2, <3>3, <3>4, ValueIs
    <3> QED  BY <1>1, <3>1, <3>5, NumberOfBits
  <2> QED  BY <2>1, <2>2
<1> QED  BY <1>2 DEF TailSize

\* A field is read back as it was packed.
LEMMA FieldRead ==
  ASSUME NEW part, IsPart(part), NEW object, Holds(object, part),
         NEW buf \in Seq(Septet), NEW from \in Nat, from + FixedSize(part) <= Len(buf),
         HeadLaid(part, object, buf, from),
         NEW name \in FieldNames(part), name # "reserved"
  PROVE  FieldValue(part, buf, from, name) = object[name]
<1> DEFINE n == Len(part.fields)
           s == SizeOf(part.fields)
           f(i) == part.fields[i]
           off(i) == Sizes(part.fields)[i - 1]
           size(i) == part.fields[i].size
<1>1. /\ n \in Nat /\ s \in Nat /\ DOMAIN part.fields = 1 .. n
      /\ \A i \in 1 .. n : /\ size(i) \in Nat /\ off(i) \in Nat /\ off(i) + size(i) <= s
                           /\ f(i).carried \subseteq 0 .. 7 * size(i) - 1
  BY FieldTypes DEF IsPart
<1>2. PICK i \in 1 .. n :
        /\ f(i).name = name
        /\ FieldValue(part, buf, from, name)
             = Value(buf, from + off(i), size(i)) \intersect f(i).carried
  <2>1. \E i \in DOMAIN part.fields : f(i).name = name
    BY DEF FieldNames
  <2>2. PICK i : i = CHOOSE k \in DOMAIN part.fields : part.fields[k].name = name
    OBVIOUS
  <2>3. i \in DOMAIN part.fields /\ part.fields[i].name = name
    BY <2>1, <2>2
  <2> QED  BY <1>1, <2>2, <2>3 DEF FieldValue
<1>3. Reads(buf, from + off(i), object[name], size(i))
  BY <1>2 DEF HeadLaid
<1>4. object[name] \subseteq f(i).carried
  BY <1>1, <1>2 DEF Holds
<1>5. object[name] \in SUBSET (0 .. 7 * size(i) - 1)
  BY <1>1, <1>4
<1>6. from + off(i) \in Nat /\ size(i) \in Nat /\ (from + off(i)) + size(i) <= Len(buf)
  <2>1. s <= FixedSize(part) /\ FixedSize(part) \in Nat
    <3>1. \A x \in Nat : x <= x + 2 /\ x <= x /\ x + 2 \in Nat
      OBVIOUS
    <3> QED  BY <1>1, <3>1, FixedIs
  <2>2. Len(buf) \in Nat
    BY LenProperties
  <2>3. off(i) \in Nat /\ size(i) \in Nat /\ off(i) + size(i) <= s /\ s \in Nat
    BY <1>1
  <2> HIDE DEF off, size, s
  <2> QED  BY <2>1, <2>2, <2>3
<1>7. Value(buf, from + off(i), size(i)) = object[name]
  <2> HIDE DEF off, size
  <2> QED  BY <1>3, <1>5, <1>6, ValueIs
<1>8. Value(buf, from + off(i), size(i)) \intersect f(i).carried = object[name]
  BY <1>4, <1>7
<1> QED  BY <1>2, <1>8

\* The array is read back as it was packed, element by element.
LEMMA TailRead ==
  ASSUME NEW part, IsPart(part), NEW object, Holds(object, part), part.tail # "",
         NEW buf \in Seq(Septet), NEW from \in Nat, from + PartSize(part, object) <= Len(buf),
         Laid(part, object, buf, from)
  PROVE  TailValue(part, buf, from) = object[part.tail]
<1> DEFINE f == FixedSize(part)
           u == part.unit
           m == Elements(part, object)
           a == object[part.tail]
<1>1. /\ f \in Nat /\ u \in Nat /\ m \in Nat /\ u * m \in Nat
      /\ PartSize(part, object) = f + u * m
  <2>1. m \in Nat
    BY PartTypes, LengthsAre
  <2> QED  BY <2>1, PartTypes DEF IsPart, PartSize
<1>2. a \in Seq(SUBSET (0 .. 7 * u - 1)) /\ m = Len(a) /\ DOMAIN a = 1 .. m
  BY ArrayTypes
<1>3. Length(part, buf, from) = m
  <2>2. Len(buf) \in Nat
    BY LenProperties
  <2>3. /\ PartSize(part, object) \in Nat /\ FixedSize(part) \in Nat
        /\ FixedSize(part) <= PartSize(part, object)
    BY PartTypes
  <2>4. from + FixedSize(part) <= Len(buf)
    BY SumLess, <2>2, <2>3, Zenon
  <2> QED  BY <2>4, LengthIs DEF Laid
<1>4. TailValue(part, buf, from) = [k \in 1 .. m |-> Value(buf, from + f + u * (k - 1), u)]
  BY <1>3 DEF TailValue
<1> HIDE DEF f, u, m
<1>5. ASSUME NEW k \in 1 .. m
      PROVE  Value(buf, from + f + u * (k - 1), u) = a[k]
  <2>1. Reads(buf, from + f + u * (k - 1), a[k], u)
    BY DEF Laid, TailLaid, f, u, m
  <2>2. a[k] \in SUBSET (0 .. 7 * u - 1)
    <3>1. \A S : \A q \in Seq(S) : \A i \in 1 .. Len(q) : q[i] \in S
      BY ElementOfSeq
    <3> HIDE DEF a
    <3> QED  BY <1>2, <3>1, Zenon
  <2> HIDE DEF a
  <2>4. /\ u * (k - 1) \in Nat /\ u * (m - k) \in Nat
        /\ u * m = u * (k - 1) + u + u * (m - k)
    <3>1. u \in Nat /\ m \in Nat
      BY <1>1
    <3> QED  BY <3>1, Product
  <2> DEFINE z == u * (k - 1)
             w == u * (m - k)
             v == u * m
  <2>5. z \in Nat /\ w \in Nat /\ v \in Nat /\ v = z + u + w
    BY <1>1, <2>4
  <2>6. from + (f + v) <= Len(buf) /\ Len(buf) \in Nat
    BY <1>1, LenProperties
  <2>7. Reads(buf, from + f + z, a[k], u)
    BY <2>1
  <2> HIDE DEF z, w, v
  <2>8. from + f + z \in Nat /\ (from + f + z) + u <= Len(buf)
    <3>1. f \in Nat /\ u \in Nat
      BY <1>1
    <3> QED  BY <2>5, <2>6, <3>1, Within
  <2>9. Value(buf, from + f + z, u) = a[k]
    BY <1>1, <2>2, <2>7, <2>8, ValueIs
  <2> QED  BY <2>9 DEF z
<1>6. a = [k \in 1 .. m |-> a[k]]
  <2>1. \A S : \A q \in Seq(S) : q = [k \in 1 .. Len(q) |-> q[k]]
    <3>1. ASSUME NEW S, NEW q \in Seq(S)
          PROVE  q = [k \in 1 .. Len(q) |-> q[k]]
      <4>1. q \in [1 .. Len(q) -> S]
        BY LenProperties
      <4> QED  BY <4>1
    <3> QED  BY <3>1
  <2> HIDE DEF a
  <2> QED  BY <1>2, <2>1, Zenon
<1> HIDE DEF a
<1>7. [k \in 1 .. m |-> Value(buf, from + f + u * (k - 1), u)] = [k \in 1 .. m |-> a[k]]
  BY <1>5
<1> QED  BY <1>4, <1>6, <1>7 DEF a

-------------------------------------------------------------------------------
(* The body of a message.                                                        *)

PartsOf(c) == Parts(c.type, c.header.version)

GoodParts(c) ==
  LET parts == PartsOf(c)
  IN  /\ Len(parts) \in {1, 2} /\ DOMAIN parts = 1 .. Len(parts)
      /\ \A i \in 1 .. Len(parts) : IsPart(parts[i]) /\ Holds(c.object, parts[i])

\* Where each of the parts begins, and the length of them all.
PartStart(c, i) == IF i = 1 THEN 0 ELSE PartSize(PartsOf(c)[1], c.object)
BodySize(c) ==
  PartStart(c, Len(PartsOf(c))) + PartSize(PartsOf(c)[Len(PartsOf(c))], c.object)
BodyLaid(c, bytes, from) ==
  \A i \in 1 .. Len(PartsOf(c)) :
    Laid(PartsOf(c)[i], c.object, bytes, from + PartStart(c, i))

\* The parts of a body lie within it, one after the other.
LEMMA BodyTypes ==
  ASSUME NEW c, GoodParts(c)
  PROVE  /\ BodySize(c) \in Nat
         /\ \A i \in 1 .. Len(PartsOf(c)) :
              /\ PartStart(c, i) \in Nat /\ PartSize(PartsOf(c)[i], c.object) \in Nat
              /\ PartStart(c, i) + PartSize(PartsOf(c)[i], c.object) <= BodySize(c)
              /\ FixedSize(PartsOf(c)[i]) \in Nat
              /\ FixedSize(PartsOf(c)[i]) <= PartSize(PartsOf(c)[i], c.object)
<1> DEFINE n == Len(PartsOf(c))
           size(i) == PartSize(PartsOf(c)[i], c.object)
<1>1. n \in {1, 2} /\ \A i \in 1 .. n : IsPart(PartsOf(c)[i]) /\ Holds(c.object, PartsOf(c)[i])
  BY DEF GoodParts
<1>2. \A i \in 1 .. n : /\ size(i) \in Nat /\ FixedSize(PartsOf(c)[i]) \in Nat
                        /\ FixedSize(PartsOf(c)[i]) <= size(i)
  BY <1>1, PartTypes
<1>3. PartStart(c, 1) = 0 /\ PartStart(c, 2) = size(1)
  BY DEF PartStart
<1>4. BodySize(c) = PartStart(c, n) + size(n)
  BY DEF BodySize
<1> HIDE DEF size
<1>5. CASE n = 1
  <2>1. 1 \in 1 .. n /\ \A i \in 1 .. n : i = 1
    BY <1>5
  <2>2. size(1) \in Nat /\ BodySize(c) = 0 + size(1)
    BY <1>2, <1>3, <1>4, <1>5, <2>1
  <2>3. \A x \in Nat : 0 + x \in Nat /\ 0 + x <= 0 + x /\ 0 \in Nat
    OBVIOUS
  <2>4. /\ BodySize(c) \in Nat
        /\ PartStart(c, 1) \in Nat /\ PartStart(c, 1) + size(1) <= BodySize(c)
    BY <1>3, <2>2, <2>3
  <2> HIDE DEF n
  <2> QED  BY <1>2, <2>1, <2>4 DEF n, size
<1>6. CASE n = 2
  <2>1. 1 \in 1 .. n /\ 2 \in 1 .. n /\ \A i \in 1 .. n : i = 1 \/ i = 2
    BY <1>6
  <2>2. size(1) \in Nat /\ size(2) \in Nat /\ BodySize(c) = size(1) + size(2)
    BY <1>2, <1>3, <1>4, <1>6, <2>1
  <2>3. \A x, y \in Nat : x + y \in Nat /\ 0 + x <= x + y /\ x + y <= x + y /\ 0 \in Nat
    OBVIOUS
  <2>4. /\ BodySize(c) \in Nat
        /\ PartStart(c, 1) \in Nat /\ PartStart(c, 1) + size(1) <= BodySize(c)
        /\ PartStart(c, 2) \in Nat /\ PartStart(c, 2) + size(2) <= BodySize(c)
    BY <1>3, <2>2, <2>3
  <2> HIDE DEF n
  <2> QED  BY <1>2, <2>1, <2>4 DEF n, size
<1> QED  BY <1>1, <1>5, <1>6

\* A body that is copied as a whole is found where it was copied to.
LEMMA BodyMoved ==
  ASSUME NEW c, GoodParts(c), NEW a, NEW b, NEW from \in Nat, NEW to \in Nat,
         BodyLaid(c, a, from), \A i \in 1 .. BodySize(c) : b[to + i] = a[from + i]
  PROVE  BodyLaid(c, b, to)
<1> SUFFICES ASSUME NEW i \in 1 .. Len(PartsOf(c))
             PROVE  Laid(PartsOf(c)[i], c.object, b, to + PartStart(c, i))
  BY DEF BodyLaid
<1> DEFINE at == PartStart(c, i)
           p == PartsOf(c)[i]
           size == PartSize(p, c.object)
<1>1. at \in Nat /\ size \in Nat /\ at + size <= BodySize(c) /\ BodySize(c) \in Nat
  BY BodyTypes
<1>2. Laid(p, c.object, a, from + at) /\ IsPart(p) /\ Holds(c.object, p)
  BY DEF BodyLaid, GoodParts
<1>5. \A k \in 1 .. BodySize(c) : b[to + k] = a[from + k]
  OBVIOUS
<1> DEFINE z == BodySize(c)
<1>6. z \in Nat /\ at + size <= z /\ \A k \in 1 .. z : b[to + k] = a[from + k]
  BY <1>1, <1>5
<1> HIDE DEF at, p, size, z
<1>3. \A k \in 1 .. size : b[(to + at) + k] = a[(from + at) + k]
  <2>1. \A k \in 1 .. size : /\ at + k \in 1 .. z
                             /\ to + (at + k) = (to + at) + k /\ from + (at + k) = (from + at) + k
    BY <1>1, <1>6
  <2> QED  BY <1>6, <2>1
<1>4. from + at \in Nat /\ to + at \in Nat
  BY <1>1
<1>7. Laid(p, c.object, b, to + at)
  BY <1>2, <1>3, <1>4, LaidMoved DEF size
<1> QED  BY <1>7 DEF at, p

\* The members of the object made have names; reserved bytes are none of them.
LEMMA MemberNames ==
  ASSUME NEW parts, NEW name \in Members(parts)
  PROVE  name # "" /\ name # "reserved"
BY DEF Members

\* A member is the name of a field or of an array of some part.
LEMMA MemberIs ==
  ASSUME NEW parts, NEW name, name # "", name # "reserved"
  PROVE  name \in Members(parts) <=>
           {i \in DOMAIN parts : name \in FieldNames(parts[i]) \union {parts[i].tail}} # {}
<1> DEFINE Has == {i \in DOMAIN parts : name \in FieldNames(parts[i]) \union {parts[i].tail}}
<1>1. ASSUME name \in Members(parts)
      PROVE  Has # {}
  <2>1. PICK p \in ToSet(parts) : name \in FieldNames(p) \union {p.tail}
    BY <1>1 DEF Members
  <2>2. PICK i \in DOMAIN parts : p = parts[i]
    BY DEF ToSet
  <2>3. i \in Has
    BY <2>1, <2>2
  <2> QED  BY <2>3
<1>2. ASSUME Has # {}
      PROVE  name \in Members(parts)
  <2>1. PICK i \in DOMAIN parts : name \in FieldNames(parts[i]) \union {parts[i].tail}
    BY <1>2
  <2>2. parts[i] \in ToSet(parts)
    BY DEF ToSet
  <2>3. name \in UNION {FieldNames(p) \union {p.tail} : p \in ToSet(parts)}
    BY <2>1, <2>2
  <2> QED  BY <2>3 DEF Members
<1> QED  BY <1>1, <1>2

\* make() of ci_types.hpp: the object that is made of the bytes of a message has the
\* values that were sent, and zero or nothing where its version has no field for them.
LEMMA MadeIs ==
  ASSUME NEW m, m.content.type \in Types, GoodParts(m.content),
         DOMAIN m.content.object = Members(Messages[m.content.type].v2),
         header.version = m.content.header.version,
         NEW buf \in Seq(Septet), BodySize(m.content) <= Len(buf),
         BodyLaid(m.content, buf, 0)
  PROVE  Made(m.content.type, buf) = Told(m)
<1> DEFINE c == m.content
           type == c.type
           parts == PartsOf(c)
           v2 == Messages[type].v2
           At(i) == Start(parts, buf, i)
           Has(name) == {i \in DOMAIN parts : name \in FieldNames(parts[i]) \union {parts[i].tail}}
           Read(name) ==
             IF Has(name) = {} THEN IF name \in Arrays(v2) THEN <<>> ELSE {}
             ELSE LET i == CHOOSE k \in Has(name) : TRUE
                  IN  IF parts[i].tail = name THEN TailValue(parts[i], buf, At(i))
                      ELSE FieldValue(parts[i], buf, At(i), name)
           lost == IF type = "pe_get" THEN {"data"} ELSE {}
           none(n) == IF n \in Arrays(v2) THEN <<>> ELSE {}
           old == Members(parts)
           made(name) == IF type = "pe_get" /\ name = "data" THEN <<>> ELSE Read(name)
           told(name) == IF name \in old \ lost THEN c.object[name] ELSE none(name)
<1>1. Made(type, buf) = [name \in Members(v2) |-> made(name)]
  BY DEF Made, PartsOf
<1>2. Told(m) = [name \in Members(v2) |-> told(name)]
  BY DEF Told, PartsOf
<1>3. /\ Len(parts) \in {1, 2} /\ DOMAIN parts = 1 .. Len(parts)
      /\ \A i \in 1 .. Len(parts) : IsPart(parts[i]) /\ Holds(c.object, parts[i])
      /\ \A i \in 1 .. Len(parts) : Laid(parts[i], c.object, buf, 0 + PartStart(c, i))
  BY DEF GoodParts, BodyLaid
<1>4. /\ Len(buf) \in Nat
      /\ \A i \in 1 .. Len(parts) :
           /\ PartStart(c, i) \in Nat /\ PartSize(parts[i], c.object) \in Nat
           /\ FixedSize(parts[i]) \in Nat
           /\ PartStart(c, i) + PartSize(parts[i], c.object) <= Len(buf)
           /\ PartStart(c, i) + FixedSize(parts[i]) <= Len(buf)
           /\ 0 + PartStart(c, i) = PartStart(c, i)
  <2>1. Len(buf) \in Nat
    BY LenProperties
  <2>2. \A x, y, z, w, f \in Nat : /\ x + y <= z /\ z <= w => x + y <= w
                                   /\ x + y <= z /\ z <= w /\ f <= y => x + f <= w
                                   /\ 0 + x = x
    OBVIOUS
  <2>3. \A i \in 1 .. Len(parts) :
          /\ PartStart(c, i) \in Nat /\ PartSize(parts[i], c.object) \in Nat
          /\ FixedSize(parts[i]) \in Nat
          /\ PartStart(c, i) + PartSize(parts[i], c.object) <= BodySize(c)
          /\ FixedSize(parts[i]) <= PartSize(parts[i], c.object)
    BY BodyTypes
  <2>4. BodySize(c) \in Nat
    BY BodyTypes
  <2> HIDE DEF parts, c
  <2> QED  BY <2>1, <2>2, <2>3, <2>4 DEF c
<1>5. ASSUME NEW i \in 1 .. Len(parts)
      PROVE  At(i) = PartStart(c, i)
  <2>1. CASE i = 1
    BY <2>1 DEF Start, PartStart
  <2>2. CASE i # 1
    <3>1. 1 \in 1 .. Len(parts)
      BY <1>3
    <3>2. /\ IsPart(parts[1]) /\ Holds(c.object, parts[1]) /\ Laid(parts[1], c.object, buf, 0)
          /\ 0 + FixedSize(parts[1]) <= Len(buf)
      BY <1>3, <1>4, <3>1 DEF PartStart
    <3>3. TailSize(parts[1], buf, 0) = parts[1].unit * Elements(parts[1], c.object)
      BY <3>2, LengthIs DEF Laid
    <3> QED  BY <2>2, <3>3 DEF Start, PartStart, PartSize
  <2> QED  BY <2>1, <2>2
<1>6. ASSUME NEW name \in Members(v2), NEW i \in Has(name)
      PROVE  /\ parts[i].tail = name => TailValue(parts[i], buf, At(i)) = c.object[name]
             /\ parts[i].tail # name => FieldValue(parts[i], buf, At(i), name) = c.object[name]
  <2>1. i \in 1 .. Len(parts) /\ name \in FieldNames(parts[i]) \union {parts[i].tail}
    BY <1>3
  <2>2. name # "" /\ name # "reserved"
    BY MemberNames
  <2>3. At(i) = PartStart(c, i)
    BY <1>5, <2>1
  <2>4. /\ IsPart(parts[i]) /\ Holds(c.object, parts[i])
        /\ Laid(parts[i], c.object, buf, PartStart(c, i)) /\ PartStart(c, i) \in Nat
        /\ PartStart(c, i) + PartSize(parts[i], c.object) <= Len(buf)
        /\ PartStart(c, i) + FixedSize(parts[i]) <= Len(buf)
    BY <1>3, <1>4, <2>1
  <2> HIDE DEF parts, c, At
  <2>5. ASSUME parts[i].tail = name
        PROVE  TailValue(parts[i], buf, At(i)) = c.object[name]
    BY <2>2, <2>3, <2>4, <2>5, TailRead
  <2>6. ASSUME parts[i].tail # name
        PROVE  FieldValue(parts[i], buf, At(i), name) = c.object[name]
    <3>1. name \in FieldNames(parts[i])
      BY <2>1, <2>6
    <3>2. HeadLaid(parts[i], c.object, buf, PartStart(c, i))
      BY <2>4 DEF Laid
    <3>3. FieldValue(parts[i], buf, PartStart(c, i), name) = c.object[name]
      BY <2>2, <2>4, <3>1, <3>2, FieldRead
    <3> QED  BY <2>3, <3>3
  <2> QED  BY <2>5, <2>6
<1>7. ASSUME NEW name \in Members(v2)
      PROVE  Read(name) = IF name \in old THEN c.object[name] ELSE none(name)
  <2>1. name # "" /\ name # "reserved"
    BY MemberNames
  <2>2. name \in old <=> Has(name) # {}
    <3> HIDE DEF parts
    <3> QED  BY <2>1, MemberIs
  <2>3. CASE Has(name) = {}
    BY <2>2, <2>3
  <2>4. CASE Has(name) # {}
    <3>1. PICK i \in Has(name) : i = CHOOSE k \in Has(name) : TRUE
      BY <2>4
    <3>2. Read(name) = IF parts[i].tail = name THEN TailValue(parts[i], buf, At(i))
                       ELSE FieldValue(parts[i], buf, At(i), name)
      <4> HIDE DEF Has, At, parts
      <4> QED  BY <2>4, <3>1
    <3>3. Read(name) = c.object[name]
      <4> HIDE DEF Has, At, parts, Read, c
      <4> QED  BY <1>6, <3>2
    <3> HIDE DEF Read, Has
    <3> QED  BY <2>2, <2>4, <3>3
  <2> QED  BY <2>3, <2>4
<1>8. ASSUME type = "pe_get"
      PROVE  "data" \in Arrays(v2)
  <2>1. type \in PropertyExchange
    BY <1>8 DEF PropertyExchange
  <2>2. PICK f, g : v2 = <<Counted(f, "header", 1), Counted(g, "data", 1)>>
    BY <2>1, ExchangeAre
  <2>3. v2[2].tail = "data" /\ 2 \in DOMAIN v2
    BY <2>2 DEF Counted
  <2>4. "data" \in {p.tail : p \in ToSet(v2)}
    <3> HIDE DEF v2
    <3> QED  BY <2>3 DEF ToSet
  <2> QED  BY <2>4 DEF Arrays
<1> HIDE DEF Read, old, none, v2, type, c
<1>9. ASSUME NEW name \in Members(v2)
      PROVE  made(name) = told(name)
  <2>1. CASE type = "pe_get" /\ name = "data"
    <3>1. none(name) = <<>>
      BY <1>8, <2>1 DEF none
    <3> QED  BY <2>1, <3>1
  <2>2. CASE ~ (type = "pe_get" /\ name = "data")
    <3>1. name \notin lost
      BY <2>2
    <3> QED  BY <1>7, <2>2, <3>1
  <2> QED  BY <2>1, <2>2
<1> HIDE DEF made, told
<1>10. [name \in Members(v2) |-> made(name)] = [name \in Members(v2) |-> told(name)]
  BY <1>9
<1>11. Made(type, buf) = Told(m)
  BY <1>1, <1>2, <1>10
<1> QED  BY <1>11 DEF type, c

-------------------------------------------------------------------------------
(* The forms that the messages have.                                             *)

\* Fields, fields and an array, or two arrays: the consumers that expect them.
Simple(c) ==
  /\ c.type \in Single \union ProcessInquiry \union {"profile_inquiry"}
  /\ \E p : IsPart(p) /\ p.tail = "" /\ PartsOf(c) = <<p>>
              /\ (c.type \in Single => FixedSize(p) # 0)
Tailed(c) ==
  /\ c.type \in WithArray
  /\ \E p : IsPart(p) /\ p.tail # "" /\ PartsOf(c) = <<p>>
Paired(c) ==
  /\ c.type \in PropertyExchange \union {"profile_inquiry_reply"}
  /\ \E p, q : IsPart(p) /\ p.tail # "" /\ IsPart(q) /\ q.tail # "" /\ PartsOf(c) = <<p, q>>
                 /\ (c.type = "profile_inquiry_reply" => Elements(p, c.object) # 0)

\* A part of fields alone has a length of none only if it has no fields.
LEMMA FixedPart ==
  ASSUME NEW fields \in Seq(Field)
  PROVE  /\ IsPart(Fixed(fields)) /\ Fixed(fields).tail = ""
         /\ FixedSize(Fixed(fields)) = SizeOf(fields)
         /\ fields # <<>> => FixedSize(Fixed(fields)) # 0
         /\ fields = <<>> => FixedSize(Fixed(fields)) = 0
<1>1. Fixed(fields).fields = fields /\ Fixed(fields).tail = "" /\ Fixed(fields).unit = 0
  BY DEF Fixed
<1>2. IsPart(Fixed(fields))
  <2>1. 0 \in Nat
    OBVIOUS
  <2> QED  BY <1>1, <2>1, Zenon DEF IsPart
<1>3. SizeOf(fields) \in Nat
  BY FieldTypes
<1>4. FixedSize(Fixed(fields)) = SizeOf(fields)
  BY <1>1, <1>3, FixedIs
<1>5. ASSUME fields # <<>>
      PROVE  SizeOf(fields) # 0
  <2>1. Len(fields) \in Nat /\ Len(fields) # 0
    BY <1>5
  <2>2. 1 \in 1 .. Len(fields)
    BY <2>1
  <2>3. /\ Sizes(fields)[1 - 1] \in Nat /\ fields[1].size \in Nat \ {0}
        /\ Sizes(fields)[1 - 1] + fields[1].size <= SizeOf(fields)
    BY <2>2, FieldTypes
  <2>4. \A x \in Nat, y \in Nat \ {0}, z \in Nat : x + y <= z => z # 0
    OBVIOUS
  <2> QED  BY <1>3, <2>3, <2>4, Zenon
<1>6. ASSUME fields = <<>>
      PROVE  SizeOf(fields) = 0
  <2>1. Len(fields) = 0
    BY <1>6
  <2>2. Sized(fields, Sizes(fields))
    BY FieldTypes
  <2>3. Sizes(fields)[0] = 0
    BY <2>2 DEF Sized
  <2> QED  BY <2>1, <2>3 DEF SizeOf
<1> QED  BY <1>1, <1>2, <1>4, <1>5, <1>6

\* A part with an array, of elements of any size.
LEMMA CountedPart ==
  \A fields \in Seq(Field), unit \in Nat \ {0} : \A tail :
    tail # "" =>
      IsPart(Counted(fields, tail, unit)) /\ Counted(fields, tail, unit).tail = tail
BY DEF Counted, IsPart

\* The elements of the arrays: bytes and profile identifiers.
LEMMA Units ==
  \A unit \in {1, 5} : unit \in Nat \ {0}
OBVIOUS

\* A part with an array of bytes or of profile identifiers.
LEMMA CountedUnits ==
  ASSUME NEW fields \in Seq(Field), NEW tail, tail # ""
  PROVE  \A unit \in {1, 5} :
           IsPart(Counted(fields, tail, unit)) /\ Counted(fields, tail, unit).tail = tail
BY Units, CountedPart, Zenon

\* The two bytes of the length of an array.
LEMMA TwoMore ==
  \A x \in Nat : x + 2 \in Nat \ {0}
OBVIOUS

\* A part with an array has at least the bytes of the length.
LEMMA TailedSize ==
  ASSUME NEW p, IsPart(p), p.tail # ""
  PROVE  FixedSize(p) \in Nat \ {0}
<1>1. SizeOf(p.fields) \in Nat
  BY FieldTypes DEF IsPart
<1>2. FixedSize(p) = IF p.tail = "" THEN SizeOf(p.fields) ELSE SizeOf(p.fields) + 2
  BY <1>1, FixedIs
<1>3. FixedSize(p) = SizeOf(p.fields) + 2
  BY <1>2, Zenon
<1> QED  BY <1>1, <1>3, TwoMore, Zenon

\* Every message that can be sent has one of the three forms.
LEMMA Forms ==
  ASSUME NEW c, IsMessage(c), PartsOf(c) # NotAvailable
  PROVE  Simple(c) \/ Tailed(c) \/ Paired(c)
<1> DEFINE t == c.type
           v == c.header.version
<1>1. t \in Types /\ (t = "nak" => v # 1)
  BY DEF IsMessage
<1>2. PartsOf(c) = IF v = 1 THEN Messages[t].v1 ELSE Messages[t].v2
  BY DEF PartsOf, Parts
<1> HIDE DEF t, v
<1>3. ASSUME t \in Single
      PROVE  Simple(c)
  <2>1. OneFixed(PartsOf(c))
    BY <1>2, <1>3, SingleAre
  <2>2. PICK fields \in Seq(Field) : fields # <<>> /\ PartsOf(c) = <<Fixed(fields)>>
    BY <2>1 DEF OneFixed
  <2> QED  BY <1>3, <2>2, FixedPart DEF Simple, t
<1>4. ASSUME t \in WithArray
      PROVE  Tailed(c)
  <2>1. OneCounted(PartsOf(c))
    BY <1>1, <1>2, <1>4, WithArrayAre
  <2>2. PICK fields \in Seq(Field), unit \in Nat \ {0} : \E tail :
          tail # "" /\ PartsOf(c) = <<Counted(fields, tail, unit)>>
    BY <2>1 DEF OneCounted
  <2>3. PICK tail : tail # "" /\ PartsOf(c) = <<Counted(fields, tail, unit)>>
    BY <2>2
  <2>4. /\ IsPart(Counted(fields, tail, unit))
        /\ Counted(fields, tail, unit).tail = tail
    BY <2>3, CountedPart
  <2> QED  BY <1>4, <2>3, <2>4 DEF Tailed, t
<1>5. ASSUME t \in ProcessInquiry
      PROVE  Simple(c)
  <2>1. PartsOf(c) = Parts(t, v)
    BY DEF PartsOf, t, v
  <2>2. PICK fields \in Seq(Field) : PartsOf(c) = <<Fixed(fields)>>
    BY <1>5, <2>1, InquiryAre
  <2>3. t \notin Single
    BY <1>5, ClassesApart
  <2> QED  BY <1>5, <2>2, <2>3, FixedPart DEF Simple, t
<1>6. ASSUME t = "profile_inquiry"
      PROVE  Simple(c)
  <2>1. PartsOf(c) = <<Fixed(<<>>)>> /\ <<>> \in Seq(Field)
    BY <1>2, <1>6, ProfilesAre
  <2>2. t \notin Single
    BY <1>6, ClassesApart
  <2> QED  BY <1>6, <2>1, <2>2, FixedPart DEF Simple, t
<1>7. ASSUME t \in PropertyExchange
      PROVE  Paired(c)
  <2>1. PICK f, g : /\ IsList(f) /\ IsList(g)
                    /\ Messages[t].v2 = <<Counted(f, "header", 1), Counted(g, "data", 1)>>
                    /\ Messages[t].v1 = Messages[t].v2
    BY <1>7, ExchangeAre
  <2> DEFINE p == Counted(f, "header", 1)
             q == Counted(g, "data", 1)
  <2>2. /\ IsPart(p) /\ p.tail # "" /\ IsPart(q) /\ q.tail # ""
    <3>1. f \in Seq(Field) /\ g \in Seq(Field) /\ 1 \in {1, 5}
      BY <2>1 DEF IsList
    <3>2. IsPart(p) /\ p.tail = "header"
      <4>1. "header" # ""
        OBVIOUS
      <4> QED  BY <3>1, <4>1, CountedUnits
    <3>3. IsPart(q) /\ q.tail = "data"
      <4>1. "data" # ""
        OBVIOUS
      <4> QED  BY <3>1, <4>1, CountedUnits
    <3> HIDE DEF p, q
    <3> QED  BY <3>2, <3>3
  <2>3. PartsOf(c) = <<p, q>>
    BY <1>2, <2>1
  <2>4. t # "profile_inquiry_reply"
    BY <1>7, ClassesApart
  <2> HIDE DEF p, q
  <2> QED  BY <1>7, <2>2, <2>3, <2>4 DEF Paired, t
<1>8. ASSUME t = "profile_inquiry_reply"
      PROVE  Paired(c)
  <2> DEFINE p == Counted(<<>>, "enabled", 5)
             q == Counted(<<>>, "disabled", 5)
  <2>1. PartsOf(c) = <<p, q>>
    BY <1>2, <1>8, ProfilesAre
  <2>2. IsPart(p) /\ p.tail = "enabled" /\ IsPart(q) /\ q.tail # ""
    <3>1. <<>> \in Seq(Field) /\ 5 \in {1, 5}
      OBVIOUS
    <3>2. IsPart(p) /\ p.tail = "enabled"
      <4>1. "enabled" # ""
        OBVIOUS
      <4> QED  BY <3>1, <4>1, CountedUnits
    <3>3. IsPart(q) /\ q.tail = "disabled"
      <4>1. "disabled" # ""
        OBVIOUS
      <4> QED  BY <3>1, <4>1, CountedUnits
    <3> HIDE DEF p, q
    <3> QED  BY <3>2, <3>3
  <2>3. Holds(c.object, p) /\ c.object["enabled"] # <<>>
    <3>1. 1 \in DOMAIN PartsOf(c) /\ PartsOf(c)[1] = p
      BY <2>1
    <3> HIDE DEF p
    <3> QED  BY <1>8, <3>1 DEF IsMessage, PartsOf, t
  <2> HIDE DEF p, q
  <2>4. Elements(p, c.object) # 0
    <3>1. /\ c.object["enabled"] \in Seq(SUBSET (0 .. 7 * p.unit - 1))
          /\ Elements(p, c.object) = Len(c.object["enabled"])
      <4>1. p.tail # ""
        BY <2>2
      <4> QED  BY <2>2, <2>3, <4>1, ArrayTypes
    <3> QED  BY <2>3, <3>1, EmptySeq
  <2> QED  BY <1>8, <2>1, <2>2, <2>4 DEF Paired, t
<1> QED  BY <1>1, <1>3, <1>4, <1>5, <1>6, <1>7, <1>8, TypesAre

\* The parts of a message that can be sent hold its object.
LEMMA GoodIs ==
  ASSUME NEW c, IsMessage(c), PartsOf(c) # NotAvailable
  PROVE  GoodParts(c)
<1>1. \A i \in DOMAIN PartsOf(c) : Holds(c.object, PartsOf(c)[i])
  BY DEF IsMessage, PartsOf
<1>2. ASSUME NEW p, IsPart(p), PartsOf(c) = <<p>>
      PROVE  GoodParts(c)
  BY <1>1, <1>2 DEF GoodParts
<1>3. ASSUME NEW p, NEW q, IsPart(p), IsPart(q), PartsOf(c) = <<p, q>>
      PROVE  GoodParts(c)
  BY <1>1, <1>3 DEF GoodParts
<1> QED  BY <1>2, <1>3, Forms DEF Simple, Tailed, Paired

-------------------------------------------------------------------------------
(* The places in the body of a message at which its consumer is called.          *)

Ends(c) ==
  {PartStart(c, i) + FixedSize(PartsOf(c)[i]) : i \in 1 .. Len(PartsOf(c))}
    \union {BodySize(c)}
    \union (IF c.type \in PropertyExchange THEN {PartStart(c, 2)} ELSE {})

\* The bytes that have arrived of the body are those that were sent.
Arrived(c, bytes, from, buf, n) ==
  BodyLaid(c, bytes, from) /\ \A i \in 1 .. n : buf[i] = bytes[from + i]

\* The lengths are read from what has arrived as soon as the bytes before the arrays
\* have, whatever follows them in the buffer.
LEMMA Lengths ==
  ASSUME NEW c, GoodParts(c), NEW bytes, NEW from \in Nat, NEW buf \in Seq(Septet),
         NEW e \in Nat, e <= Len(buf), Arrived(c, bytes, from, buf, e),
         NEW i \in 1 .. Len(PartsOf(c)), PartStart(c, i) + FixedSize(PartsOf(c)[i]) <= e
  PROVE  LET p == PartsOf(c)[i]
         IN  /\ Length(p, buf, PartStart(c, i)) = Elements(p, c.object)
             /\ TailSize(p, buf, PartStart(c, i)) = p.unit * Elements(p, c.object)
<1> DEFINE p == PartsOf(c)[i]
           at == PartStart(c, i)
           f == FixedSize(p)
<1>1. at \in Nat /\ f \in Nat /\ at + f <= e
  BY BodyTypes
<1>2. IsPart(p) /\ Holds(c.object, p) /\ HeadLaid(p, c.object, bytes, from + at)
  BY DEF GoodParts, Arrived, BodyLaid, Laid
<1>3. Len(buf) \in Nat
  BY LenProperties
<1>4. \A k \in 1 .. e : buf[k] = bytes[from + k]
  BY DEF Arrived
<1> HIDE DEF p, at, f
<1>5. \A k \in 1 .. f : buf[at + k] = bytes[(from + at) + k]
  <2>1. \A k \in 1 .. f : at + k \in 1 .. e /\ from + (at + k) = (from + at) + k
    BY <1>1
  <2> QED  BY <1>4, <2>1
<1>6. from + at \in Nat /\ at + f <= Len(buf)
  BY <1>1, <1>3
<1>7. HeadLaid(p, c.object, buf, at)
  BY <1>1, <1>2, <1>5, <1>6, HeadMoved DEF f
<1>8. /\ Length(p, buf, at) = Elements(p, c.object)
      /\ TailSize(p, buf, at) = p.unit * Elements(p, c.object)
  BY <1>1, <1>2, <1>6, <1>7, LengthIs DEF f
<1> QED  BY <1>8 DEF p, at

\* A sequence of one element.
LEMMA OneElement ==
  \A s, p : s = <<p>> => Len(s) = 1 /\ s[1] = p /\ 1 \in 1 .. Len(s)
OBVIOUS

\* A sequence of two elements.
LEMMA TwoElements ==
  \A s, p, q : s = <<p, q>> =>
    Len(s) = 2 /\ s[1] = p /\ s[2] = q /\ 1 \in 1 .. Len(s) /\ 2 \in 1 .. Len(s)
OBVIOUS

\* An array of no elements has no bytes.
LEMMA NothingMore ==
  \A x, u \in Nat : x + u * 0 = x
OBVIOUS

\* A part without an array.
LEMMA PlainStage ==
  ASSUME NEW c, GoodParts(c), Simple(c), NEW e \in Ends(c), NEW buf,
         consumer = c.type, Consume(buf, e)
  PROVE  /\ e = BodySize(c)
         /\ IF c.type \in ProcessInquiry THEN HandleInquiry(buf, e) ELSE Handle(buf, e)
<1>1. PICK p : IsPart(p) /\ p.tail = "" /\ PartsOf(c) = <<p>>
  BY DEF Simple
<1>2. Len(PartsOf(c)) = 1 /\ PartsOf(c)[1] = p /\ Holds(c.object, p)
  <2>1. Len(PartsOf(c)) = 1 /\ PartsOf(c)[1] = p /\ 1 \in 1 .. Len(PartsOf(c))
    BY <1>1, OneElement, Zenon
  <2> QED  BY <2>1 DEF GoodParts
<1>3. FixedSize(p) \in Nat /\ PartSize(p, c.object) = FixedSize(p)
  <2>1. Elements(p, c.object) = 0
    BY <1>1 DEF Elements
  <2>2. FixedSize(p) \in Nat /\ p.unit \in Nat
    BY <1>1, <1>2, PartTypes DEF IsPart
  <2>3. FixedSize(p) + p.unit * 0 = FixedSize(p)
    BY <2>2, NothingMore
  <2> QED  BY <2>1, <2>2, <2>3 DEF PartSize
<1>4. c.type \notin PropertyExchange /\ c.type \notin WithArray /\ c.type # "header"
      /\ c.type # "discard" /\ c.type # "profile_inquiry_reply"
  BY ClassesApart DEF Simple
<1>5. PartStart(c, 1) = 0 /\ BodySize(c) = 0 + FixedSize(p)
  BY <1>2, <1>3 DEF PartStart, BodySize
<1>6. Ends(c) = {0 + FixedSize(p)}
  <2>1. \A i \in 1 .. 1 : i = 1
    OBVIOUS
  <2>2. 1 \in 1 .. 1
    OBVIOUS
  <2>3. {PartStart(c, i) + FixedSize(PartsOf(c)[i]) : i \in 1 .. 1} = {0 + FixedSize(p)}
    BY <1>2, <1>5, <2>1, <2>2
  <2> QED  BY <1>2, <1>4, <1>5, <2>3 DEF Ends
<1>7. IF c.type \in ProcessInquiry THEN HandleInquiry(buf, e) ELSE Handle(buf, e)
  <2>1. c.type \in Single => c.type \notin ProcessInquiry
    BY ClassesApart
  <2> QED  BY <1>4, <2>1, Zenon DEF Consume
<1> QED  BY <1>5, <1>6, <1>7

\* A part with an array.
LEMMA TailedStage ==
  ASSUME NEW c, GoodParts(c), Tailed(c), NEW bytes, NEW from \in Nat,
         NEW buf \in Seq(Septet), NEW e \in Ends(c), e <= Len(buf),
         Arrived(c, bytes, from, buf, e),
         consumer = c.type, header.version = c.header.version, Consume(buf, e)
  PROVE  \/ e = BodySize(c) /\ Handle(buf, e)
         \/ \E n \in Nat \ {0} : e + n \in Ends(c) /\ Await(n, buf, e)
<1>1. PICK p : IsPart(p) /\ p.tail # "" /\ PartsOf(c) = <<p>>
  BY DEF Tailed
<1>2. Len(PartsOf(c)) = 1 /\ PartsOf(c)[1] = p /\ Holds(c.object, p) /\ 1 \in 1 .. Len(PartsOf(c))
  <2>1. Len(PartsOf(c)) = 1 /\ PartsOf(c)[1] = p /\ 1 \in 1 .. Len(PartsOf(c))
    BY <1>1, OneElement, Zenon
  <2> QED  BY <2>1 DEF GoodParts
<1> DEFINE f == FixedSize(p)
           n == Elements(p, c.object)
           t == p.unit * n
<1>3. f \in Nat /\ n \in Nat /\ p.unit \in Nat \ {0} /\ t \in Nat /\ (n > 0 <=> t > 0)
  <2>1. f \in Nat /\ n \in Nat /\ p.unit \in Nat \ {0}
    BY <1>1, <1>2, PartTypes, LengthsAre DEF IsPart
  <2>2. \A x \in Nat \ {0}, y \in Nat : x * y \in Nat /\ (y > 0 <=> x * y > 0)
    OBVIOUS
  <2> HIDE DEF n, f
  <2> QED  BY <2>1, <2>2
<1>4. c.type \in WithArray /\ c.type \notin PropertyExchange
  BY ClassesApart DEF Tailed
<1>5. PartStart(c, 1) = 0 /\ BodySize(c) = 0 + (f + t)
  BY <1>2 DEF PartStart, BodySize, PartSize
<1>6. Ends(c) = {0 + f, 0 + (f + t)}
  <2>1. \A i \in 1 .. 1 : i = 1
    OBVIOUS
  <2>2. 1 \in 1 .. 1
    OBVIOUS
  <2>3. {PartStart(c, i) + FixedSize(PartsOf(c)[i]) : i \in 1 .. 1} = {0 + f}
    BY <1>2, <1>5, <2>1, <2>2
  <2> QED  BY <1>2, <1>4, <1>5, <2>3 DEF Ends
<1>7. ConsumeArray(buf, e)
  <2>1. /\ c.type \notin Single /\ c.type \notin ProcessInquiry /\ c.type # "header"
        /\ c.type # "discard" /\ c.type # "profile_inquiry_reply"
    BY <1>4, ClassesApart
  <2> QED  BY <1>4, <2>1 DEF Consume
<1>8. Parts(consumer, header.version)[1] = p
  BY <1>2 DEF PartsOf
<1>9. Length(p, buf, 0) = n /\ TailSize(p, buf, 0) = t
  <2> HIDE DEF f, n, t
  <2>1. e \in Nat /\ 0 + f <= e
    BY <1>3, <1>6
  <2>2. PartStart(c, 1) + FixedSize(PartsOf(c)[1]) <= e
    BY <1>2, <1>5, <2>1 DEF f
  <2> QED  BY <1>2, <1>5, <2>1, <2>2, Lengths DEF n, t
<1>10. IF e = f /\ n > 0 THEN Await(t, buf, e) ELSE Handle(buf, e)
  BY <1>7, <1>8, <1>9 DEF ConsumeArray
<1> HIDE DEF f, n, t
<1>11. CASE e = f /\ n > 0
  <2>1. t \in Nat \ {0} /\ e + t = 0 + (f + t)
    BY <1>3, <1>11
  <2> QED  BY <1>6, <1>10, <1>11, <2>1
<1>12. CASE ~ (e = f /\ n > 0)
  <2>1. e = 0 + (f + t)
    BY <1>3, <1>6, <1>12
  <2> QED  BY <1>5, <1>10, <1>12, <2>1
<1> QED  BY <1>11, <1>12

\* Arithmetic of two parts: the fields and the arrays of the first and the second.
LEMMA TwoParts ==
  ASSUME NEW f \in Nat \ {0}, NEW t \in Nat, NEW g \in Nat \ {0}, NEW u \in Nat
  PROVE  /\ 0 + f = f /\ 0 + f <= f
         /\ f + (t + g) = (f + t) + g
         /\ (f + t) + g + u = (f + t) + (g + u)
         /\ f + t # f + t + g /\ f # (f + t) + g /\ f # (f + t) + (g + u)
         /\ f + t # (f + t) + (g + u)
         /\ (f + t = f <=> t = 0)
         /\ ((f + t) + (g + u) = (f + t) + g <=> u = 0)
         /\ t + g \in Nat \ {0}
         /\ f + t \in Nat /\ (f + t) + g \in Nat /\ (f + t) + (g + u) \in Nat
         /\ f <= f + t /\ f <= (f + t) + g /\ f <= (f + t) + (g + u)
         /\ (f + t) + g <= (f + t) + (g + u)
         /\ (u > 0 <=> u # 0) /\ (t > 0 <=> t # 0)
OBVIOUS

\* The decisions of the consumers of two parts, in terms of the ends.
LEMMA Profiles ==
  ASSUME NEW f \in Nat \ {0}, NEW t \in Nat, NEW g \in Nat \ {0}, NEW u \in Nat, t # 0,
         NEW e \in {f, (f + t) + g, (f + t) + (g + u)}
  PROVE  /\ e = f => e + (t + g) \in {f, (f + t) + g, (f + t) + (g + u)}
         /\ e = (f + t) + g => e + u \in {f, (f + t) + g, (f + t) + (g + u)}
         /\ e # f /\ ~ (u # 0 /\ e = (f + t) + g) => e = (f + t) + (g + u)
BY TwoParts

\* The same for the two parts of a property exchange message.
LEMMA Exchanges ==
  ASSUME NEW f \in Nat \ {0}, NEW t \in Nat, NEW g \in Nat \ {0}, NEW u \in Nat,
         NEW e \in {f, f + t, (f + t) + g, (f + t) + (g + u)}
  PROVE  /\ e = f /\ t # 0 => e + t \in {f, f + t, (f + t) + g, (f + t) + (g + u)}
         /\ e = f + t => e + g \in {f, f + t, (f + t) + g, (f + t) + (g + u)}
         /\ e = (f + t) + g => e + u \in {f, f + t, (f + t) + g, (f + t) + (g + u)}
         /\ ~ (e = f /\ t # 0) /\ e # f + t /\ ~ (e = (f + t) + g /\ u # 0)
              => e = (f + t) + (g + u)
BY TwoParts

\* Two parts with arrays.
LEMMA PairedStage ==
  ASSUME NEW c, GoodParts(c), Paired(c), NEW bytes, NEW from \in Nat,
         NEW buf \in Seq(Septet), NEW e \in Ends(c), e <= Len(buf),
         Arrived(c, bytes, from, buf, e),
         consumer = c.type, header.version = c.header.version, Consume(buf, e)
  PROVE  \/ e = BodySize(c) /\ Handle(buf, e)
         \/ \E n \in Nat \ {0} : e + n \in Ends(c) /\ Await(n, buf, e)
<1>1. PICK p, q : /\ IsPart(p) /\ p.tail # "" /\ IsPart(q) /\ q.tail # ""
                  /\ PartsOf(c) = <<p, q>>
                  /\ c.type = "profile_inquiry_reply" => Elements(p, c.object) # 0
  BY DEF Paired
<1>2. /\ Len(PartsOf(c)) = 2 /\ PartsOf(c)[1] = p /\ PartsOf(c)[2] = q
      /\ 1 \in 1 .. Len(PartsOf(c)) /\ 2 \in 1 .. Len(PartsOf(c))
      /\ Holds(c.object, p) /\ Holds(c.object, q)
  <2>1. /\ Len(PartsOf(c)) = 2 /\ PartsOf(c)[1] = p /\ PartsOf(c)[2] = q
        /\ 1 \in 1 .. Len(PartsOf(c)) /\ 2 \in 1 .. Len(PartsOf(c))
    BY <1>1, TwoElements, Zenon
  <2> QED  BY <2>1 DEF GoodParts
<1> DEFINE f == FixedSize(p)
           m == Elements(p, c.object)
           t == p.unit * m
           g == FixedSize(q)
           n == Elements(q, c.object)
           u == q.unit * n
<1>3. /\ f \in Nat \ {0} /\ t \in Nat /\ g \in Nat \ {0} /\ u \in Nat
      /\ m \in Nat /\ n \in Nat /\ (m > 0 <=> t # 0) /\ (n > 0 <=> u # 0) /\ (m # 0 <=> t # 0)
  <2>1. /\ f \in Nat \ {0} /\ m \in Nat /\ p.unit \in Nat \ {0}
        /\ g \in Nat \ {0} /\ n \in Nat /\ q.unit \in Nat \ {0}
    BY <1>1, <1>2, PartTypes, TailedSize, LengthsAre DEF IsPart
  <2>2. \A x \in Nat \ {0}, y \in Nat : /\ x * y \in Nat /\ (y > 0 <=> x * y # 0)
                                        /\ (y # 0 <=> x * y # 0)
    OBVIOUS
  <2> HIDE DEF n, f, m, g
  <2> QED  BY <2>1, <2>2
<1>4. PartStart(c, 1) = 0 /\ PartStart(c, 2) = f + t /\ BodySize(c) = (f + t) + (g + u)
  BY <1>2 DEF PartStart, BodySize, PartSize
<1>5. Ends(c) = IF c.type \in PropertyExchange THEN {f, f + t, (f + t) + g, (f + t) + (g + u)}
                ELSE {f, (f + t) + g, (f + t) + (g + u)}
  <2>1. \A i \in 1 .. 2 : i = 1 \/ i = 2
    OBVIOUS
  <2>2. 1 \in 1 .. 2 /\ 2 \in 1 .. 2
    OBVIOUS
  <2>3. 0 + f = f
    BY <1>3
  <2>4. {PartStart(c, i) + FixedSize(PartsOf(c)[i]) : i \in 1 .. 2} = {f, (f + t) + g}
    <3> HIDE DEF t
    <3> QED  BY <1>2, <1>4, <2>1, <2>2, <2>3
  <2>5. Ends(c) = {f, (f + t) + g} \union {(f + t) + (g + u)}
                    \union (IF c.type \in PropertyExchange THEN {f + t} ELSE {})
    BY <1>2, <1>4, <2>4 DEF Ends
  <2> HIDE DEF f, t, g, u
  <2> QED  BY <2>5
<1>6. Parts(consumer, header.version) = <<p, q>>
  BY <1>1 DEF PartsOf
<1> HIDE DEF f, t, g, u, m, n
<1>7. e \in Nat /\ f <= e
  BY <1>3, <1>5, TwoParts
<1>8. Length(p, buf, 0) = m /\ TailSize(p, buf, 0) = t
  <2>1. PartStart(c, 1) + FixedSize(PartsOf(c)[1]) <= e
    BY <1>2, <1>3, <1>4, <1>7 DEF f
  <2>2. /\ Length(p, buf, PartStart(c, 1)) = m
        /\ TailSize(p, buf, PartStart(c, 1)) = t
    BY <1>2, <1>7, <2>1, Lengths DEF m, t
  <2> QED  BY <1>4, <2>2
<1>9. Start(<<p, q>>, buf, 2) = f + t
  BY <1>8 DEF Start, f
<1>10. ASSUME (f + t) + g <= e
       PROVE  Length(q, buf, f + t) = n /\ TailSize(q, buf, f + t) = u
  <2>1. PartStart(c, 2) + FixedSize(PartsOf(c)[2]) <= e
    BY <1>2, <1>4, <1>10 DEF g
  <2>2. /\ Length(q, buf, PartStart(c, 2)) = n
        /\ TailSize(q, buf, PartStart(c, 2)) = u
    BY <1>2, <1>7, <2>1, Lengths DEF n, u
  <2> QED  BY <1>4, <2>2
<1>11. e = (f + t) + g => Length(q, buf, f + t) = n /\ TailSize(q, buf, f + t) = u
  <2>1. \A x \in Nat : x <= x
    OBVIOUS
  <2> QED  BY <1>7, <1>10, <2>1
<1>12. CASE c.type = "profile_inquiry_reply"
  <2>1. /\ c.type \notin Single /\ c.type \notin ProcessInquiry /\ c.type \notin WithArray
        /\ c.type \notin PropertyExchange /\ c.type # "header" /\ c.type # "discard"
    BY <1>12, ClassesApart
  <2>2. ConsumeProfiles(buf, e)
    BY <1>12, <2>1, Zenon DEF Consume
  <2>3. t # 0 /\ e \in {f, (f + t) + g, (f + t) + (g + u)}
        /\ Ends(c) = {f, (f + t) + g, (f + t) + (g + u)}
    BY <1>1, <1>3, <1>5, <1>12, <2>1 DEF m
  <2>4. IF m > 0 /\ e = f THEN Await(t + g, buf, e)
        ELSE IF Length(q, buf, f + t) > 0 /\ e = (f + t) + g
        THEN Await(TailSize(q, buf, f + t), buf, e)
        ELSE Handle(buf, e)
    BY <1>6, <1>8, <1>9, <2>2 DEF ConsumeProfiles, f, g
  <2>5. CASE e = f
    <3>1. Await(t + g, buf, e)
      BY <1>3, <2>3, <2>4, <2>5
    <3>2. t + g \in Nat \ {0} /\ e + (t + g) \in Ends(c)
      BY <1>3, <2>3, <2>5, TwoParts, Profiles
    <3> QED  BY <3>1, <3>2
  <2>6. CASE e # f /\ u # 0 /\ e = (f + t) + g
    <3>1. Await(u, buf, e)
      BY <1>3, <1>11, <2>4, <2>6
    <3>2. u \in Nat \ {0} /\ e + u \in Ends(c)
      BY <1>3, <2>3, <2>6, Profiles
    <3> QED  BY <3>1, <3>2
  <2>7. CASE e # f /\ ~ (u # 0 /\ e = (f + t) + g)
    <3>1. Handle(buf, e)
      BY <1>3, <1>11, <2>4, <2>7
    <3>2. e = (f + t) + (g + u)
      BY <1>3, <2>3, <2>7, Profiles
    <3> QED  BY <1>4, <3>1, <3>2
  <2> QED  BY <2>5, <2>6, <2>7
<1>13. CASE c.type \in PropertyExchange
  <2>1. /\ c.type \notin Single /\ c.type \notin ProcessInquiry /\ c.type \notin WithArray
        /\ c.type # "profile_inquiry_reply" /\ c.type # "header" /\ c.type # "discard"
    BY <1>13, ClassesApart
  <2>2. ConsumeExchange(buf, e)
    BY <1>13, <2>1, Zenon DEF Consume
  <2>3. /\ e \in {f, f + t, (f + t) + g, (f + t) + (g + u)}
        /\ Ends(c) = {f, f + t, (f + t) + g, (f + t) + (g + u)}
    BY <1>5, <1>13
  <2>4. IF e = f /\ m > 0 THEN Await(t, buf, e)
        ELSE IF e = f + t THEN Await(g, buf, e)
        ELSE IF e = (f + t) + g /\ Length(q, buf, f + t) > 0
        THEN Await(TailSize(q, buf, f + t), buf, e)
        ELSE Handle(buf, e)
    BY <1>6, <1>8, <1>9, <2>2 DEF ConsumeExchange, f, g
  <2>5. CASE e = f /\ t # 0
    <3>1. Await(t, buf, e)
      BY <1>3, <2>4, <2>5
    <3>2. t \in Nat \ {0} /\ e + t \in Ends(c)
      BY <1>3, <2>3, <2>5, Exchanges
    <3> QED  BY <3>1, <3>2
  <2>6. CASE ~ (e = f /\ t # 0) /\ e = f + t
    <3>1. Await(g, buf, e)
      BY <1>3, <2>4, <2>6
    <3>2. g \in Nat \ {0} /\ e + g \in Ends(c)
      BY <1>3, <2>3, <2>6, Exchanges
    <3> QED  BY <3>1, <3>2
  <2>7. CASE ~ (e = f /\ t # 0) /\ e # f + t /\ e = (f + t) + g /\ u # 0
    <3>1. Await(u, buf, e)
      BY <1>3, <1>11, <2>4, <2>7
    <3>2. u \in Nat \ {0} /\ e + u \in Ends(c)
      BY <1>3, <2>3, <2>7, Exchanges
    <3> QED  BY <3>1, <3>2
  <2>8. CASE ~ (e = f /\ t # 0) /\ e # f + t /\ ~ (e = (f + t) + g /\ u # 0)
    <3>1. Handle(buf, e)
      BY <1>3, <1>11, <2>4, <2>8
    <3>2. e = (f + t) + (g + u)
      BY <1>3, <2>3, <2>8, Exchanges
    <3> QED  BY <1>4, <3>1, <3>2
  <2> QED  BY <2>5, <2>6, <2>7, <2>8
<1> QED  BY <1>12, <1>13 DEF Paired

\* A message that has a form in its version.
Sendable(c) == IsMessage(c) /\ PartsOf(c) # NotAvailable

\* The consumer is called within the body, the first time after the first fields.
LEMMA EndsAre ==
  ASSUME NEW c, Sendable(c)
  PROVE  /\ \A e \in Ends(c) : e \in Nat /\ e <= BodySize(c)
         /\ BodySize(c) \in Nat
         /\ FixedSize(PartsOf(c)[1]) \in Ends(c)
<1> DEFINE n == Len(PartsOf(c))
<1>0. GoodParts(c)
  BY GoodIs DEF Sendable
<1>1. n \in {1, 2} /\ 1 \in 1 .. n
  BY <1>0 DEF GoodParts
<1>2. BodySize(c) \in Nat
  BY <1>0, BodyTypes
<1>3. ASSUME NEW i \in 1 .. n
      PROVE  /\ PartStart(c, i) + FixedSize(PartsOf(c)[i]) \in Nat
             /\ PartStart(c, i) + FixedSize(PartsOf(c)[i]) <= BodySize(c)
  <2>1. /\ PartStart(c, i) \in Nat /\ PartSize(PartsOf(c)[i], c.object) \in Nat
        /\ PartStart(c, i) + PartSize(PartsOf(c)[i], c.object) <= BodySize(c)
        /\ FixedSize(PartsOf(c)[i]) \in Nat
        /\ FixedSize(PartsOf(c)[i]) <= PartSize(PartsOf(c)[i], c.object)
    BY <1>0, BodyTypes
  <2>2. \A a, s, b, f \in Nat : a + s <= b /\ f <= s => a + f \in Nat /\ a + f <= b
    OBVIOUS
  <2> QED  BY <1>2, <2>1, <2>2, Zenon
<1>4. ASSUME c.type \in PropertyExchange
      PROVE  PartStart(c, 2) \in Nat /\ PartStart(c, 2) <= BodySize(c)
  <2>0. Paired(c)
    <3>1. c.type \notin Single /\ c.type \notin ProcessInquiry /\ c.type \notin WithArray
          /\ c.type # "profile_inquiry"
      BY <1>4, ClassesApart
    <3> QED  BY <3>1, Forms DEF Sendable, Simple, Tailed
  <2>1. 2 \in 1 .. n
    <3>1. PICK p, q : PartsOf(c) = <<p, q>>
      BY <2>0 DEF Paired
    <3> QED  BY <3>1, TwoElements, Zenon
  <2>2. /\ PartStart(c, 2) \in Nat /\ PartSize(PartsOf(c)[2], c.object) \in Nat
        /\ PartStart(c, 2) + PartSize(PartsOf(c)[2], c.object) <= BodySize(c)
    BY <1>0, <2>1, BodyTypes
  <2>3. \A a, s, b \in Nat : a + s <= b => a <= b
    OBVIOUS
  <2> QED  BY <1>2, <2>2, <2>3, Zenon
<1>5. ASSUME NEW e \in Ends(c)
      PROVE  e \in Nat /\ e <= BodySize(c)
  <2>1. CASE e = BodySize(c)
    BY <1>2, <2>1
  <2>2. CASE e \in {PartStart(c, i) + FixedSize(PartsOf(c)[i]) : i \in 1 .. n}
    BY <1>3, <2>2
  <2>3. CASE e \in (IF c.type \in PropertyExchange THEN {PartStart(c, 2)} ELSE {})
    BY <1>4, <2>3
  <2> QED  BY <2>1, <2>2, <2>3 DEF Ends
<1>6. FixedSize(PartsOf(c)[1]) \in Ends(c)
  <2>1. PartStart(c, 1) = 0 /\ FixedSize(PartsOf(c)[1]) \in Nat
    BY <1>0, <1>1, BodyTypes DEF PartStart
  <2>2. \A x \in Nat : 0 + x = x
    OBVIOUS
  <2>3. PartStart(c, 1) + FixedSize(PartsOf(c)[1]) = FixedSize(PartsOf(c)[1])
    BY <2>1, <2>2
  <2> QED  BY <1>1, <2>3 DEF Ends
<1> QED  BY <1>2, <1>5, <1>6

\* What a consumer does when all that it waited for has come.
LEMMA Stage ==
  ASSUME NEW c, Sendable(c), NEW bytes, NEW from \in Nat,
         NEW buf \in Seq(Septet), NEW e \in Ends(c), e <= Len(buf),
         Arrived(c, bytes, from, buf, e),
         consumer = c.type, header.version = c.header.version, Consume(buf, e)
  PROVE  \/ /\ e = BodySize(c)
            /\ IF c.type \in ProcessInquiry THEN HandleInquiry(buf, e) ELSE Handle(buf, e)
         \/ \E n \in Nat \ {0} : e + n \in Ends(c) /\ Await(n, buf, e)
<1>1. GoodParts(c)
  BY GoodIs DEF Sendable
<1>2. Simple(c) \/ Tailed(c) \/ Paired(c)
  BY Forms DEF Sendable
<1>3. CASE Simple(c)
  BY <1>1, <1>3, PlainStage
<1>4. CASE Tailed(c)
  <2>1. c.type \notin ProcessInquiry
    BY <1>4, ClassesApart DEF Tailed
  <2> QED  BY <1>1, <1>4, <2>1, TailedStage
<1>5. CASE Paired(c)
  <2>1. c.type \notin ProcessInquiry
    BY <1>5, ClassesApart DEF Paired
  <2> QED  BY <1>1, <1>5, <2>1, PairedStage
<1> QED  BY <1>2, <1>3, <1>4, <1>5

\* How many bytes the header of a message makes its consumer wait for.
LEMMA FirstIs ==
  ASSUME NEW c, Sendable(c)
  PROVE  /\ FirstSize(c.type, c.header.version) = FixedSize(PartsOf(c)[1])
         /\ FirstSize(c.type, c.header.version) \in Nat
         /\ FirstSize(c.type, c.header.version) = 0 =>
              /\ c.type \in ProcessInquiry \union {"profile_inquiry"}
              /\ BodySize(c) = 0
<1>1. FirstSize(c.type, c.header.version) = FixedSize(PartsOf(c)[1])
  BY DEF FirstSize, Sendable, IsMessage, PartsOf
<1>2. GoodParts(c) /\ FixedSize(PartsOf(c)[1]) \in Nat
  <2>1. GoodParts(c)
    BY GoodIs DEF Sendable
  <2>2. 1 \in 1 .. Len(PartsOf(c))
    BY <2>1 DEF GoodParts
  <2> QED  BY <2>1, <2>2, BodyTypes
<1>3. ASSUME FixedSize(PartsOf(c)[1]) = 0
      PROVE  /\ c.type \in ProcessInquiry \union {"profile_inquiry"}
             /\ BodySize(c) = 0
  <2>1. CASE Simple(c)
    <3>1. PICK p : /\ IsPart(p) /\ p.tail = "" /\ PartsOf(c) = <<p>>
                   /\ (c.type \in Single => FixedSize(p) # 0)
      BY <2>1 DEF Simple
    <3>2. Len(PartsOf(c)) = 1 /\ PartsOf(c)[1] = p /\ 1 \in 1 .. Len(PartsOf(c))
      BY <3>1, OneElement, Zenon
    <3>3. c.type \in ProcessInquiry \union {"profile_inquiry"}
      BY <1>3, <2>1, <3>1, <3>2 DEF Simple
    <3>4. p.unit \in Nat /\ Elements(p, c.object) = 0
      BY <3>1 DEF IsPart, Elements
    <3>5. PartSize(p, c.object) = 0 + p.unit * 0
      BY <1>3, <3>2, <3>4 DEF PartSize
    <3>6. PartSize(p, c.object) = 0
      BY <3>4, <3>5, NothingMore
    <3>7. BodySize(c) = 0 + 0
      BY <3>2, <3>6 DEF BodySize, PartStart
    <3> QED  BY <3>3, <3>7
  <2>2. CASE Tailed(c) \/ Paired(c)
    <3>1. PICK p : IsPart(p) /\ p.tail # "" /\ PartsOf(c)[1] = p
      <4>1. ASSUME NEW p, IsPart(p), p.tail # "", PartsOf(c) = <<p>>
            PROVE  \E x : IsPart(x) /\ x.tail # "" /\ PartsOf(c)[1] = x
        BY <4>1, OneElement, Zenon
      <4>2. ASSUME NEW p, NEW q, IsPart(p), p.tail # "", PartsOf(c) = <<p, q>>
            PROVE  \E x : IsPart(x) /\ x.tail # "" /\ PartsOf(c)[1] = x
        BY <4>2, TwoElements, Zenon
      <4> QED  BY <2>2, <4>1, <4>2 DEF Tailed, Paired
    <3> QED  BY <1>3, <3>1, TailedSize
  <2> QED  BY <2>1, <2>2, Forms DEF Sendable
<1> QED  BY <1>1, <1>2, <1>3

-------------------------------------------------------------------------------
(* What create_message() writes.                                                 *)

\* The bytes begin with the header of a message.
Headed(bytes, h, id) ==
  /\ bytes[4] = BitsOf(id) /\ bytes[5] = BitsOf(h.version)
  /\ Reads(bytes, 5, h.remote_muid, 4) /\ Reads(bytes, 9, h.local_muid, 4)

\* The header that create_message() packs: the sub-ID, the version and the MUIDs.
LEMMA HeaderPacked ==
  ASSUME NEW h \in Headers, NEW id \in 0 .. 127
  PROVE  LET bytes == PackedHeader(h, id)
         IN  bytes \in Seq(Septet) /\ Len(bytes) = HeaderSize /\ Headed(bytes, h, id)
<1> DEFINE first == <<BitsOf(126), h.device_id, BitsOf(13), BitsOf(id), BitsOf(h.version)>>
           r == to_le7(h.remote_muid, 4)
           l == to_le7(h.local_muid, 4)
<1>1. /\ BitsOf(126) \in Septet /\ BitsOf(13) \in Septet /\ BitsOf(id) \in Septet
      /\ BitsOf(h.version) \in Septet /\ h.device_id \in Septet
  <2>1. \A n \in 0 .. 127 : BitsOf(n) \in Septet
    BY BitsOfByte DEF Septet
  <2>2. 126 \in 0 .. 127 /\ 13 \in 0 .. 127
    OBVIOUS
  <2>3. h.version \in 0 .. 127 /\ h.device_id \in Septet
    BY DEF Headers, Septet
  <2> QED  BY <2>1, <2>2, <2>3
<1>2. /\ first \in Seq(Septet) /\ Len(first) = 5
      /\ first[4] = BitsOf(id) /\ first[5] = BitsOf(h.version)
  <2>1. \A a, b, c, d, e \in Septet : /\ <<a, b, c, d, e>> \in Seq(Septet)
                                      /\ Len(<<a, b, c, d, e>>) = 5
                                      /\ <<a, b, c, d, e>>[4] = d /\ <<a, b, c, d, e>>[5] = e
    OBVIOUS
  <2> QED  BY <1>1, <2>1
<1>3. r \in Seq(Septet) /\ Len(r) = 4 /\ l \in Seq(Septet) /\ Len(l) = 4
  <2>1. 4 \in Nat
    OBVIOUS
  <2> QED  BY <2>1, Le7
<1> HIDE DEF first
<1> HIDE DEF r, l
<1> DEFINE fr == first \o r
           bytes == fr \o l
<1>4. /\ fr \in Seq(Septet) /\ Len(fr) = 9
      /\ \A i \in 1 .. 5 : fr[i] = first[i]
      /\ \A i \in 1 .. 4 : fr[5 + i] = r[i]
  <2>1. /\ first \o r \in Seq(Septet) /\ Len(first \o r) = Len(first) + Len(r)
        /\ \A i \in 1 .. Len(first) : (first \o r)[i] = first[i]
        /\ \A i \in 1 .. Len(r) : (first \o r)[Len(first) + i] = r[i]
    <3>1. first \in Seq(Septet) /\ r \in Seq(Septet)
      BY <1>2, <1>3
    <3> QED  BY <3>1, Concat
  <2> QED  BY <1>2, <1>3, <2>1
<1> HIDE DEF fr
<1>5. /\ bytes \in Seq(Septet) /\ Len(bytes) = 13
      /\ \A i \in 1 .. 9 : bytes[i] = fr[i]
      /\ \A i \in 1 .. 4 : bytes[9 + i] = l[i]
  <2>1. /\ fr \o l \in Seq(Septet) /\ Len(fr \o l) = Len(fr) + Len(l)
        /\ \A i \in 1 .. Len(fr) : (fr \o l)[i] = fr[i]
        /\ \A i \in 1 .. Len(l) : (fr \o l)[Len(fr) + i] = l[i]
    <3>1. fr \in Seq(Septet) /\ l \in Seq(Septet)
      BY <1>3, <1>4
    <3> QED  BY <3>1, Concat
  <2>2. Len(fr) + Len(l) = 13
    BY <1>3, <1>4
  <2> HIDE DEF bytes
  <2>3. bytes = fr \o l
    BY DEF bytes
  <2> QED  BY <1>3, <1>4, <2>1, <2>2, <2>3
<1> HIDE DEF bytes
<1>6. bytes[4] = BitsOf(id) /\ bytes[5] = BitsOf(h.version)
  <2>1. 4 \in 1 .. 9 /\ 5 \in 1 .. 9 /\ 4 \in 1 .. 5 /\ 5 \in 1 .. 5
    OBVIOUS
  <2> QED  BY <1>2, <1>4, <1>5, <2>1
<1>7. \A i \in 1 .. 4 : bytes[5 + i] = r[i] /\ bytes[9 + i] = l[i]
  <2>1. \A i \in 1 .. 4 : 5 + i \in 1 .. 9
    OBVIOUS
  <2> QED  BY <1>4, <1>5, <2>1
<1>8. Headed(bytes, h, id)
  BY <1>6, <1>7 DEF Headed, Reads, r, l
<1>9. bytes = PackedHeader(h, id)
  BY DEF bytes, fr, first, r, l, PackedHeader
<1> QED  BY <1>5, <1>8, <1>9 DEF HeaderSize

\* The output after some bytes have been written, or when there was no room for them.
Output(out, room, bytes) ==
  \E x, y : /\ out = [bytes |-> x, at |-> y]
            /\ y = room \/ (x = bytes /\ y = Len(bytes))

\* safe_copy(): the bytes follow those before, or nothing more is written.
LEMMA OutputNext ==
  ASSUME NEW out, NEW room \in Nat, NEW b \in Seq(Septet), NEW d \in Seq(Septet),
         Output(out, room, b)
  PROVE  Output(SafeCopy(out, room, d), room, b \o d)
<1>1. PICK x, y : /\ out = [bytes |-> x, at |-> y]
                  /\ y = room \/ (x = b /\ y = Len(b))
  BY DEF Output
<1>2. out.bytes = x /\ out.at = y
  BY <1>1
<1>3. Len(b) \in Nat /\ Len(d) \in Nat /\ Len(b \o d) = Len(b) + Len(d)
  BY LenProperties, Concat
<1>4. CASE y + Len(d) < room
  <2>1. y # room
    <3>1. \A a, c \in Nat : ~ (a + c < a)
      OBVIOUS
    <3> QED  BY <1>3, <1>4, <3>1
  <2>2. SafeCopy(out, room, d) = [bytes |-> x \o d, at |-> y + Len(d)]
    BY <1>2, <1>4 DEF SafeCopy
  <2>3. x \o d = b \o d /\ y + Len(d) = Len(b \o d)
    BY <1>1, <1>3, <2>1
  <2> QED  BY <2>2, <2>3 DEF Output
<1>5. CASE ~ (y + Len(d) < room)
  <2>1. SafeCopy(out, room, d) = [out EXCEPT !.at = room]
    BY <1>2, <1>5 DEF SafeCopy
  <2>2. [out EXCEPT !.at = room] = [bytes |-> x, at |-> room]
    BY <1>1
  <2> QED  BY <2>1, <2>2 DEF Output
<1> QED  BY <1>4, <1>5

\* A message without a body adds nothing to the header.
LEMMA NoPart ==
  ASSUME NEW object, Holds(object, Fixed(<<>>))
  PROVE  Packed(Fixed(<<>>), object) = <<>>
<1>1. IsPart(Fixed(<<>>)) /\ FixedSize(Fixed(<<>>)) = 0 /\ Fixed(<<>>).tail = ""
  <2>1. <<>> \in Seq(Field)
    OBVIOUS
  <2> QED  BY <2>1, FixedPart
<1>2. Elements(Fixed(<<>>), object) = 0 /\ Fixed(<<>>).unit \in Nat
  BY <1>1 DEF Elements, IsPart
<1>3. PartSize(Fixed(<<>>), object) = 0
  <2>1. 0 + Fixed(<<>>).unit * 0 = 0
    BY <1>2, NothingMore
  <2> QED  BY <1>1, <1>2, <2>1 DEF PartSize
<1>4. Packed(Fixed(<<>>), object) \in Seq(Septet) /\ Len(Packed(Fixed(<<>>), object)) = 0
  BY <1>1, <1>3, PackedIs
<1> QED  BY <1>4, EmptySeq

\* A header that is copied is found again.
LEMMA HeadedMoved ==
  ASSUME NEW b, NEW d, NEW h, NEW id, Headed(b, h, id),
         \A i \in 1 .. HeaderSize : d[i] = b[i]
  PROVE  Headed(d, h, id)
<1>1. /\ 4 \in 1 .. 13 /\ 5 \in 1 .. 13
      /\ \A i \in 1 .. 4 : 5 + i \in 1 .. 13 /\ 9 + i \in 1 .. 13
  OBVIOUS
<1>2. d[4] = b[4] /\ d[5] = b[5] /\ \A i \in 1 .. 4 : d[5 + i] = b[5 + i] /\ d[9 + i] = b[9 + i]
  BY <1>1 DEF HeaderSize
<1> QED  BY <1>2 DEF Headed, Reads

\* A part that is written after some bytes leaves them as they are.
LEMMA LaidAfter ==
  ASSUME NEW part, IsPart(part), NEW object, Holds(object, part), NEW b \in Seq(Septet)
  PROVE  LET d == b \o Packed(part, object)
         IN  /\ d \in Seq(Septet) /\ Len(b) \in Nat /\ PartSize(part, object) \in Nat
             /\ Len(d) = Len(b) + PartSize(part, object)
             /\ \A i \in 1 .. Len(b) : d[i] = b[i]
             /\ Laid(part, object, d, Len(b))
<1> DEFINE p == Packed(part, object)
           d == b \o p
           n == Len(b)
<1>1. /\ p \in Seq(Septet) /\ Len(p) = PartSize(part, object) /\ Laid(part, object, p, 0)
  BY PackedIs
<1> HIDE DEF p
<1>2. /\ d \in Seq(Septet) /\ n \in Nat /\ Len(p) \in Nat /\ Len(d) = n + Len(p)
      /\ \A i \in 1 .. n : d[i] = b[i]
      /\ \A i \in 1 .. Len(p) : d[n + i] = p[i]
  <2>1. b \in Seq(Septet) /\ p \in Seq(Septet)
    BY <1>1
  <2> QED  BY <2>1, Concat
<1> HIDE DEF d, n
<1>3. \A i \in 1 .. PartSize(part, object) : d[n + i] = p[0 + i]
  <2>1. \A i \in 1 .. Len(p) : 0 + i = i
    BY <1>2
  <2>2. \A i \in 1 .. Len(p) : d[n + i] = p[0 + i]
    BY <1>2, <2>1
  <2> QED  BY <1>1, <2>2
<1>4. 0 \in Nat
  OBVIOUS
<1>5. Laid(part, object, d, n)
  BY <1>1, <1>2, <1>3, <1>4, LaidMoved
<1> QED  BY <1>1, <1>2, <1>5 DEF d, n, p

\* create_message(): when it returns neither the end of the room nor nothing, the
\* bytes are the header and the parts of the message, as they were given to it.
LEMMA CreateIs ==
  ASSUME NEW c, IsMessage(c), NEW room \in Nat,
         CreateMessage(c.type, c.header, c.object, room).at \notin {0, room}
  PROVE  LET bytes == CreateMessage(c.type, c.header, c.object, room).bytes
         IN  /\ Sendable(c)
             /\ bytes \in Seq(Septet) /\ Len(bytes) = HeaderSize + BodySize(c)
             /\ Headed(bytes, c.header, Messages[c.type].id)
             /\ BodyLaid(c, bytes, HeaderSize)
<1> DEFINE parts == PartsOf(c)
           o == c.object
           packed == PackedHeader(c.header, Messages[c.type].id)
           head  == SafeCopy(Nothing, room, packed)
           WritePart(out, i) ==
             IF i > Len(parts) \/ parts[i] = Fixed(<<>>) THEN out
             ELSE SafeCopy(out, room, Packed(parts[i], o))
           final == WritePart(WritePart(head, 1), 2)
           created == CreateMessage(c.type, c.header, c.object, room)
           all == created.bytes
<1>0. HeaderSize \in Nat
  BY DEF HeaderSize
<1>1. created = IF parts = NotAvailable THEN Nothing ELSE final
  BY DEF CreateMessage, PartsOf
<1>2. parts # NotAvailable
  BY <1>1 DEF Nothing
<1>3. Sendable(c) /\ GoodParts(c)
  BY <1>2, GoodIs DEF Sendable
<1>4. packed \in Seq(Septet) /\ Len(packed) = HeaderSize
          /\ Headed(packed, c.header, Messages[c.type].id)
  <2>1. c.header \in Headers /\ Messages[c.type].id \in 0 .. 127
    BY IdsApart DEF IsMessage
  <2> QED  BY <2>1, HeaderPacked
<1> HIDE DEF packed
<1>5. Output(head, room, packed)
  <2>1. Output(Nothing, room, <<>>)
    BY DEF Output, Nothing
  <2>2. <<>> \in Seq(Septet) /\ <<>> \o packed = packed
    BY <1>4
  <2>3. Output(head, room, <<>> \o packed)
    BY <1>4, <2>1, <2>2, OutputNext
  <2> QED  BY <2>2, <2>3
<1> HIDE DEF head
<1>6. Len(parts) \in {1, 2} /\ \A i \in 1 .. Len(parts) : IsPart(parts[i]) /\ Holds(o, parts[i])
  BY <1>3 DEF GoodParts
<1> HIDE DEF parts, o
<1>7. ASSUME NEW out, NEW b \in Seq(Septet), Output(out, room, b), NEW i \in 1 .. Len(parts)
      PROVE  Output(WritePart(out, i), room, b \o Packed(parts[i], o))
  <2>1. Packed(parts[i], o) \in Seq(Septet)
    BY <1>6, PackedIs
  <2>2. CASE parts[i] = Fixed(<<>>)
    <3>1. Packed(parts[i], o) = <<>>
      BY <1>6, <2>2, NoPart
    <3>2. b \o <<>> = b
      OBVIOUS
    <3> QED  BY <1>7, <2>2, <3>1, <3>2
  <2>3. CASE parts[i] # Fixed(<<>>)
    <3>1. ~ (i > Len(parts))
      BY <1>6
    <3> QED  BY <1>7, <2>1, <2>3, <3>1, OutputNext
  <2> QED  BY <2>2, <2>3
<1>8. ASSUME NEW b, Output(final, room, b)
      PROVE  all = b
  <2>1. final.at # room /\ all = final.bytes
    BY <1>1, <1>2
  <2>2. PICK x, y : /\ final = [bytes |-> x, at |-> y]
                    /\ y = room \/ (x = b /\ y = Len(b))
    BY <1>8 DEF Output
  <2> HIDE DEF final, all
  <2>3. final.at = y /\ final.bytes = x
    BY <2>2
  <2> QED  BY <2>1, <2>2, <2>3
<1> DEFINE p == parts[1]
           first == packed \o Packed(p, o)
           size == PartSize(p, o)
<1>9. 1 \in 1 .. Len(parts) /\ IsPart(p) /\ Holds(o, p)
  <2>1. \A n \in {1, 2} : 1 \in 1 .. n
    OBVIOUS
  <2> QED  BY <1>6, <2>1
<1>10. /\ first \in Seq(Septet) /\ size \in Nat /\ Len(first) = HeaderSize + size
       /\ \A i \in 1 .. HeaderSize : first[i] = packed[i]
       /\ Laid(p, o, first, HeaderSize)
  <2> HIDE DEF p
  <2> QED  BY <1>4, <1>9, LaidAfter
<1>11. Output(WritePart(head, 1), room, first)
  BY <1>4, <1>5, <1>7, <1>9
<1> HIDE DEF first, p, size, all
<1>12. CASE Len(parts) = 1
  <2>1. WritePart(WritePart(head, 1), 2) = WritePart(head, 1)
    BY <1>12
  <2>2. all = first
    <3> HIDE DEF WritePart
    <3> QED  BY <1>8, <1>11, <2>1
  <2>3. Headed(all, c.header, Messages[c.type].id)
    BY <1>4, <1>10, <2>2, HeadedMoved
  <2>4. BodySize(c) = 0 + size /\ PartStart(c, 1) = 0
    BY <1>12 DEF BodySize, PartStart, parts, p, size, o
  <2>5. Len(all) = HeaderSize + BodySize(c)
    BY <1>0, <1>10, <2>2, <2>4
  <2>6. BodyLaid(c, all, HeaderSize)
    <3>1. \A i \in 1 .. 1 : i = 1
      OBVIOUS
    <3>2. HeaderSize + 0 = HeaderSize
      BY <1>0
    <3> QED  BY <1>10, <1>12, <2>2, <2>4, <3>1, <3>2 DEF BodyLaid, parts, p, o
  <2> QED  BY <1>3, <1>10, <2>2, <2>3, <2>5, <2>6 DEF all
<1>13. CASE Len(parts) = 2
  <2> DEFINE q == parts[2]
             d == first \o Packed(q, o)
             more == PartSize(q, o)
  <2>1. 2 \in 1 .. Len(parts) /\ IsPart(q) /\ Holds(o, q)
    BY <1>6, <1>13
  <2>2. /\ d \in Seq(Septet) /\ more \in Nat /\ Len(d) = (HeaderSize + size) + more
        /\ \A i \in 1 .. HeaderSize + size : d[i] = first[i]
        /\ Laid(q, o, d, HeaderSize + size)
    <3> HIDE DEF q
    <3> QED  BY <1>10, <2>1, LaidAfter
  <2>3. Output(WritePart(WritePart(head, 1), 2), room, d)
    <3> HIDE DEF WritePart
    <3> QED  BY <1>7, <1>10, <1>11, <2>1
  <2>4. all = d
    <3> HIDE DEF WritePart, d
    <3> QED  BY <1>8, <2>3
  <2> HIDE DEF d, q, more
  <2>5. \A i \in 1 .. HeaderSize : d[i] = packed[i]
    <3>1. \A i \in 1 .. HeaderSize : i \in 1 .. HeaderSize + size
      BY <1>0, <1>10
    <3> QED  BY <1>10, <2>2, <3>1
  <2>6. Headed(all, c.header, Messages[c.type].id)
    BY <1>4, <2>4, <2>5, HeadedMoved
  <2>7. BodySize(c) = size + more /\ PartStart(c, 1) = 0 /\ PartStart(c, 2) = size
    BY <1>13 DEF BodySize, PartStart, parts, p, size, o, q, more
  <2>8. Len(all) = HeaderSize + BodySize(c)
    BY <1>0, <1>10, <2>2, <2>4, <2>7
  <2>9. Laid(p, o, d, HeaderSize)
    <3>1. \A i \in 1 .. size : d[HeaderSize + i] = first[HeaderSize + i]
      <4>1. \A i \in 1 .. size : HeaderSize + i \in 1 .. HeaderSize + size
        BY <1>0, <1>10
      <4> QED  BY <2>2, <4>1
    <3> QED  BY <1>0, <1>9, <1>10, <3>1, LaidMoved DEF size
  <2>10. BodyLaid(c, all, HeaderSize)
    <3>1. \A i \in 1 .. 2 : i = 1 \/ i = 2
      OBVIOUS
    <3>2. HeaderSize + 0 = HeaderSize
      BY <1>0
    <3> QED  BY <1>13, <2>2, <2>4, <2>7, <2>9, <3>1, <3>2 DEF BodyLaid, parts, p, o, q
  <2> QED  BY <1>3, <2>2, <2>4, <2>6, <2>8, <2>10 DEF all
<1> QED  BY <1>6, <1>12, <1>13

-------------------------------------------------------------------------------
(* The invariant.                                                                *)

\* How many bytes of a message have been received.
Taken(m) == m.size - Len(wire)

\* The bytes of a message that has been sent, or of one that nobody knows.
Whole(m, bytes) ==
  /\ bytes \in Seq(Septet) /\ Len(bytes) = m.size /\ HeaderSize <= m.size
  /\ m.content.header \in Headers
  /\ \/ /\ Known(m) /\ Sendable(m.content)
        /\ m.needed = HeaderSize + BodySize(m.content) /\ m.needed <= m.size
        /\ Headed(bytes, m.content.header, Messages[m.content.type].id)
        /\ BodyLaid(m.content, bytes, HeaderSize)
     \/ /\ ~Known(m)
        /\ \E id \in Foreign : Headed(bytes, m.content.header, id)

UnderWay(m, bytes) ==
  /\ wire \in Seq(Septet) /\ Len(wire) <= m.size
  /\ \A i \in 1 .. Len(wire) : wire[i] = bytes[Taken(m) + i]
  /\ m.group = group /\ m.device_id = device_id /\ m.capacity = Len(buffer)

\* The header arrives, then the parts of the body; then nothing matters any more.
Heading(m, bytes) ==
  /\ consumer = "header" /\ header.version \in 0 .. 127 /\ calls = <<>>
  /\ pos \in Nat /\ count \in Nat \ {0} /\ pos + count = HeaderSize /\ Taken(m) = pos
  /\ \A i \in 1 .. pos : buffer[i] = bytes[i]
Reading(m, bytes) ==
  /\ Known(m) /\ ForMe(m)
  /\ consumer = m.content.type /\ header = HeaderOf(m) /\ calls = <<>>
  /\ pos \in 0 .. Len(buffer) /\ count \in Nat \ {0} /\ Taken(m) = HeaderSize + pos
  /\ pos + count \in Ends(m.content)
  /\ Arrived(m.content, bytes, HeaderSize, buffer, pos)
Past(m) ==
  /\ consumer = "discard" /\ header.version \in 0 .. 127
  /\ calls = OutcomeOf(m) /\ (calls # <<>> => Taken(m) >= Awaited(m))
  /\ pos \in Nat /\ count \in Nat /\ pos + count <= Len(buffer)

Flow(m, bytes) ==
  /\ Whole(m, bytes) /\ UnderWay(m, bytes)
  /\ Heading(m, bytes) \/ Reading(m, bytes) \/ Past(m)

Ready ==
  /\ wire = <<>> /\ consumer = "header" /\ header.version \in 0 .. 127 /\ calls = <<>>
  /\ pos = 0 /\ count = HeaderSize

Inv ==
  /\ buffer \in Seq(Septet) /\ HeaderSize <= Len(buffer)
  /\ \/ sent = {} /\ Ready
     \/ \E m, bytes : sent = {m} /\ Flow(m, bytes)

\* The sizes of a message that has been sent.
LEMMA WholeTypes ==
  ASSUME NEW m, NEW bytes, Whole(m, bytes)
  PROVE  /\ m.size \in Nat /\ HeaderSize \in Nat
         /\ Known(m) => /\ BodySize(m.content) \in Nat /\ GoodParts(m.content)
                        /\ m.needed \in Nat /\ m.needed - HeaderSize = BodySize(m.content)
                        /\ (Fits(m) <=> BodySize(m.content) <= m.capacity)
<1>1. HeaderSize \in Nat
  BY DEF HeaderSize
<1>2. m.size \in Nat
  BY LenProperties DEF Whole
<1>3. ASSUME Known(m)
      PROVE  /\ BodySize(m.content) \in Nat /\ GoodParts(m.content)
             /\ m.needed \in Nat /\ m.needed - HeaderSize = BodySize(m.content)
             /\ (Fits(m) <=> BodySize(m.content) <= m.capacity)
  <2>1. Sendable(m.content) /\ m.needed = HeaderSize + BodySize(m.content)
    BY <1>3 DEF Whole
  <2>2. BodySize(m.content) \in Nat /\ GoodParts(m.content)
    BY <2>1, EndsAre, GoodIs DEF Sendable
  <2>3. \A x, y \in Nat : x + y \in Nat /\ (x + y) - x = y
    OBVIOUS
  <2>4. m.needed \in Nat /\ m.needed - HeaderSize = BodySize(m.content)
    BY <1>1, <2>1, <2>2, <2>3, Zenon
  <2> QED  BY <2>2, <2>4 DEF Fits
<1> QED  BY <1>1, <1>2, <1>3

\* What has been received of a message and what is on the wire make up the message.
LEMMA WireTypes ==
  ASSUME NEW m, NEW bytes, Whole(m, bytes), UnderWay(m, bytes)
  PROVE  /\ Len(wire) \in Nat /\ Taken(m) \in Nat /\ Taken(m) <= m.size
         /\ Taken(m) + Len(wire) = m.size
<1>1. m.size \in Nat /\ Len(wire) \in Nat /\ Len(wire) <= m.size
  BY WholeTypes, LenProperties DEF UnderWay
<1>2. \A s, l \in Nat : l <= s => s - l \in Nat /\ s - l <= s /\ (s - l) + l = s
  OBVIOUS
<1> QED  BY <1>1, <1>2, Zenon DEF Taken

\* One byte is taken from the wire: the next one of the message.
LEMMA TakeByte ==
  ASSUME NEW m, NEW bytes, Whole(m, bytes), UnderWay(m, bytes),
         wire # <<>>, wire' = Tail(wire), UNCHANGED settings, Len(buffer') = Len(buffer)
  PROVE  /\ UnderWay(m, bytes)' /\ Taken(m)' = Taken(m) + 1
         /\ Head(wire) = bytes[Taken(m) + 1] /\ Head(wire) \in Septet
         /\ Taken(m) + 1 <= m.size
<1> DEFINE n == Len(wire)
           k == Taken(m)
           s == m.size
<1>1. wire \in Seq(Septet) /\ s \in Nat /\ n \in Nat /\ n <= s /\ k = s - n /\ k \in Nat
  BY WholeTypes, WireTypes DEF UnderWay, Taken
<1>2. n # 0 /\ Head(wire) = wire[1] /\ Head(wire) \in Septet
      /\ Tail(wire) \in Seq(Septet) /\ Len(Tail(wire)) = n - 1
      /\ \A i \in 1 .. n - 1 : Tail(wire)[i] = wire[i + 1]
  <2>1. wire \in Seq(Septet)
    BY <1>1
  <2> QED  BY <2>1
<1>3. Taken(m)' = s - (n - 1)
  BY <1>2 DEF Taken
<1>4. \A i \in 1 .. n : wire[i] = bytes[k + i]
  BY DEF UnderWay
<1>9. m.group = group' /\ m.device_id = device_id' /\ m.capacity = Len(buffer')
  BY DEF UnderWay, settings
<1> HIDE DEF n, k, s
<1>5. n - 1 \in Nat /\ n - 1 <= s /\ s - (n - 1) = k + 1 /\ k + 1 <= s /\ 1 \in 1 .. n
  BY <1>1, <1>2
<1>6. Head(wire) = bytes[k + 1]
  BY <1>2, <1>4, <1>5
<1>7. \A i \in 1 .. n - 1 : i + 1 \in 1 .. n /\ k + (i + 1) = (k + 1) + i
  BY <1>1
<1>8. \A i \in 1 .. n - 1 : Tail(wire)[i] = bytes[(k + 1) + i]
  BY <1>2, <1>4, <1>7
<1>10. wire' \in Seq(Septet) /\ Len(wire') = n - 1
  BY <1>2
<1>11. /\ wire' \in Seq(Septet) /\ Len(wire') <= m.size
       /\ \A i \in 1 .. Len(wire') : wire'[i] = bytes[Taken(m)' + i]
       /\ m.group = group' /\ m.device_id = device_id' /\ m.capacity = Len(buffer')
  BY <1>3, <1>5, <1>8, <1>9, <1>10 DEF s
<1>12. UnderWay(m, bytes)'
  BY <1>11 DEF UnderWay
<1> QED  BY <1>2, <1>3, <1>5, <1>6, <1>12 DEF k, s

-------------------------------------------------------------------------------
(* The steps that begin and end a message.                                       *)

\* A new buffer.
LEMMA NewBuffer ==
  ASSUME NEW n \in Nat
  PROVE  [i \in 1 .. n |-> {}] \in Seq(Septet) /\ Len([i \in 1 .. n |-> {}]) = n
<1>1. {} \in Septet
  BY DEF Septet
<1> QED  BY <1>1

\* The dispatcher begins ready for the header of a message.
LEMMA InitInv ==
  Init => Inv
<1> SUFFICES ASSUME Init
             PROVE  Inv
  OBVIOUS
<1>1. PICK n \in BufferSizes :
        /\ count = New(n).count /\ pos = New(n).pos /\ buffer = New(n).buffer
        /\ consumer = New(n).consumer /\ header = New(n).header /\ calls = New(n).calls
  BY DEF Init
<1>2. n \in Nat /\ HeaderSize <= n
  BY LinkAssumption DEF HeaderSize
<1>3. buffer \in Seq(Septet) /\ Len(buffer) = n
  BY <1>1, <1>2, NewBuffer DEF New
<1>4. Ready
  BY <1>1 DEF Init, New, Ready
<1>5. sent = {}
  BY DEF Init
<1> QED  BY <1>2, <1>3, <1>4, <1>5 DEF Inv

\* A dispatcher made anew is ready for the header of a message.
LEMMA RenewReady ==
  ASSUME Renew, wire' = <<>>, Inv
  PROVE  Ready' /\ buffer' \in Seq(Septet) /\ HeaderSize <= Len(buffer')
<1>1. buffer \in Seq(Septet) /\ Len(buffer) \in Nat /\ HeaderSize <= Len(buffer)
  BY LenProperties DEF Inv
<1>2. buffer' \in Seq(Septet) /\ Len(buffer') = Len(buffer)
  BY <1>1, NewBuffer DEF Renew, New
<1>3. Ready'
  BY DEF Ready, Renew, New
<1> QED  BY <1>1, <1>2, <1>3

\* A message is laid on the wire.
LEMMA BeginFlow ==
  ASSUME Inv, sent = {}, NEW c, NEW bytes \in Seq(Septet), NEW more \in Seq(Septet),
         Begin(c, bytes, more), HeaderSize <= Len(bytes), c.header \in Headers,
         \/ /\ c.type \in Types /\ Sendable(c)
            /\ Len(bytes) = HeaderSize + BodySize(c)
            /\ Headed(bytes, c.header, Messages[c.type].id)
            /\ BodyLaid(c, bytes, HeaderSize)
         \/ c.type \notin Types /\ \E id \in Foreign : Headed(bytes, c.header, id)
  PROVE  Inv' /\ wire' # <<>> /\ calls' = calls /\ \E m : sent' = {m}
<1> DEFINE all == bytes \o more
<1>0. PICK m : m = [content |-> c, needed |-> Len(bytes), size |-> Len(all),
                    group |-> group, device_id |-> device_id, capacity |-> Len(buffer)]
  OBVIOUS
<1>1. /\ all \in Seq(Septet) /\ Len(bytes) \in Nat /\ Len(more) \in Nat
      /\ Len(all) = Len(bytes) + Len(more) /\ \A i \in 1 .. Len(bytes) : all[i] = bytes[i]
  BY Concat
<1> HIDE DEF all
<1>2. wire' = all /\ sent' = {m} /\ UNCHANGED <<received, settings>>
  BY <1>0 DEF Begin, all
<1>3. HeaderSize \in Nat /\ HeaderSize = 13
  BY DEF HeaderSize
<1>4. Len(all) \in Nat /\ HeaderSize <= Len(all) /\ Len(bytes) <= Len(all)
  BY <1>1, <1>3
<1>5. m.size = Len(all) /\ m.content = c /\ m.needed = Len(bytes)
      /\ m.group = group /\ m.device_id = device_id /\ m.capacity = Len(buffer)
  BY <1>0
<1>6. \A i \in 1 .. HeaderSize : all[i] = bytes[i]
  <2>1. \A i \in 1 .. HeaderSize : i \in 1 .. Len(bytes)
    BY <1>1, <1>3
  <2> QED  BY <1>1, <2>1
<1>7. \A h, id : Headed(bytes, h, id) => Headed(all, h, id)
  BY <1>6, HeadedMoved
<1>8. ASSUME c.type \in Types, Sendable(c), Len(bytes) = HeaderSize + BodySize(c),
             BodyLaid(c, bytes, HeaderSize)
      PROVE  BodyLaid(c, all, HeaderSize)
  <2>1. GoodParts(c) /\ BodySize(c) \in Nat
    BY <1>8, GoodIs, EndsAre DEF Sendable
  <2>2. \A i \in 1 .. BodySize(c) : HeaderSize + i \in 1 .. Len(bytes)
    BY <1>3, <1>8, <2>1
  <2>3. \A i \in 1 .. BodySize(c) : all[HeaderSize + i] = bytes[HeaderSize + i]
    BY <1>1, <2>2
  <2> QED  BY <1>3, <1>8, <2>1, <2>3, BodyMoved
<1>9. Whole(m, all)
  BY <1>1, <1>4, <1>5, <1>7, <1>8 DEF Whole, Known
<1>10. Len(all) - Len(all) = 0 /\ \A i \in 1 .. Len(all) : 0 + i = i
  <2>1. \A n \in Nat : n - n = 0 /\ \A i \in 1 .. n : 0 + i = i
    OBVIOUS
  <2> QED  BY <1>4, <2>1
<1>11. Taken(m)' = 0
  BY <1>2, <1>5, <1>10 DEF Taken
<1>12. UnderWay(m, all)'
  <2>1. /\ wire' \in Seq(Septet) /\ Len(wire') <= m.size
        /\ \A i \in 1 .. Len(wire') : wire'[i] = all[Taken(m)' + i]
    BY <1>1, <1>2, <1>4, <1>5, <1>10, <1>11
  <2>2. m.group = group' /\ m.device_id = device_id' /\ m.capacity = Len(buffer')
    BY <1>2, <1>5 DEF received, settings
  <2> QED  BY <2>1, <2>2 DEF UnderWay
<1>13. Ready
  BY DEF Inv, Flow
<1>14. Heading(m, all)'
  <2>1. /\ consumer' = "header" /\ header'.version \in 0 .. 127 /\ calls' = <<>>
        /\ pos' = 0 /\ count' = HeaderSize
    BY <1>2, <1>13 DEF Ready, received
  <2>2. pos' \in Nat /\ count' \in Nat \ {0} /\ pos' + count' = HeaderSize
    BY <1>3, <2>1
  <2>3. \A i \in 1 .. pos' : buffer'[i] = all[i]
    BY <2>1
  <2> QED  BY <1>11, <2>1, <2>2, <2>3 DEF Heading
<1>15. Whole(m, all)'
  BY <1>9 DEF Whole
<1>16. sent' = {m} /\ Flow(m, all)'
  BY <1>2, <1>12, <1>14, <1>15 DEF Flow
<1>17. buffer' = buffer /\ calls' = calls
  BY <1>2 DEF received
<1>18. Inv'
  BY <1>16, <1>17 DEF Inv
<1>19. wire' # <<>>
  <2>1. Len(<<>>) = 0
    OBVIOUS
  <2> QED  BY <1>2, <1>3, <1>4, <2>1
<1> QED  BY <1>16, <1>17, <1>18, <1>19

-------------------------------------------------------------------------------
(* The header.                                                                   *)

\* The arguments of a call.
LEMMA PairJoined ==
  ASSUME NEW a, NEW b
  PROVE  <<a>> \o <<b>> = <<a, b>>
<1>1. <<a>> \in Seq({a, b}) /\ <<b>> \in Seq({a, b})
  OBVIOUS
<1>3. Len(<<a>>) = 1 /\ Len(<<b>>) = 1 /\ <<a>>[1] = a /\ <<b>>[1] = b
  OBVIOUS
<1> DEFINE s == <<a>> \o <<b>>
<1>2. /\ s \in Seq({a, b}) /\ Len(s) = Len(<<a>>) + Len(<<b>>)
      /\ \A j \in 1 .. Len(<<a>>) : s[j] = <<a>>[j]
      /\ \A j \in 1 .. Len(<<b>>) : s[Len(<<a>>) + j] = <<b>>[j]
  BY <1>1, Concat
<1> HIDE DEF s
<1>6. 1 \in 1 .. Len(<<a>>) /\ 1 \in 1 .. Len(<<b>>) /\ Len(<<a>>) + 1 = 2
  BY <1>3
<1>4. Len(s) = 2 /\ s[1] = a /\ s[2] = b
  BY <1>2, <1>3, <1>6
<1>5. s = <<a, b>>
  BY <1>2, <1>4
<1> QED BY <1>5 DEF s

\* A call with two arguments.
LEMMA TripleJoined ==
  ASSUME NEW a, NEW b, NEW c
  PROVE  <<a>> \o <<b, c>> = <<a, b, c>>
<1>1. <<a>> \in Seq({a, b, c}) /\ <<b, c>> \in Seq({a, b, c})
  OBVIOUS
<1>3. Len(<<a>>) = 1 /\ Len(<<b, c>>) = 2 /\ <<a>>[1] = a /\ <<b, c>>[1] = b /\ <<b, c>>[2] = c
  OBVIOUS
<1> DEFINE s == <<a>> \o <<b, c>>
<1>2. /\ s \in Seq({a, b, c}) /\ Len(s) = Len(<<a>>) + Len(<<b, c>>)
      /\ \A j \in 1 .. Len(<<a>>) : s[j] = <<a>>[j]
      /\ \A j \in 1 .. Len(<<b, c>>) : s[Len(<<a>>) + j] = <<b, c>>[j]
  BY <1>1, Concat
<1> HIDE DEF s
<1>4. Len(s) = 3 /\ s[1] = a /\ s[2] = b /\ s[3] = c
  BY <1>2, <1>3
<1>5. s = <<a, b, c>>
  BY <1>2, <1>4
<1> QED BY <1>5 DEF s

\* The calls of handlers, with the arguments they have.
LEMMA CallsAre ==
  \A name, x, y :
    /\ Append(<<>>, <<name>> \o <<>>) = <<<<name>>>>
    /\ Append(<<>>, <<name>> \o <<x>>) = <<<<name, x>>>>
    /\ Append(<<>>, <<name>> \o <<x, y>>) = <<<<name, x, y>>>>
<1>1. \A a : Append(<<>>, a) = <<a>>
  OBVIOUS
<1>2. \A a : <<a>> \o <<>> = <<a>>
  OBVIOUS
<1> QED  BY <1>1, <1>2, PairJoined, TripleJoined

\* The consumer of headers reads the header that was packed.
LEMMA HeaderRead ==
  ASSUME NEW bytes, NEW h \in Headers, NEW id \in 0 .. 127, Headed(bytes, h, id),
         NEW buf \in Seq(Septet), HeaderSize <= Len(buf),
         \A i \in 1 .. HeaderSize : buf[i] = bytes[i]
  PROVE  /\ Number(buf[4]) = id /\ Number(buf[5]) = h.version
         /\ Value(buf, 5, 4) = h.remote_muid /\ Value(buf, 9, 4) = h.local_muid
<1>1. Headed(buf, h, id)
  BY HeadedMoved
<1>2. h.version \in 0 .. 127 /\ h.remote_muid \in SUBSET b28 /\ h.local_muid \in SUBSET b28
  BY DEF Headers
<1>3. \A n \in 0 .. 127 : Number(BitsOf(n)) = n
  <2>1. \A n \in 0 .. 127 : n \in 0 .. MaxLength
    BY DEF MaxLength
  <2> QED  BY <2>1, NumberOfBits
<1>4. Number(buf[4]) = id /\ Number(buf[5]) = h.version
  BY <1>1, <1>2, <1>3 DEF Headed
<1>5. b28 = 0 .. 7 * 4 - 1
  BY DEF b28
<1>6. 5 \in Nat /\ 9 \in Nat /\ 4 \in Nat /\ 5 + 4 <= Len(buf) /\ 9 + 4 <= Len(buf)
  <2>1. Len(buf) \in Nat
    BY LenProperties
  <2> QED  BY <2>1 DEF HeaderSize
<1>7. Reads(buf, 5, h.remote_muid, 4) /\ Reads(buf, 9, h.local_muid, 4)
  BY <1>1 DEF Headed
<1>8. Value(buf, 5, 4) = h.remote_muid
  BY <1>2, <1>5, <1>6, <1>7, ValueIs
<1>9. Value(buf, 9, 4) = h.local_muid
  BY <1>2, <1>5, <1>6, <1>7, ValueIs
<1> QED  BY <1>4, <1>8, <1>9

\* The header that handlers get has the device identifier of the SysEx message.
LEMMA HeaderFields ==
  ASSUME NEW h \in Headers, NEW d
  PROVE  /\ [h EXCEPT !.device_id = d] =
              [device_id |-> d, version |-> h.version, remote_muid |-> h.remote_muid,
               local_muid |-> h.local_muid]
         /\ h.version \in 0 .. 127
BY DEF Headers

\* A message that has no more than a header has no members in any version.
LEMMA NoMembers ==
  ASSUME NEW c, Sendable(c), FirstSize(c.type, c.header.version) = 0
  PROVE  Members(Messages[c.type].v2) = {}
<1> DEFINE t == c.type
           v2 == Messages[t].v2
<1>1. t \in ProcessInquiry \union {"profile_inquiry"} /\ FixedSize(PartsOf(c)[1]) = 0
  BY FirstIs
<1>2. PartsOf(c) = IF c.header.version = 1 THEN Messages[t].v1 ELSE v2
  BY DEF PartsOf, Parts
<1>3. ASSUME NEW fields \in Seq(Field), v2 = <<Fixed(fields)>>, PartsOf(c) = v2
      PROVE  Members(v2) = {}
  <2>1. PartsOf(c)[1] = Fixed(fields)
    BY <1>3
  <2>2. fields = <<>>
    BY <1>1, <2>1, FixedPart
  <2>3. ToSet(v2) = {Fixed(<<>>)}
    <3>1. \A s, p : s = <<p>> => ToSet(s) = {p}
      BY DEF ToSet
    <3> QED  BY <1>3, <2>2, <3>1, Zenon
  <2>4. FieldNames(Fixed(<<>>)) = {} /\ Fixed(<<>>).tail = ""
    BY DEF FieldNames, Fixed
  <2> HIDE DEF v2
  <2> QED  BY <2>3, <2>4 DEF Members
<1>4. CASE t = "profile_inquiry"
  <2>1. <<>> \in Seq(Field)
    OBVIOUS
  <2> QED  BY <1>2, <1>3, <1>4, <2>1, ProfilesAre
<1>5. CASE t \in ProcessInquiry
  <2>1. PartsOf(c) = v2
    <3>1. Messages[t].v1 = v2 \/ Messages[t].v1 = NotAvailable
      <4>1. pi_capability.v1 = pi_capability.v2
        BY SameAre DEF pi_capability
      <4>2. /\ pi_capability_reply.v1 = NotAvailable /\ pi_mm_report.v1 = NotAvailable
            /\ pi_mm_report_reply.v1 = NotAvailable /\ pi_mm_report_end.v1 = NotAvailable
        BY DEF pi_capability_reply, pi_mm_report, pi_mm_report_reply, pi_mm_report_end, Message
      <4> QED  BY <1>5, <4>1, <4>2 DEF ProcessInquiry, Messages
    <3> QED  BY <1>2, <3>1 DEF Sendable
  <2>2. PartsOf(c) = Parts(t, c.header.version)
    BY DEF PartsOf
  <2>3. PICK fields \in Seq(Field) : PartsOf(c) = <<Fixed(fields)>>
    BY <1>5, <2>2, InquiryAre DEF Sendable
  <2> QED  BY <1>3, <2>1, <2>3
<1> QED  BY <1>1, <1>4, <1>5

\* A message of a header alone tells its handler nothing more.
LEMMA NothingTold ==
  ASSUME NEW m, Known(m), Sendable(m.content),
         FirstSize(m.content.type, m.content.header.version) = 0
  PROVE  Told(m) = <<>>
<1>1. DOMAIN m.content.object = {}
  BY NoMembers DEF Sendable, IsMessage
<1>2. DOMAIN Told(m) = {} /\ Told(m) \in [{} -> {}]
  BY <1>1 DEF Told
<1>3. \A f \in [{} -> {}] : f = <<>>
  OBVIOUS
<1> QED  BY <1>2, <1>3

\* A message without a handler in its version has no handler.
LEMMA NobodyHandles ==
  "nobody" \notin Handlers
<1>1. "nobody" \notin Types /\ "nobody" # "unknown_midici" /\ "nobody" # "buffer_overflow"
  BY DEF Types, Messages
<1> QED  BY <1>1, LinkAssumption

\* What the handlers of the dispatcher are to be told of a message, case by case:
\* an unknown sub-ID, another recipient, a buffer too small, no handler, and a handler.
LEMMA OutcomeIs ==
  ASSUME NEW m
  PROVE  /\ ~Known(m) =>
              OutcomeOf(m) = IF "unknown_midici" \in Handlers
                             THEN <<<<"unknown_midici", HeaderOf(m)>>>> ELSE <<>>
         /\ Known(m) /\ ~ForMe(m) => OutcomeOf(m) = <<>>
         /\ Known(m) /\ ForMe(m) /\ ~Fits(m) =>
              OutcomeOf(m) = IF "buffer_overflow" \in Handlers
                             THEN <<<<"buffer_overflow">>>> ELSE <<>>
         /\ Known(m) /\ ForMe(m) /\ Fits(m) =>
              /\ m.content.type \in ProcessInquiry /\ m.content.header.version <= 1 =>
                   OutcomeOf(m) = <<>>
              /\ ~ (m.content.type \in ProcessInquiry /\ m.content.header.version <= 1) =>
                   OutcomeOf(m) = IF m.content.type \in Handlers
                                  THEN <<<<m.content.type, HeaderOf(m), Told(m)>>>> ELSE <<>>
<1>1. \A a : <<a>>[1] = a
  OBVIOUS
<1>2. \A a, b : <<a, b>>[1] = a
  OBVIOUS
<1>3. \A a, b, c : <<a, b, c>>[1] = a
  OBVIOUS
<1>4. ASSUME ~Known(m)
      PROVE  OutcomeOf(m) = IF "unknown_midici" \in Handlers
                            THEN <<<<"unknown_midici", HeaderOf(m)>>>> ELSE <<>>
  BY <1>2, <1>4 DEF OutcomeOf
<1>5. ASSUME Known(m), ~ForMe(m)
      PROVE  OutcomeOf(m) = <<>>
  BY <1>1, <1>5, NobodyHandles DEF OutcomeOf
<1>6. ASSUME Known(m), ForMe(m), ~Fits(m)
      PROVE  OutcomeOf(m) = IF "buffer_overflow" \in Handlers
                            THEN <<<<"buffer_overflow">>>> ELSE <<>>
  BY <1>1, <1>6 DEF OutcomeOf
<1>7. ASSUME Known(m), ForMe(m), Fits(m),
             m.content.type \in ProcessInquiry /\ m.content.header.version <= 1
      PROVE  OutcomeOf(m) = <<>>
  BY <1>1, <1>7, NobodyHandles DEF OutcomeOf
<1>8. ASSUME Known(m), ForMe(m), Fits(m),
             ~ (m.content.type \in ProcessInquiry /\ m.content.header.version <= 1)
      PROVE  OutcomeOf(m) = IF m.content.type \in Handlers
                            THEN <<<<m.content.type, HeaderOf(m), Told(m)>>>> ELSE <<>>
  BY <1>3, <1>8 DEF OutcomeOf
<1> QED  BY <1>4, <1>5, <1>6, <1>7, <1>8

\* The last byte of the header: the dispatcher waits for the body of a message to it,
\* or passes over what it does not know or is not meant for it, with what is told.
LEMMA HeaderStep ==
  ASSUME NEW m, NEW bytes, Whole(m, bytes), UnderWay(m, bytes), calls = <<>>,
         NEW buf \in Seq(Septet), Len(buf) = Len(buffer), HeaderSize <= Len(buffer),
         \A i \in 1 .. HeaderSize : buf[i] = bytes[i],
         Header(buf), Taken(m)' = HeaderSize
  PROVE  (Reading(m, bytes)' \/ Past(m)') /\ buffer' = buf
<1> DEFINE c == m.content
           hd == c.header
           h == [device_id   |-> device_id, version |-> Number(buf[5]),
                 remote_muid |-> Value(buf, 5, 4), local_muid |-> Value(buf, 9, 4)]
           found == {t \in Types : Messages[t].id = Number(buf[4])}
           forUs == h.local_muid = broadcast_muid \/ <<group, h.local_muid>> \in Mine
<1>1. /\ header' = h /\ pos' = 0 /\ buffer' = buf
      /\ \/ found = {} /\ Called("unknown_midici", <<h>>) /\ Discarding
         \/ found # {} /\ ~forUs /\ UNCHANGED calls /\ Discarding
         \/ \E t \in found :
              /\ forUs
              /\ IF FirstSize(t, h.version) = 0 THEN ConsumeNothing(t, h)
                 ELSE /\ consumer' = t /\ count' = FirstSize(t, h.version)
                      /\ UNCHANGED calls
  BY DEF Header
<1>2. hd \in Headers /\ m.group = group /\ m.device_id = device_id /\ m.capacity = Len(buffer)
      /\ HeaderSize \in Nat /\ Len(buffer) \in Nat
  <2>1. Len(buf) \in Nat
    BY LenProperties
  <2> QED  BY <2>1, WholeTypes DEF Whole, UnderWay
<1>3. ASSUME NEW id \in 0 .. 127, Headed(bytes, hd, id)
      PROVE  Number(buf[4]) = id /\ h = HeaderOf(m) /\ h.version = hd.version
             /\ h.version \in 0 .. 127 /\ (forUs <=> ForMe(m))
  <2>1. /\ Number(buf[4]) = id /\ Number(buf[5]) = hd.version
        /\ Value(buf, 5, 4) = hd.remote_muid /\ Value(buf, 9, 4) = hd.local_muid
    <3>1. HeaderSize <= Len(buf) /\ hd \in Headers /\ Headed(bytes, hd, id)
      BY <1>2, <1>3
    <3>2. \A i \in 1 .. HeaderSize : buf[i] = bytes[i]
      OBVIOUS
    <3> HIDE DEF h, found, forUs, hd
    <3> QED  BY <3>1, <3>2, HeaderRead, ZenonT(60)
  <2>2. HeaderOf(m) = [device_id |-> m.device_id, version |-> hd.version,
                       remote_muid |-> hd.remote_muid, local_muid |-> hd.local_muid]
        /\ hd.version \in 0 .. 127
    BY <1>2, HeaderFields DEF HeaderOf
  <2>3. h = HeaderOf(m) /\ h.version = hd.version /\ h.local_muid = hd.local_muid
    BY <1>2, <2>1, <2>2
  <2> HIDE DEF h
  <2> QED  BY <1>2, <2>1, <2>2, <2>3 DEF ForMe
<1> HIDE DEF h, found, forUs
<1>4. ASSUME Discarding, calls' = OutcomeOf(m), h.version \in 0 .. 127,
             calls' # <<>> => HeaderSize >= Awaited(m)
      PROVE  Past(m)'
  <2>1. consumer' = "discard" /\ count' = 0 /\ pos' = 0 /\ header' = h
    BY <1>1, <1>4 DEF Discarding
  <2>2. pos' \in Nat /\ count' \in Nat /\ pos' + count' <= Len(buffer')
    <3>1. \A n \in Nat : 0 \in Nat /\ 0 + 0 <= n
      OBVIOUS
    <3>2. Len(buffer') \in Nat
      BY <1>1, <1>2
    <3> QED  BY <2>1, <3>1, <3>2
  <2> QED  BY <1>4, <2>1, <2>2 DEF Past
<1>5. CASE ~Known(m)
  <2>1. PICK id \in Foreign : Headed(bytes, hd, id)
    BY <1>5 DEF Whole
  <2>2. id \in 0 .. 127 /\ \A t \in Types : Messages[t].id # id
    BY LinkAssumption
  <2>3. Number(buf[4]) = id /\ h = HeaderOf(m) /\ h.version \in 0 .. 127
    BY <1>3, <2>1, <2>2
  <2>4. found = {}
    BY <2>2, <2>3 DEF found
  <2>5. Called("unknown_midici", <<h>>) /\ Discarding
    BY <1>1, <2>4
  <2>6. calls' = OutcomeOf(m)
    BY <1>5, <2>3, <2>5, OutcomeIs, CallsAre DEF Called
  <2>7. HeaderSize >= Awaited(m)
    BY <1>2, <1>5 DEF Awaited
  <2> QED  BY <1>1, <1>4, <2>3, <2>5, <2>6, <2>7
<1>6. CASE Known(m)
  <2>1. /\ Sendable(c) /\ Headed(bytes, hd, Messages[c.type].id) /\ c.type \in Types
        /\ BodySize(c) \in Nat /\ GoodParts(c) /\ m.needed = HeaderSize + BodySize(c)
        /\ (Fits(m) <=> BodySize(c) <= m.capacity)
    BY <1>6, WholeTypes DEF Whole, Known
  <2>2. Messages[c.type].id \in 0 .. 127
    BY <2>1, IdsApart
  <2>3. /\ Number(buf[4]) = Messages[c.type].id /\ h = HeaderOf(m) /\ h.version = hd.version
        /\ h.version \in 0 .. 127 /\ (forUs <=> ForMe(m))
    BY <1>3, <2>1, <2>2
  <2>4. found = {c.type}
    BY <2>1, <2>3, IdsApart DEF found
  <2>5. CASE ~ForMe(m)
    <3>1. UNCHANGED calls /\ Discarding
      BY <1>1, <2>3, <2>4, <2>5
    <3>2. calls' = <<>> /\ OutcomeOf(m) = <<>>
      BY <1>6, <2>5, <3>1, OutcomeIs
    <3> QED  BY <1>1, <1>4, <2>3, <3>1, <3>2
  <2>6. CASE ForMe(m) /\ FirstSize(c.type, hd.version) = 0
    <3>1. ConsumeNothing(c.type, h)
      BY <1>1, <2>3, <2>4, <2>6
    <3>2. BodySize(c) = 0 /\ Told(m) = <<>>
      BY <1>6, <2>1, <2>6, FirstIs, NothingTold
    <3>3. Fits(m)
      BY <1>2, <2>1, <3>2
    <3>4. Discarding /\ IF c.type \in ProcessInquiry /\ hd.version <= 1 THEN UNCHANGED calls
                        ELSE Called(c.type, <<h, <<>>>>)
      BY <2>3, <3>1 DEF ConsumeNothing
    <3>5. calls' = OutcomeOf(m)
      <4>1. CASE c.type \in ProcessInquiry /\ hd.version <= 1
        BY <1>6, <2>6, <3>3, <3>4, <4>1, OutcomeIs
      <4>2. CASE ~ (c.type \in ProcessInquiry /\ hd.version <= 1)
        <5>1. OutcomeOf(m) = IF c.type \in Handlers
                             THEN <<<<c.type, h, <<>>>>>> ELSE <<>>
          BY <1>6, <2>3, <2>6, <3>2, <3>3, <4>2, OutcomeIs
        <5>2. calls' = IF c.type \in Handlers
                      THEN Append(<<>>, <<c.type>> \o <<h, <<>>>>) ELSE <<>>
          BY <3>4, <4>2 DEF Called
        <5> QED  BY <5>1, <5>2, CallsAre
      <4> QED  BY <4>1, <4>2
    <3>6. HeaderSize >= Awaited(m)
      <4>1. HeaderSize + 0 = HeaderSize /\ HeaderSize >= HeaderSize
        BY <1>2
      <4> QED  BY <1>6, <2>1, <3>2, <3>3, <4>1 DEF Awaited
    <3> QED  BY <1>1, <1>4, <2>3, <3>4, <3>5, <3>6
  <2>7. CASE ForMe(m) /\ FirstSize(c.type, hd.version) # 0
    <3>1. consumer' = c.type /\ count' = FirstSize(c.type, hd.version) /\ calls' = <<>>
      BY <1>1, <2>3, <2>4, <2>7
    <3>2. FirstSize(c.type, hd.version) \in Nat
          /\ FirstSize(c.type, hd.version) = FixedSize(PartsOf(c)[1])
          /\ FixedSize(PartsOf(c)[1]) \in Ends(c)
      BY <2>1, FirstIs, EndsAre
    <3>3. count' \in Nat \ {0} /\ pos' + count' \in Ends(c)
      <4>1. \A n \in Nat : 0 + n = n
        OBVIOUS
      <4> QED  BY <1>1, <2>7, <3>1, <3>2, <4>1
    <3>4. pos' \in 0 .. Len(buffer') /\ HeaderSize + pos' = HeaderSize
      BY <1>1, <1>2
    <3>5. Arrived(c, bytes, HeaderSize, buffer', pos')
      <4>1. BodyLaid(c, bytes, HeaderSize)
        BY <1>6 DEF Whole
      <4> QED  BY <1>1, <4>1 DEF Arrived
    <3>6. header' = HeaderOf(m)
      BY <1>1, <2>3
    <3>7. Reading(m, bytes)'
      <4>1. Taken(m)' = HeaderSize + pos'
        BY <3>4
      <4>2. Known(m)' /\ ForMe(m)' /\ HeaderOf(m)' = HeaderOf(m)
        BY <1>6, <2>7 DEF Known, ForMe, HeaderOf
      <4>3. Arrived(c, bytes, HeaderSize, buffer, pos)'
        BY <3>5 DEF Arrived, BodyLaid
      <4>4. (pos + count \in Ends(c))'
        BY <3>3
      <4> QED  BY <3>1, <3>3, <3>4, <3>6, <4>1, <4>2, <4>3, <4>4 DEF Reading
    <3> QED  BY <1>1, <3>7
  <2> QED  BY <2>5, <2>6, <2>7
<1> QED  BY <1>5, <1>6

-------------------------------------------------------------------------------
(* The bytes.                                                                    *)

\* Store(): the byte is written behind those before; the consumer is called when it was
\* the last that was waited for.
LEMMA Stored ==
  ASSUME buffer \in Seq(Septet), pos \in 0 .. Len(buffer), count \in Nat,
         count > 0 => pos < Len(buffer), NEW byte \in Septet, Store(byte)
  PROVE  /\ count # 0 =>
              \E buf \in Seq(Septet) :
                /\ Len(buf) = Len(buffer) /\ buf[pos + 1] = byte
                /\ \A i \in 1 .. pos : buf[i] = buffer[i]
                /\ IF count = 1 THEN Consume(buf, pos + 1)
                   ELSE Await(count - 1, buf, pos + 1)
         /\ count = 0 => Consume(buffer, pos)
<1>1. ASSUME count # 0
      PROVE  \E buf \in Seq(Septet) :
               /\ Len(buf) = Len(buffer) /\ buf[pos + 1] = byte
               /\ \A i \in 1 .. pos : buf[i] = buffer[i]
               /\ IF count = 1 THEN Consume(buf, pos + 1)
                  ELSE Await(count - 1, buf, pos + 1)
  <2> DEFINE buf == [buffer EXCEPT ![pos + 1] = byte]
  <2>1. count > 0 /\ (count - 1 = 0 <=> count = 1)
    BY <1>1
  <2>2. IF count - 1 = 0 THEN Consume(buf, pos + 1) ELSE Await(count - 1, buf, pos + 1)
    <3> HIDE DEF buf
    <3> QED  BY <2>1 DEF Store, buf
  <2>3. Len(buffer) \in Nat /\ pos + 1 \in 1 .. Len(buffer)
    BY <2>1, LenProperties
  <2>4. buf \in Seq(Septet) /\ Len(buf) = Len(buffer) /\ buf[pos + 1] = byte
    BY <2>3
  <2>5. \A i \in 1 .. pos : buf[i] = buffer[i]
    BY <2>3
  <2> HIDE DEF buf
  <2>6. IF count = 1 THEN Consume(buf, pos + 1) ELSE Await(count - 1, buf, pos + 1)
    BY <2>1, <2>2
  <2> QED  BY <2>4, <2>5, <2>6
<1>2. ASSUME count = 0
      PROVE  Consume(buffer, pos)
  <2>1. ~ (count > 0)
    BY <1>2
  <2> QED  BY <2>1 DEF Store
<1> QED  BY <1>1, <1>2

\* The consumers of headers and of what is passed over.
LEMMA Consumed ==
  ASSUME NEW buf, NEW at, Consume(buf, at)
  PROVE  /\ consumer = "header" => Header(buf)
         /\ consumer = "discard" => Discard(buf)
<1>1. /\ "header" \notin Single /\ "header" \notin WithArray /\ "header" \notin ProcessInquiry
      /\ "header" \notin PropertyExchange /\ "discard" \notin Single
      /\ "discard" \notin WithArray /\ "discard" \notin ProcessInquiry
      /\ "discard" \notin PropertyExchange
  BY ClassesApart
<1> QED  BY <1>1 DEF Consume

\* The number of bytes after which the handlers know of a message.
LEMMA AwaitedType ==
  ASSUME NEW m, NEW bytes, Whole(m, bytes), m.capacity \in Nat
  PROVE  Awaited(m) \in Nat
<1>1. HeaderSize \in Nat /\ (Known(m) => m.needed \in Nat)
  BY WholeTypes
<1>2. HeaderSize + m.capacity + 1 \in Nat
  BY <1>1
<1> QED  BY <1>1, <1>2 DEF Awaited

\* What follows a message that has been handled or passed over is counted only.
LEMMA PastStep ==
  ASSUME NEW m, NEW bytes, Whole(m, bytes), m.capacity \in Nat, Past(m),
         buffer \in Seq(Septet), HeaderSize <= Len(buffer), Taken(m) \in Nat,
         Taken(m)' = Taken(m) + 1, NEW byte \in Septet, Overflow \/ Store(byte)
  PROVE  Past(m)' /\ buffer' \in Seq(Septet) /\ Len(buffer') = Len(buffer)
<1>1. /\ consumer = "discard" /\ header.version \in 0 .. 127
      /\ calls = OutcomeOf(m) /\ (calls # <<>> => Taken(m) >= Awaited(m))
      /\ pos \in Nat /\ count \in Nat /\ pos + count <= Len(buffer) /\ Len(buffer) \in Nat
  BY LenProperties DEF Past
<1>2. pos \in 0 .. Len(buffer) /\ (count > 0 => pos < Len(buffer))
  BY <1>1
<1>3. ~Overflow
  BY <1>1, <1>2 DEF Overflow
<1>4. Store(byte)
  BY <1>3
<1>5. ASSUME UNCHANGED <<header, calls, consumer>>,
             pos' \in Nat, count' \in Nat, pos' + count' <= Len(buffer), Len(buffer') = Len(buffer)
      PROVE  Past(m)'
  <2>1. Awaited(m) \in Nat
    BY AwaitedType
  <2>2. calls' # <<>> => Taken(m)' >= Awaited(m)
    BY <1>1, <1>5, <2>1
  <2> QED  BY <1>1, <1>5, <2>2 DEF Past
<1>6. ASSUME NEW buf \in Seq(Septet), Len(buf) = Len(buffer), Discard(buf)
      PROVE  Past(m)' /\ buffer' = buf
  <2>1. /\ UNCHANGED <<header, calls, consumer>>
        /\ pos' = 0 /\ count' = Len(buffer) /\ buffer' = buf
    BY <1>6 DEF Discard
  <2>2. 0 + Len(buffer) <= Len(buffer) /\ 0 \in Nat
    BY <1>1
  <2> QED  BY <1>1, <1>5, <1>6, <2>1, <2>2
<1>7. CASE count = 0
  <2>1. Discard(buffer)
    BY <1>1, <1>2, <1>4, <1>7, Stored, Consumed
  <2> QED  BY <1>6, <2>1
<1>8. CASE count # 0
  <2>1. PICK buf \in Seq(Septet) :
          /\ Len(buf) = Len(buffer)
          /\ IF count = 1 THEN Consume(buf, pos + 1) ELSE Await(count - 1, buf, pos + 1)
    BY <1>1, <1>2, <1>4, <1>8, Stored
  <2>2. CASE count = 1
    BY <1>1, <1>6, <2>1, <2>2, Consumed
  <2>3. CASE count # 1
    <3>1. /\ UNCHANGED <<header, calls, consumer>>
          /\ pos' = pos + 1 /\ count' = count - 1 /\ buffer' = buf
      BY <2>1, <2>3 DEF Await
    <3>2. pos + 1 \in Nat /\ count - 1 \in Nat /\ (pos + 1) + (count - 1) <= Len(buffer)
      BY <1>1, <1>8
    <3> QED  BY <1>5, <2>1, <3>1, <3>2
  <2> QED  BY <2>2, <2>3
<1> QED  BY <1>7, <1>8

\* A byte of the header.
LEMMA HeadingStep ==
  ASSUME NEW m, NEW bytes, Whole(m, bytes), UnderWay(m, bytes), Heading(m, bytes),
         buffer \in Seq(Septet), HeaderSize <= Len(buffer),
         Taken(m)' = Taken(m) + 1, NEW byte \in Septet, byte = bytes[Taken(m) + 1],
         Overflow \/ Store(byte)
  PROVE  /\ Heading(m, bytes)' \/ Reading(m, bytes)' \/ Past(m)'
         /\ buffer' \in Seq(Septet) /\ Len(buffer') = Len(buffer)
<1>1. /\ consumer = "header" /\ header.version \in 0 .. 127 /\ calls = <<>>
      /\ pos \in Nat /\ count \in Nat \ {0} /\ pos + count = HeaderSize /\ Taken(m) = pos
      /\ \A i \in 1 .. pos : buffer[i] = bytes[i]
      /\ Len(buffer) \in Nat /\ HeaderSize \in Nat
  BY LenProperties, WholeTypes DEF Heading
<1>2. pos \in 0 .. Len(buffer) /\ pos < Len(buffer)
  BY <1>1
<1>3. ~Overflow
  BY <1>1, <1>2 DEF Overflow
<1>4. PICK buf \in Seq(Septet) :
        /\ Len(buf) = Len(buffer) /\ buf[pos + 1] = byte
        /\ \A i \in 1 .. pos : buf[i] = buffer[i]
        /\ IF count = 1 THEN Consume(buf, pos + 1) ELSE Await(count - 1, buf, pos + 1)
  BY <1>1, <1>2, <1>3, Stored
<1>5. \A i \in 1 .. pos + 1 : buf[i] = bytes[i]
  <2>1. \A i \in 1 .. pos + 1 : i \in 1 .. pos \/ i = pos + 1
    BY <1>1
  <2> QED  BY <1>1, <1>4, <2>1
<1>6. CASE count = 1
  <2>1. Header(buf)
    BY <1>1, <1>4, <1>6, Consumed
  <2>2. pos + 1 = HeaderSize
    BY <1>1, <1>6
  <2>3. Taken(m)' = HeaderSize /\ \A i \in 1 .. HeaderSize : buf[i] = bytes[i]
    BY <1>1, <1>5, <2>2
  <2>4. (Reading(m, bytes)' \/ Past(m)') /\ buffer' = buf
    BY <1>1, <1>4, <2>1, <2>3, HeaderStep
  <2> QED  BY <1>4, <2>4
<1>7. CASE count # 1
  <2>1. /\ UNCHANGED <<consumer, header, calls>>
        /\ pos' = pos + 1 /\ count' = count - 1 /\ buffer' = buf
    BY <1>4, <1>7 DEF Await
  <2>2. pos + 1 \in Nat /\ count - 1 \in Nat \ {0} /\ (pos + 1) + (count - 1) = HeaderSize
    BY <1>1, <1>7
  <2>3. Heading(m, bytes)'
    BY <1>1, <1>5, <2>1, <2>2 DEF Heading
  <2> QED  BY <1>4, <2>1, <2>3
<1> QED  BY <1>6, <1>7

\* The version of a message is the one its header says.
LEMMA VersionOf ==
  ASSUME NEW m, m.content.header \in Headers
  PROVE  /\ HeaderOf(m).version = m.content.header.version
         /\ m.content.header.version \in 0 .. 127
<1> DEFINE hd == m.content.header
<1>1. HeaderOf(m) = [device_id |-> m.device_id, version |-> hd.version,
                     remote_muid |-> hd.remote_muid, local_muid |-> hd.local_muid]
      /\ hd.version \in 0 .. 127
  BY HeaderFields DEF HeaderOf
<1> QED  BY <1>1

\* The last byte of the body: the handler is told what was sent.
LEMMA HandledIs ==
  ASSUME NEW m, NEW bytes, Whole(m, bytes), Known(m), ForMe(m), header = HeaderOf(m),
         calls = <<>>, consumer = m.content.type, m.capacity = Len(buffer),
         NEW buf \in Seq(Septet), Len(buf) = Len(buffer),
         BodySize(m.content) <= Len(buffer),
         Arrived(m.content, bytes, HeaderSize, buf, BodySize(m.content)),
         Taken(m)' = HeaderSize + BodySize(m.content),
         IF m.content.type \in ProcessInquiry THEN HandleInquiry(buf, BodySize(m.content))
         ELSE Handle(buf, BodySize(m.content))
  PROVE  Past(m)' /\ buffer' = buf
<1> DEFINE c == m.content
           e == BodySize(c)
<1>1. /\ Sendable(c) /\ GoodParts(c) /\ e \in Nat /\ m.needed = HeaderSize + e
      /\ (Fits(m) <=> e <= m.capacity) /\ HeaderSize \in Nat
      /\ c.header \in Headers /\ Len(buffer) \in Nat
  <2>1. Len(buf) \in Nat
    BY LenProperties
  <2> QED  BY <2>1, WholeTypes DEF Whole
<1>2. Fits(m) /\ Awaited(m) = HeaderSize + e
  BY <1>1 DEF Awaited
<1>3. header.version = c.header.version /\ header.version \in 0 .. 127
  BY <1>1, VersionOf
<1>4. Made(c.type, buf) = Told(m)
  <2>1. BodyLaid(c, bytes, HeaderSize) /\ \A i \in 1 .. e : buf[i] = bytes[HeaderSize + i]
    BY DEF Arrived
  <2>2. \A i \in 1 .. e : buf[0 + i] = bytes[HeaderSize + i]
    <3>1. \A i \in 1 .. e : 0 + i = i
      BY <1>1
    <3> HIDE DEF e
    <3> QED  BY <2>1, <3>1
  <2>3. BodyLaid(c, buf, 0)
    <3>1. 0 \in Nat
      OBVIOUS
    <3> QED  BY <1>1, <2>1, <2>2, <3>1, BodyMoved
  <2>4. DOMAIN c.object = Members(Messages[c.type].v2) /\ c.type \in Types
    BY <1>1 DEF Sendable, IsMessage
  <2>5. BodySize(c) <= Len(buf)
    OBVIOUS
  <2> QED  BY <1>1, <1>3, <2>3, <2>4, <2>5, MadeIs
<1> HIDE DEF e
<1>5. ASSUME calls' = OutcomeOf(m), Discarding, pos' = e, buffer' = buf, UNCHANGED header
      PROVE  Past(m)'
  <2>1. consumer' = "discard" /\ count' = 0
    BY <1>5 DEF Discarding
  <2>2. \A x, n \in Nat : x <= n => 0 \in Nat /\ x + 0 <= n
    OBVIOUS
  <2>3. pos' \in Nat /\ count' \in Nat /\ pos' + count' <= Len(buffer')
    BY <1>1, <1>5, <2>1, <2>2 DEF e
  <2>4. \A x \in Nat : x >= x
    OBVIOUS
  <2>5. HeaderSize + e \in Nat
    BY <1>1
  <2>6. Taken(m)' >= Awaited(m)
    BY <1>2, <2>4, <2>5 DEF e
  <2> QED  BY <1>3, <1>5, <2>1, <2>3, <2>6 DEF Past
<1>6. ASSUME Handle(buf, e), ~ (c.type \in ProcessInquiry /\ c.header.version <= 1)
      PROVE  Past(m)' /\ buffer' = buf
  <2>1. /\ calls' = IF c.type \in Handlers
                    THEN Append(<<>>, <<c.type>> \o <<header, Made(c.type, buf)>>) ELSE <<>>
        /\ Discarding /\ pos' = e /\ buffer' = buf /\ UNCHANGED header
    BY <1>6 DEF Handle, Called
  <2>2. OutcomeOf(m) = IF c.type \in Handlers THEN <<<<c.type, header, Made(c.type, buf)>>>>
                       ELSE <<>>
    BY <1>2, <1>4, <1>6, OutcomeIs
  <2>3. calls' = OutcomeOf(m)
    BY <2>1, <2>2, CallsAre
  <2> QED  BY <1>5, <2>1, <2>3
<1>7. CASE c.type \in ProcessInquiry
  <2>1. HandleInquiry(buf, e)
    BY <1>7 DEF e
  <2>2. CASE header.version > 1 /\ Handle(buf, e)
    <3>1. ~ (c.header.version <= 1)
      <4>1. \A v \in 0 .. 127 : v > 1 => ~ (v <= 1)
        OBVIOUS
      <4> QED  BY <1>3, <2>2, <4>1
    <3> QED  BY <1>6, <2>2, <3>1
  <2>3. CASE ~ (header.version > 1 /\ Handle(buf, e))
    <3>1. /\ header.version <= 1 /\ Discarding /\ pos' = e /\ buffer' = buf
          /\ UNCHANGED <<header, calls>>
      BY <2>1, <2>3 DEF HandleInquiry
    <3>2. calls' = OutcomeOf(m)
      BY <1>2, <1>3, <1>7, <3>1, OutcomeIs
    <3> QED  BY <1>5, <3>1, <3>2
  <2> QED  BY <2>2, <2>3
<1>8. CASE c.type \notin ProcessInquiry
  BY <1>6, <1>8 DEF e
<1> QED  BY <1>7, <1>8

\* A byte of the body: it is kept, and what was expected of the message goes on, or the
\* message is handled, or the buffer overflows and the rest is passed over.
LEMMA ReadingStep ==
  ASSUME NEW m, NEW bytes, Whole(m, bytes), UnderWay(m, bytes), Reading(m, bytes),
         buffer \in Seq(Septet), HeaderSize <= Len(buffer),
         Taken(m)' = Taken(m) + 1, NEW byte \in Septet, byte = bytes[Taken(m) + 1],
         Overflow \/ ((count > 0 => pos < Len(buffer)) /\ Store(byte))
  PROVE  /\ Reading(m, bytes)' \/ Past(m)'
         /\ buffer' \in Seq(Septet) /\ Len(buffer') = Len(buffer)
<1> DEFINE c == m.content
<1>1. /\ Known(m) /\ ForMe(m)
      /\ consumer = c.type /\ header = HeaderOf(m) /\ calls = <<>>
      /\ pos \in 0 .. Len(buffer) /\ count \in Nat \ {0} /\ Taken(m) = HeaderSize + pos
      /\ pos + count \in Ends(c) /\ Arrived(c, bytes, HeaderSize, buffer, pos)
      /\ Len(buffer) \in Nat /\ pos \in Nat
  BY LenProperties DEF Reading
<1>2. /\ Sendable(c) /\ GoodParts(c) /\ BodySize(c) \in Nat /\ m.capacity = Len(buffer)
      /\ (Fits(m) <=> BodySize(c) <= m.capacity) /\ HeaderSize \in Nat
      /\ c.header \in Headers /\ c.type \in Types
  BY <1>1, WholeTypes DEF Whole, UnderWay, Known
<1>3. pos + count <= BodySize(c) /\ \A e \in Ends(c) : e \in Nat /\ e <= BodySize(c)
  BY <1>1, <1>2, EndsAre
<1>4. header.version = c.header.version /\ header.version \in 0 .. 127
  BY <1>1, <1>2, VersionOf
<1>5. CASE Overflow
  <2>1. /\ pos >= Len(buffer) /\ Called("buffer_overflow", <<>>)
        /\ Discarding /\ pos' = 0 /\ UNCHANGED <<buffer, header>>
    BY <1>5 DEF Overflow
  <2>2. pos = Len(buffer) /\ ~ (BodySize(c) <= Len(buffer))
    BY <1>1, <1>2, <1>3, <2>1
  <2>3. ~Fits(m)
    BY <1>2, <2>2
  <2>4. calls' = OutcomeOf(m)
    BY <1>1, <2>1, <2>3, OutcomeIs, CallsAre DEF Called
  <2>5. Awaited(m) = Taken(m)'
    BY <1>1, <1>2, <2>2, <2>3 DEF Awaited
  <2>6. \A x \in Nat : x >= x /\ 0 + 0 <= x /\ 0 \in Nat
    OBVIOUS
  <2>7. Awaited(m) \in Nat
    BY <1>2, <1>1, AwaitedType
  <2>8. Past(m)'
    BY <1>1, <1>4, <2>1, <2>4, <2>5, <2>6, <2>7 DEF Past, Discarding
  <2> QED  BY <2>1, <2>8
<1>6. CASE ~Overflow
  <2>1. Store(byte) /\ pos < Len(buffer)
    BY <1>1, <1>6
  <2>2. PICK buf \in Seq(Septet) :
          /\ Len(buf) = Len(buffer) /\ buf[pos + 1] = byte
          /\ \A i \in 1 .. pos : buf[i] = buffer[i]
          /\ IF count = 1 THEN Consume(buf, pos + 1) ELSE Await(count - 1, buf, pos + 1)
    BY <1>1, <2>1, Stored
  <2>3. Arrived(c, bytes, HeaderSize, buf, pos + 1)
    <3>1. BodyLaid(c, bytes, HeaderSize) /\ \A i \in 1 .. pos : buffer[i] = bytes[HeaderSize + i]
      BY <1>1 DEF Arrived
    <3>2. (HeaderSize + pos) + 1 = HeaderSize + (pos + 1)
      BY <1>1, <1>2
    <3>3. \A i \in 1 .. pos + 1 : i \in 1 .. pos \/ i = pos + 1
      BY <1>1
    <3>4. buf[pos + 1] = bytes[HeaderSize + (pos + 1)]
      BY <1>1, <2>2, <3>2
    <3>5. \A i \in 1 .. pos + 1 : buf[i] = bytes[HeaderSize + i]
      BY <2>2, <3>1, <3>3, <3>4
    <3> QED  BY <3>1, <3>5 DEF Arrived
  <2>4. Taken(m)' = HeaderSize + (pos + 1)
    BY <1>1, <1>2
  <2>5. pos + 1 \in 0 .. Len(buffer) /\ pos + 1 \in Nat
    BY <1>1, <2>1
  <2>6. ASSUME NEW n \in Nat \ {0}, (pos + 1) + n \in Ends(c), Await(n, buf, pos + 1)
        PROVE  Reading(m, bytes)' /\ buffer' = buf
    <3>1. /\ UNCHANGED <<consumer, header, calls>>
          /\ pos' = pos + 1 /\ count' = n /\ buffer' = buf
      BY <2>6 DEF Await
    <3>2. Known(m)' /\ ForMe(m)' /\ HeaderOf(m)' = HeaderOf(m)
      BY <1>1 DEF Known, ForMe, HeaderOf
    <3>3. Arrived(c, bytes, HeaderSize, buffer, pos)'
      BY <2>3, <3>1 DEF Arrived, BodyLaid
    <3>4. (pos + count \in Ends(c))'
      BY <2>6, <3>1
    <3>5. pos' \in 0 .. Len(buffer') /\ count' \in Nat \ {0} /\ Taken(m)' = HeaderSize + pos'
      BY <2>2, <2>4, <2>5, <3>1
    <3> QED  BY <1>1, <3>1, <3>2, <3>3, <3>4, <3>5 DEF Reading
  <2>7. CASE count # 1
    <3>1. count - 1 \in Nat \ {0} /\ (pos + 1) + (count - 1) = pos + count
      BY <1>1, <2>7
    <3>2. Await(count - 1, buf, pos + 1)
      BY <2>2, <2>7
    <3> QED  BY <1>1, <2>2, <2>6, <3>1, <3>2
  <2>8. CASE count = 1
    <3>1. Consume(buf, pos + 1) /\ pos + 1 \in Ends(c) /\ pos + 1 <= Len(buf)
      BY <1>1, <2>1, <2>2, <2>8
    <3>2. \/ /\ pos + 1 = BodySize(c)
             /\ IF c.type \in ProcessInquiry THEN HandleInquiry(buf, pos + 1)
                ELSE Handle(buf, pos + 1)
          \/ \E n \in Nat \ {0} : (pos + 1) + n \in Ends(c) /\ Await(n, buf, pos + 1)
      BY <1>1, <1>2, <1>4, <2>3, <3>1, Stage
    <3>3. CASE \E n \in Nat \ {0} : (pos + 1) + n \in Ends(c) /\ Await(n, buf, pos + 1)
      BY <2>2, <2>6, <3>3
    <3>4. CASE /\ pos + 1 = BodySize(c)
               /\ IF c.type \in ProcessInquiry THEN HandleInquiry(buf, pos + 1)
                  ELSE Handle(buf, pos + 1)
      <4>1. BodySize(c) <= Len(buffer)
        BY <2>2, <3>1, <3>4
      <4>2. Past(m)' /\ buffer' = buf
        BY <1>1, <1>2, <2>2, <2>3, <2>4, <3>4, <4>1, HandledIs
      <4> QED  BY <2>2, <4>2
    <3> QED  BY <3>2, <3>3, <3>4
  <2> QED  BY <2>7, <2>8
<1> QED  BY <1>5, <1>6

\* The byte that is received is the next one of the message under way.
LEMMA ReceiveInv ==
  ASSUME Inv, Receive
  PROVE  /\ Inv' /\ sent' = sent
         /\ \E m, bytes : /\ sent = {m} /\ Flow(m, bytes) /\ Flow(m, bytes)'
                           /\ Taken(m)' = Taken(m) + 1
<1>1. /\ wire # <<>> /\ wire' = Tail(wire) /\ sent' = sent
      /\ Overflow \/ ((count > 0 => pos < Len(buffer)) /\ Store(Head(wire)))
      /\ UNCHANGED settings
  BY DEF Receive, Dispatch
<1>2. buffer \in Seq(Septet) /\ HeaderSize <= Len(buffer) /\ Len(buffer) \in Nat
  BY LenProperties DEF Inv
<1>3. PICK m, bytes : sent = {m} /\ Flow(m, bytes)
  BY <1>1 DEF Inv, Ready
<1>4. Whole(m, bytes) /\ UnderWay(m, bytes) /\ (Heading(m, bytes) \/ Reading(m, bytes) \/ Past(m))
  BY <1>3 DEF Flow
<1>5. /\ Taken(m) \in Nat /\ m.capacity = Len(buffer)
      /\ Taken(m)' = Taken(m) + 1
      /\ Head(wire) = bytes[Taken(m) + 1] /\ Head(wire) \in Septet
  <2>1. wire \in Seq(Septet) /\ Head(wire) \in Septet /\ Head(wire) = wire[1]
        /\ Len(Tail(wire)) = Len(wire) - 1 /\ Len(wire) \in Nat \ {0}
    <3>1. wire \in Seq(Septet)
      BY <1>4 DEF UnderWay
    <3> QED  BY <1>1, <3>1
  <2>2. m.size \in Nat /\ Taken(m) \in Nat
    BY <1>4, WholeTypes, WireTypes
  <2>3. Taken(m)' = Taken(m) + 1
    <3>1. Taken(m)' = m.size - (Len(wire) - 1)
      BY <1>1, <2>1 DEF Taken
    <3>2. \A s \in Nat, l \in Nat \ {0} : s - (l - 1) = (s - l) + 1
      OBVIOUS
    <3> QED  BY <2>1, <2>2, <3>1, <3>2 DEF Taken
  <2>4. Head(wire) = bytes[Taken(m) + 1]
    <3>1. \A i \in 1 .. Len(wire) : wire[i] = bytes[Taken(m) + i]
      BY <1>4 DEF UnderWay
    <3>2. 1 \in 1 .. Len(wire)
      BY <2>1
    <3> QED  BY <2>1, <3>1, <3>2
  <2> QED  BY <1>4, <2>1, <2>2, <2>3, <2>4 DEF UnderWay
<1>6. /\ Heading(m, bytes)' \/ Reading(m, bytes)' \/ Past(m)'
      /\ buffer' \in Seq(Septet) /\ Len(buffer') = Len(buffer)
  <2>1. CASE Heading(m, bytes)
    BY <1>1, <1>2, <1>4, <1>5, <2>1, HeadingStep
  <2>2. CASE Reading(m, bytes)
    BY <1>1, <1>2, <1>4, <1>5, <2>2, ReadingStep
  <2>3. CASE Past(m)
    <3>1. m.capacity \in Nat
      BY <1>2, <1>5
    <3> QED  BY <1>1, <1>2, <1>4, <1>5, <2>3, <3>1, PastStep
  <2> QED  BY <1>4, <2>1, <2>2, <2>3
<1>7. UnderWay(m, bytes)'
  BY <1>1, <1>4, <1>6, TakeByte
<1>8. Whole(m, bytes)'
  BY <1>4 DEF Whole, Known, BodyLaid, Headed
<1>9. Flow(m, bytes)'
  BY <1>6, <1>7, <1>8 DEF Flow
<1>10. Inv'
  BY <1>1, <1>2, <1>3, <1>6, <1>9 DEF Inv
<1> QED  BY <1>1, <1>3, <1>5, <1>9, <1>10

\* A message that create_message() has written goes on the wire.
LEMMA SendBegins ==
  ASSUME Inv, NEW c \in Content, NEW room \in Rooms, NEW more \in Extra, Send(c, room, more)
  PROVE  Inv' /\ wire' # <<>> /\ calls' = calls /\ \E m : sent' = {m}
<1>1. IsMessage(c) /\ room \in Nat /\ more \in Seq(Septet)
  BY LinkAssumption DEF Septet
<1> DEFINE out == CreateMessage(c.type, c.header, c.object, room)
<1>2. sent = {} /\ out.at \notin {0, room} /\ Begin(c, out.bytes, more)
  BY DEF Send
<1>3. /\ Sendable(c)
      /\ out.bytes \in Seq(Septet) /\ Len(out.bytes) = HeaderSize + BodySize(c)
      /\ Headed(out.bytes, c.header, Messages[c.type].id)
      /\ BodyLaid(c, out.bytes, HeaderSize)
  BY <1>1, <1>2, CreateIs
<1> HIDE DEF out
<1>4. HeaderSize <= Len(out.bytes)
  <2>1. BodySize(c) \in Nat /\ HeaderSize \in Nat
    BY <1>3, EndsAre DEF HeaderSize
  <2> QED  BY <1>3, <2>1
<1>5. c.type \in Types /\ c.header \in Headers
  BY <1>1 DEF IsMessage
<1> QED  BY <1>1, <1>2, <1>3, <1>4, <1>5, BeginFlow

\* A message of an unknown sub-ID goes on the wire.
LEMMA ForeignBegins ==
  ASSUME Inv, NEW c \in Content, NEW id \in Foreign, SendForeign(c.header, id)
  PROVE  Inv' /\ wire' # <<>> /\ calls' = calls /\ \E m : sent' = {m}
<1>1. c.header \in Headers /\ id \in 0 .. 127
  BY LinkAssumption DEF IsMessage
<1> DEFINE d == [type |-> "unknown", header |-> c.header]
           bytes == PackedHeader(c.header, id)
<1>2. bytes \in Seq(Septet) /\ Len(bytes) = HeaderSize /\ Headed(bytes, c.header, id)
  BY <1>1, HeaderPacked
<1>3. <<{0}, {1}>> \in Seq(Septet)
  BY DEF Septet, b7
<1>4. sent = {} /\ Begin(d, bytes, <<{0}, {1}>>)
  BY DEF SendForeign
<1>5. d.type \notin Types /\ d.header = c.header
  BY NamesApart
<1>6. HeaderSize <= Len(bytes)
  BY <1>2 DEF HeaderSize
<1> HIDE DEF d, bytes
<1> QED  BY <1>1, <1>2, <1>3, <1>4, <1>5, <1>6, BeginFlow

\* Every step keeps the invariant.
LEMMA NextInv ==
  Inv /\ [Next]_vars => Inv'
<1> SUFFICES ASSUME Inv, [Next]_vars
             PROVE  Inv'
  OBVIOUS
<1>1. ASSUME sent = {}, UNCHANGED <<received, wire, sent>>
      PROVE  Inv'
  BY <1>1 DEF Inv, received, Ready
<1>2. CASE \E g \in Groups : set_group(g)
  BY <1>1, <1>2 DEF set_group
<1>3. CASE \E d \in DeviceIds : set_device_id(d)
  BY <1>1, <1>3 DEF set_device_id
<1>4. CASE \E m \in Content, room \in Rooms, extra \in Extra : Send(m, room, extra)
  BY <1>4, SendBegins
<1>5. CASE \E m \in Content, id \in Foreign : SendForeign(m.header, id)
  BY <1>5, ForeignBegins
<1>6. CASE Receive
  BY <1>6, ReceiveInv
<1>7. CASE Finish \/ CutOff
  <2>1. Renew /\ wire' = <<>> /\ sent' = {}
    BY <1>7 DEF Finish, CutOff
  <2> QED  BY <2>1, RenewReady DEF Inv
<1>8. CASE UNCHANGED vars
  <2>1. UNCHANGED <<count, pos, buffer, consumer, header, calls, group, device_id, wire, sent>>
    BY <1>8 DEF vars, received, settings
  <2>2. CASE sent = {}
    BY <1>1, <2>1, <2>2 DEF received
  <2>3. CASE sent # {}
    <3>1. PICK m, bytes : sent = {m} /\ Flow(m, bytes)
      BY <2>3 DEF Inv
    <3>2. Flow(m, bytes)'
      BY <2>1, <3>1 DEF Flow, Whole, Known, BodyLaid, Headed, UnderWay, Taken, Heading, Reading,
         Past, ForMe, Arrived, HeaderOf
    <3> QED  BY <2>1, <3>1, <3>2 DEF Inv
  <2> QED  BY <2>2, <2>3
<1> QED  BY <1>2, <1>3, <1>4, <1>5, <1>6, <1>7, <1>8 DEF Next

\* The calls are those of a message as soon as they must be.
LEMMA FlowPrompt ==
  ASSUME NEW m, NEW bytes, Flow(m, bytes), Len(buffer) \in Nat
  PROVE  calls = IF Taken(m) >= Awaited(m) THEN OutcomeOf(m) ELSE <<>>
<1>1. Whole(m, bytes) /\ m.capacity = Len(buffer) /\ m.capacity \in Nat
  BY DEF Flow, UnderWay
<1>2. HeaderSize \in Nat /\ Awaited(m) \in Nat
  BY <1>1, WholeTypes, AwaitedType
<1>3. CASE Heading(m, bytes)
  <2>1. pos \in Nat /\ count \in Nat \ {0} /\ pos + count = HeaderSize /\ Taken(m) = pos
        /\ calls = <<>>
    BY <1>3 DEF Heading
  <2>2. HeaderSize <= Awaited(m)
    <3>1. CASE ~Known(m)
      BY <1>2, <3>1 DEF Awaited
    <3>2. CASE Known(m) /\ Fits(m)
      <4>1. BodySize(m.content) \in Nat /\ m.needed = HeaderSize + BodySize(m.content)
        BY <1>1, <3>2, WholeTypes DEF Whole
      <4>2. HeaderSize <= m.needed
        BY <1>2, <4>1
      <4> QED  BY <3>2, <4>2 DEF Awaited
    <3>3. CASE Known(m) /\ ~Fits(m)
      <4>1. HeaderSize <= HeaderSize + m.capacity + 1
        BY <1>1, <1>2
      <4> QED  BY <3>3, <4>1 DEF Awaited
    <3> QED  BY <3>1, <3>2, <3>3
  <2>3. ~ (Taken(m) >= Awaited(m))
    BY <1>2, <2>1, <2>2
  <2> QED  BY <2>1, <2>3
<1>4. CASE Reading(m, bytes)
  <2>1. /\ Known(m) /\ pos \in 0 .. Len(buffer) /\ count \in Nat \ {0}
        /\ Taken(m) = HeaderSize + pos /\ pos + count \in Ends(m.content) /\ calls = <<>>
    BY <1>4 DEF Reading
  <2>2. /\ Sendable(m.content) /\ m.needed = HeaderSize + BodySize(m.content)
        /\ BodySize(m.content) \in Nat
    BY <1>1, <2>1, WholeTypes DEF Whole
  <2>3. pos + count <= BodySize(m.content)
    BY <2>1, <2>2, EndsAre
  <2>4. ~ (Taken(m) >= Awaited(m))
    <3>1. CASE Fits(m)
      <4>1. Awaited(m) = HeaderSize + BodySize(m.content)
        BY <2>1, <2>2, <3>1 DEF Awaited
      <4> QED  BY <1>2, <2>1, <2>2, <2>3, <4>1
    <3>2. CASE ~Fits(m)
      <4>1. Awaited(m) = HeaderSize + m.capacity + 1
        BY <2>1, <3>2 DEF Awaited
      <4> QED  BY <1>1, <1>2, <2>1, <4>1
    <3> QED  BY <3>1, <3>2
  <2> QED  BY <2>1, <2>4
<1>5. CASE Past(m)
  BY <1>5 DEF Past
<1> QED  BY <1>3, <1>4, <1>5 DEF Flow

\* The variables have their types in every phase of a message.
LEMMA TypesFollow ==
  Inv => TypeOK
<1> SUFFICES ASSUME Inv
             PROVE  TypeOK
  OBVIOUS
<1>1. buffer \in Seq(Septet) /\ HeaderSize <= Len(buffer) /\ Len(buffer) \in Nat
  BY LenProperties DEF Inv
<1>2. HeaderSize \in Nat
  BY DEF HeaderSize
<1>3. "header" \notin Types /\ "discard" \notin Types
  BY NamesApart
<1>4. ASSUME Ready
      PROVE  TypeOK
  <2>1. <<>> \in Seq(SUBSET b7) /\ \A x \in Nat : 0 + x = x /\ 0 \in 0 .. x
    OBVIOUS
  <2> QED  BY <1>1, <1>2, <1>3, <1>4, <2>1 DEF Ready, TypeOK
<1>5. ASSUME NEW m, NEW bytes, Flow(m, bytes)
      PROVE  TypeOK
  <2>1. wire \in Seq(SUBSET b7)
    BY <1>5 DEF Flow, UnderWay, Septet
  <2>2. CASE Heading(m, bytes)
    <3>1. pos \in 0 .. Len(buffer)
      BY <1>1, <1>2, <2>2 DEF Heading
    <3> QED  BY <1>3, <2>1, <2>2, <3>1 DEF Heading, TypeOK
  <2>3. CASE Reading(m, bytes)
    <3>1. m.content.type \in Types /\ m.content.header \in Headers
      BY <1>5, <2>3 DEF Flow, Whole, Known, Reading
    <3>2. header.version \in 0 .. 127
      BY <2>3, <3>1, VersionOf DEF Reading
    <3>3. count > 0
      BY <2>3 DEF Reading
    <3>4. consumer \in Types /\ consumer # "header" /\ consumer # "discard"
              /\ pos \in 0 .. Len(buffer)
      BY <1>3, <2>3, <3>1 DEF Reading
    <3> QED  BY <2>1, <3>2, <3>3, <3>4 DEF TypeOK
  <2>4. CASE Past(m)
    <3>1. pos \in 0 .. Len(buffer)
      BY <1>1, <2>4 DEF Past
    <3> QED  BY <1>3, <2>1, <2>4, <3>1 DEF Past, TypeOK
  <2> QED  BY <1>5, <2>2, <2>3, <2>4 DEF Flow
<1> QED  BY <1>4, <1>5 DEF Inv

\* The calls are those that the message on the wire must have caused by now.
LEMMA PromptFollows ==
  Inv => Prompt
<1> SUFFICES ASSUME Inv
             PROVE  Prompt
  OBVIOUS
<1>1. Len(buffer) \in Nat
  BY LenProperties DEF Inv
<1>2. CASE sent = {}
  BY <1>2 DEF Prompt
<1>3. CASE sent # {}
  <2>1. PICK m, bytes : sent = {m} /\ Flow(m, bytes)
    BY <1>3 DEF Inv
  <2>2. calls = IF Taken(m) >= Awaited(m) THEN OutcomeOf(m) ELSE <<>>
    BY <1>1, <2>1, FlowPrompt
  <2> QED  BY <2>1, <2>2 DEF Prompt, Taken
<1> QED  BY <1>2, <1>3

\* The buffer of a ci_dispatcher, the byte it waits for, its consumer and the header it
\* keeps have their types whatever is sent: process() writes within the buffer only.
THEOREM CiLinkTypes == Spec => []TypeOK
<1>1. Inv => TypeOK
  BY TypesFollow
<1> QED  BY InitInv, NextInv, <1>1, PTL DEF Spec

\* The handlers of a ci_dispatcher are called when the last byte arrives that their
\* message needs, once, with the header and the values that create_message() was given;
\* before, and for what is not for this device or does not fit, they are not.  This is
\* so for the messages of LinkAssumption: not for a NAK of version 1, nor for the reply
\* to a profile inquiry without enabled profiles, which the dispatcher misreads.
THEOREM CalledPromptly == Spec => []Prompt
<1>1. Inv => Prompt
  BY PromptFollows
<1> QED  BY InitInv, NextInv, <1>1, PTL DEF Spec

-------------------------------------------------------------------------------
(* What the receiver promises.                                                   *)

\* Nothing has been sent or told at first.
LEMMA TransferInit ==
  Init => Transfer!Init
BY DEF Init, New, Transfer!Init

\* The same after a step.
LEMMA PromptNext ==
  Inv' => Prompt'
BY PromptFollows, PTL

\* The bytes that decide what is told are all within the message.
LEMMA AwaitedComes ==
  ASSUME NEW m, NEW bytes, Whole(m, bytes), m.capacity \in Nat
  PROVE  m.size \in Nat /\ Awaited(m) <= m.size
<1>1. m.size \in Nat /\ HeaderSize \in Nat /\ HeaderSize <= m.size
  BY WholeTypes DEF Whole
<1>2. CASE ~Known(m)
  BY <1>1, <1>2 DEF Awaited
<1>3. CASE Known(m)
  <2>1. /\ BodySize(m.content) \in Nat /\ m.needed = HeaderSize + BodySize(m.content)
        /\ m.needed <= m.size /\ (Fits(m) <=> BodySize(m.content) <= m.capacity)
    BY <1>3, WholeTypes DEF Whole
  <2>2. CASE Fits(m)
    BY <1>1, <1>3, <2>1, <2>2 DEF Awaited
  <2>3. CASE ~Fits(m)
    <3>1. Awaited(m) = HeaderSize + m.capacity + 1
      BY <1>3, <2>3 DEF Awaited
    <3>2. \A h, k, b, z \in Nat : h + b <= z /\ ~ (b <= k) => h + k + 1 <= z
      OBVIOUS
    <3>3. HeaderSize + BodySize(m.content) <= m.size
      BY <2>1
    <3> QED  BY <1>1, <2>1, <2>3, <3>1, <3>2, <3>3
  <2> QED  BY <2>2, <2>3
<1> QED  BY <1>2, <1>3

\* A byte received is no step of the transfer, or the answer to the message, or its end.
LEMMA ReceiveTransfers ==
  ASSUME Inv, Receive
  PROVE  [Transfer!Next]_(Transfer!vars)
<1>1. PICK m, bytes : /\ sent = {m} /\ Flow(m, bytes) /\ Flow(m, bytes)'
                      /\ Taken(m)' = Taken(m) + 1
  BY ReceiveInv
<1>2. /\ sent' = {m} /\ Inv' /\ wire # <<>> /\ Len(buffer) \in Nat
      /\ Whole(m, bytes) /\ UnderWay(m, bytes) /\ UnderWay(m, bytes)'
  BY <1>1, ReceiveInv, LenProperties DEF Inv, Flow, Receive
<1>3. calls = IF Taken(m) >= Awaited(m) THEN OutcomeOf(m) ELSE <<>>
  BY <1>1, <1>2, FlowPrompt
<1>4. calls' = IF Taken(m) + 1 >= Awaited(m) THEN OutcomeOf(m) ELSE <<>>
  <2>1. Prompt'
    BY <1>2, PromptNext
  <2> QED  BY <1>1, <1>2, <2>1 DEF Prompt, Taken
<1>5. /\ m.capacity = Len(buffer) /\ Awaited(m) \in Nat /\ Taken(m) \in Nat
      /\ m.size \in Nat /\ Awaited(m) <= m.size
  BY <1>2, AwaitedType, AwaitedComes, WireTypes DEF UnderWay
<1>6. CASE calls' # calls
  <2>1. calls = <<>> /\ calls' = OutcomeOf(m)
    BY <1>3, <1>4, <1>5, <1>6
  <2>2. OutcomeOf(m) # <<>>
    BY <1>6, <2>1
  <2>3. Transfer!Answer(m)
    BY <1>1, <1>2, <2>1, <2>2 DEF Transfer!Answer
  <2> QED  BY <1>1, <2>3 DEF Transfer!Next, Transfer!Proceed
<1>7. CASE calls' = calls /\ wire' # <<>>
  BY <1>1, <1>2, <1>7 DEF Transfer!vars
<1>8. CASE calls' = calls /\ wire' = <<>>
  <2>1. Taken(m)' = m.size
    <3>1. Len(wire') = 0
      BY <1>8
    <3>2. \A n \in Nat : n - 0 = n
      OBVIOUS
    <3> QED  BY <1>5, <3>1, <3>2 DEF Taken
  <2>2. calls = OutcomeOf(m)
    BY <1>1, <1>4, <1>5, <1>8, <2>1
  <2>3. Transfer!Complete(m)
    BY <1>1, <1>2, <1>8, <2>2 DEF Transfer!Complete
  <2> QED  BY <1>1, <2>3 DEF Transfer!Next, Transfer!Proceed
<1> QED  BY <1>6, <1>7, <1>8

\* Every step of the link is one of the transfer, or none.
LEMMA StepTransfers ==
  Inv /\ [Next]_vars => [Transfer!Next]_(Transfer!vars)
<1> SUFFICES ASSUME Inv, [Next]_vars
             PROVE  [Transfer!Next]_(Transfer!vars)
  OBVIOUS
<1>1. ASSUME UNCHANGED <<wire, sent, calls>>
      PROVE  UNCHANGED Transfer!vars
  BY <1>1 DEF Transfer!vars
<1>2. CASE \E g \in Groups : set_group(g)
  BY <1>1, <1>2 DEF set_group, received
<1>3. CASE \E d \in DeviceIds : set_device_id(d)
  BY <1>1, <1>3 DEF set_device_id, received
<1>4. ASSUME sent = {}, wire' # <<>>, calls' = calls, \E m : sent' = {m}
      PROVE  Transfer!Send
  BY <1>4 DEF Transfer!Send
<1>5. CASE \E m \in Content, room \in Rooms, extra \in Extra : Send(m, room, extra)
  <2>1. sent = {}
    BY <1>5 DEF Send
  <2> QED  BY <1>4, <1>5, <2>1, SendBegins DEF Transfer!Next
<1>6. CASE \E m \in Content, id \in Foreign : SendForeign(m.header, id)
  <2>1. sent = {}
    BY <1>6 DEF SendForeign
  <2> QED  BY <1>4, <1>6, <2>1, ForeignBegins DEF Transfer!Next
<1>7. CASE Receive
  BY <1>7, ReceiveTransfers
<1>8. CASE Finish
  <2>1. sent # {} /\ sent' = {} /\ wire = <<>> /\ wire' = <<>> /\ calls' = <<>>
    BY <1>8 DEF Finish, Renew, New
  <2>2. PICK m, bytes : sent = {m} /\ Flow(m, bytes)
    BY <2>1 DEF Inv
  <2>3. Len(buffer) \in Nat
    BY LenProperties DEF Inv
  <2>4. calls = IF Taken(m) >= Awaited(m) THEN OutcomeOf(m) ELSE <<>>
    BY <2>2, <2>3, FlowPrompt
  <2>5. m.size \in Nat /\ Awaited(m) <= m.size
    BY <2>2, <2>3, AwaitedComes DEF Flow, UnderWay
  <2>6. Taken(m) = m.size
    <3>1. Len(wire) = 0
      BY <2>1
    <3>2. \A n \in Nat : n - 0 = n
      OBVIOUS
    <3> QED  BY <2>5, <3>1, <3>2 DEF Taken
  <2>7. calls = OutcomeOf(m)
    BY <2>4, <2>5, <2>6
  <2>8. Transfer!End(m)
    BY <2>1, <2>7 DEF Transfer!End, Transfer!Over
  <2> QED  BY <2>2, <2>8 DEF Transfer!Next, Transfer!Proceed
<1>9. CASE CutOff
  <2>1. sent' = {} /\ wire # <<>> /\ wire' = <<>> /\ calls' = <<>>
    BY <1>9 DEF CutOff, Renew, New
  <2>2. PICK m : m \in sent
    BY <2>1 DEF Inv, Ready
  <2>3. Transfer!CutOff(m)
    BY <2>1 DEF Transfer!CutOff, Transfer!Over
  <2> QED  BY <2>2, <2>3 DEF Transfer!Next
<1>10. CASE UNCHANGED vars
  BY <1>1, <1>10 DEF vars, received
<1> QED  BY <1>2, <1>3, <1>5, <1>6, <1>7, <1>8, <1>9, <1>10 DEF Next

\* A ci_dispatcher that is fed with what create_message() writes for the messages of
\* LinkAssumption (all but the two kinds that it misreads) transfers messages:
\* each is answered at most once, with the call that it calls for, before the next one
\* is sent or the rest of it is dropped. (That it ends is left to the model checker.)
THEOREM MessagesTransferred ==
  Spec => Transfer!Init /\ [][Transfer!Next]_(Transfer!vars)
BY InitInv, NextInv, TransferInit, StepTransfers, PTL DEF Spec

-------------------------------------------------------------------------------
(* Eight-bit data in seven bits.                                                 *)

Octet  == SUBSET (0 .. 7)
Septet7 == SUBSET seven_bits
Encoders == [pos : 0 .. 6, buffer : [0 .. 7 -> Septet7], out : Seq(Septet7)]
Decoders == [msbs : Octet, pos : 0 .. 7, bad : BOOLEAN, out : Seq(Octet)]

\* The encoder and the decoder keep seven-bit and eight-bit bytes.
LEMMA NewCoders ==
  NewEncoder \in Encoders /\ NewDecoder \in Decoders
BY DEF NewEncoder, NewDecoder, Encoders, Decoders, max_size, msb, Septet7, seven_bits, Octet

\* What flush() leaves, for an encoder that holds a number of bytes.
LEMMA FlushedIs ==
  ASSUME NEW e, e.buffer \in [0 .. 7 -> Septet7], e.pos \in 1 .. 7, e.out \in Seq(Septet7)
  PROVE  /\ Flush(e) \in Encoders
         /\ Flush(e).pos = 0
         /\ Flush(e).buffer = [e.buffer EXCEPT ![0] = {}]
         /\ Flush(e).out = e.out \o [i \in 1 .. e.pos + 1 |-> e.buffer[i - 1]]
         /\ [i \in 1 .. e.pos + 1 |-> e.buffer[i - 1]] \in Seq(Septet7)
<1> DEFINE t == [i \in 1 .. e.pos + 1 |-> e.buffer[i - 1]]
<1>1. t \in Seq(Septet7)
  <2>1. e.pos + 1 \in Nat /\ \A i \in 1 .. e.pos + 1 : i - 1 \in 0 .. 7
    OBVIOUS
  <2>2. \A i \in 1 .. e.pos + 1 : e.buffer[i - 1] \in Septet7
    BY <2>1
  <2> QED  BY <2>1, <2>2, IsASeq
<1>2. e.out \o t \in Seq(Septet7)
  <2> HIDE DEF t
  <2> QED  BY <1>1, ConcatProperties
<1>3. Flush(e) = [pos |-> 0, buffer |-> [e.buffer EXCEPT ![0] = {}], out |-> e.out \o t]
  BY DEF Flush
<1>4. [e.buffer EXCEPT ![0] = {}] \in [0 .. 7 -> Septet7]
  BY DEF Septet7
<1>5. Flush(e) \in Encoders
  <2> HIDE DEF t
  <2> QED  BY <1>2, <1>3, <1>4 DEF Encoders
<1>6. Flush(e).pos = 0 /\ Flush(e).buffer = [e.buffer EXCEPT ![0] = {}]
      /\ Flush(e).out = e.out \o t
  <2> HIDE DEF t
  <2> QED  BY <1>3
<1> QED  BY <1>1, <1>3, <1>5, <1>6

\* What a byte leads to before a group is flushed.
HeldIs(e, v) ==
  [pos |-> e.pos + 1,
   buffer |-> [e.buffer EXCEPT ![0] = @ \union (IF 7 \in v THEN {7 - (e.pos + 1)} ELSE {}),
                               ![e.pos + 1] = v \intersect seven_bits],
   out |-> e.out]

\* parse_byte() of the encoder adds a byte to the group, and flushes the seventh one.
LEMMA EncodeByteIs ==
  ASSUME NEW e \in Encoders, NEW v \in Octet
  PROVE  /\ EncodeByte(e, v) = IF e.pos = 6 THEN Flush(HeldIs(e, v)) ELSE HeldIs(e, v)
         /\ HeldIs(e, v).buffer \in [0 .. 7 -> Septet7]
         /\ HeldIs(e, v).pos \in 1 .. 7 /\ HeldIs(e, v).out = e.out
         /\ HeldIs(e, v).buffer[0] =
              e.buffer[0] \union (IF 7 \in v THEN {7 - (e.pos + 1)} ELSE {})
         /\ HeldIs(e, v).buffer[e.pos + 1] = v \intersect seven_bits
         /\ \A i \in 1 .. e.pos : HeldIs(e, v).buffer[i] = e.buffer[i]
<1>1. /\ e.pos \in 0 .. 6 /\ e.pos + 1 \in 1 .. 7 /\ 7 - (e.pos + 1) \in 0 .. 6
      /\ e.buffer \in [0 .. 7 -> Septet7] /\ e.out \in Seq(Septet7)
      /\ e = [pos |-> e.pos, buffer |-> e.buffer, out |-> e.out]
  BY DEF Encoders
<1> DEFINE sign == IF 7 \in v THEN {7 - (e.pos + 1)} ELSE {}
           held == HeldIs(e, v)
<1>2. held = HeldIs(e, v)
  OBVIOUS
<1>3. EncodeByte(e, v) = IF Full(held) THEN Flush(held) ELSE held
  BY DEF EncodeByte, msb, HeldIs
<1>4. Full(held) <=> e.pos = 6
  BY <1>1, <1>2 DEF Full, max_size, HeldIs
<1> HIDE DEF held
<1>5. sign \in Septet7 /\ v \intersect seven_bits \in Septet7
  BY <1>1 DEF Septet7, seven_bits
<1>6. HeldIs(e, v) = [pos |-> e.pos + 1,
   buffer |-> [e.buffer EXCEPT ![0] = @ \union sign,
                               ![e.pos + 1] = v \intersect seven_bits],
   out |-> e.out]
  BY DEF HeldIs
<1> HIDE DEF sign
<1>7. e.buffer[0] \union sign \in Septet7
  BY <1>1, <1>5 DEF Septet7
<1>8. HeldIs(e, v).buffer \in [0 .. 7 -> Septet7]
  <2> DEFINE b == [e.buffer EXCEPT ![0] = @ \union sign]
             u == v \intersect seven_bits
  <2>1. b \in [0 .. 7 -> Septet7]
    BY <1>1, <1>7
  <2>2. HeldIs(e, v).buffer = [b EXCEPT ![e.pos + 1] = u]
    BY <1>6
  <2> HIDE DEF b, u
  <2>3. u \in Septet7
    BY <1>5 DEF u
  <2> QED  BY <2>1, <2>2, <2>3
<1>9. /\ HeldIs(e, v).buffer[0] = e.buffer[0] \union sign
      /\ HeldIs(e, v).buffer[e.pos + 1] = v \intersect seven_bits
      /\ \A i \in 1 .. e.pos : HeldIs(e, v).buffer[i] = e.buffer[i]
  BY <1>1, <1>6
<1>10. HeldIs(e, v).pos \in 1 .. 7 /\ HeldIs(e, v).out = e.out
  BY <1>1, <1>6
<1>11. EncodeByte(e, v) = IF e.pos = 6 THEN Flush(HeldIs(e, v)) ELSE HeldIs(e, v)
  BY <1>2, <1>3, <1>4
<1> QED  BY <1>8, <1>9, <1>10, <1>11 DEF sign

\* The encoder goes on holding less than seven bytes.
LEMMA EncodeByteType ==
  ASSUME NEW e \in Encoders, NEW v \in Octet
  PROVE  EncodeByte(e, v) \in Encoders
<1>1. e.pos \in 0 .. 6 /\ e.out \in Seq(Septet7)
  BY DEF Encoders
<1>2. CASE e.pos = 6
  <2> DEFINE x == HeldIs(e, v)
  <2>1. x.buffer \in [0 .. 7 -> Septet7] /\ x.pos \in 1 .. 7 /\ x.out \in Seq(Septet7)
    BY <1>1, EncodeByteIs
  <2>2. EncodeByte(e, v) = Flush(x)
    BY <1>2, EncodeByteIs
  <2> HIDE DEF x
  <2> QED  BY <2>1, <2>2, FlushedIs
<1>3. CASE e.pos # 6
  <2>1. EncodeByte(e, v) = HeldIs(e, v) /\ e.pos + 1 \in 0 .. 6
    BY <1>1, <1>3, EncodeByteIs
  <2>2. HeldIs(e, v).buffer \in [0 .. 7 -> Septet7]
    BY EncodeByteIs
  <2>3. HeldIs(e, v) = [pos |-> e.pos + 1, buffer |-> HeldIs(e, v).buffer, out |-> e.out]
    BY DEF HeldIs
  <2>4. ASSUME NEW p \in 0 .. 6, NEW b \in [0 .. 7 -> Septet7]
        PROVE  [pos |-> p, buffer |-> b, out |-> e.out] \in Encoders
    BY <1>1 DEF Encoders
  <2> QED  BY <2>1, <2>2, <2>3, <2>4, Zenon
<1> QED  BY <1>2, <1>3

\* parse_byte() of the decoder.
LEMMA DecodeByteType ==
  ASSUME NEW d \in Decoders, NEW v \in Octet
  PROVE  DecodeByte(d, v) \in Decoders
<1>1. d.msbs \in Octet /\ d.pos \in 0 .. 7 /\ d.bad \in BOOLEAN /\ d.out \in Seq(Octet)
      /\ d = [msbs |-> d.msbs, pos |-> d.pos, bad |-> d.bad, out |-> d.out]
  BY DEF Decoders
<1> DEFINE sign == IF d.pos \in d.msbs THEN {msb} ELSE {}
           p == (d.pos - 1) % 2 ^ 3
<1>2. sign \in Octet /\ v \union sign \in Octet
  BY DEF Octet, msb
<1>3. p \in 0 .. 7
  BY <1>1
<1>4. DecodeByte(d, v) =
        IF d.pos = msb THEN [msbs |-> v, pos |-> p, bad |-> d.bad, out |-> d.out]
        ELSE [msbs |-> d.msbs, pos |-> p, bad |-> d.bad \/ msb \in v,
              out |-> Append(d.out, v \union sign)]
  BY Zenon DEF DecodeByte
<1> HIDE DEF p, sign
<1>5. Append(d.out, v \union sign) \in Seq(Octet)
  BY <1>1, <1>2, AppendProperties
<1>6. (d.bad \/ msb \in v) \in BOOLEAN
  OBVIOUS
<1> QED  BY <1>1, <1>3, <1>4, <1>5, <1>6 DEF Decoders

\* EncodeAll takes the encoder from state to state.
Encoding(s, h) ==
  /\ h \in [0 .. Len(s) -> Encoders]
  /\ h[0] = NewEncoder
  /\ \A i \in 1 .. Len(s) : h[i] = EncodeByte(h[i - 1], s[i])

\* EncodeAll does so, byte by byte.
LEMMA EncodingSteps ==
  ASSUME NEW s \in Seq(Octet)
  PROVE  \E h : Encoding(s, h) /\ EncodeAll(s) = h[Len(s)]
<1> DEFINE n == Len(s)
           f == [i \in 1 .. n |-> [x \in Encoders |-> EncodeByte(x, s[i])]]
           Rec(h) ==
              h = [i \in 0 .. n |-> IF i = 0 THEN NewEncoder ELSE EncodeByte(h[i - 1], s[i])]
<1>1. n \in Nat /\ \A i \in 1 .. n : s[i] \in Octet
  BY LenProperties, ElementOfSeq
<1>2. \A i \in 1 .. n, x \in Encoders : EncodeByte(x, s[i]) \in Encoders
  BY <1>1, EncodeByteType
<1>3. PICK h : h = (CHOOSE q : Rec(q)) /\ EncodeAll(s) = h[n]
  BY DEF EncodeAll
<1>4. f \in Steps(Encoders, n) /\ \A i \in 1 .. n, x \in Encoders : f[i][x] = EncodeByte(x, s[i])
  BY <1>1, <1>2 DEF Steps
<1> HIDE DEF n, f
<1>5. PICK g : Path(Encoders, n, NewEncoder, f, g)
  BY <1>1, <1>4, NewCoders, PathExists
<1>6. /\ g \in [0 .. n -> Encoders] /\ g[0] = NewEncoder
      /\ \A i \in 1 .. n : g[i] = EncodeByte(g[i - 1], s[i])
  <2>1. g \in [0 .. n -> Encoders] /\ g[0] = NewEncoder /\ \A i \in 1 .. n : g[i] = f[i][g[i - 1]]
    BY <1>5 DEF Path
  <2>2. \A i \in 1 .. n : i - 1 \in 0 .. n
    BY <1>1
  <2>3. \A i \in 1 .. n : g[i - 1] \in Encoders
    BY <2>1, <2>2
  <2> QED  BY <1>4, <2>1, <2>3
<1>7. Rec(g)
  <2> DEFINE G == [i \in 0 .. n |-> IF i = 0 THEN NewEncoder ELSE EncodeByte(g[i - 1], s[i])]
  <2>1. \A i \in 0 .. n : g[i] = G[i]
    BY <1>1, <1>6
  <2>2. g = [i \in 0 .. n |-> g[i]]
    BY <1>6
  <2> QED  BY <2>1, <2>2
<1>8. Rec(h)
  <2> HIDE DEF Rec
  <2> QED  BY <1>3, <1>7
<1>9. h[0] = NewEncoder /\ \A i \in 1 .. n : h[i] = EncodeByte(h[i - 1], s[i])
  <2>1. h = [i \in 0 .. n |-> IF i = 0 THEN NewEncoder ELSE EncodeByte(h[i - 1], s[i])]
    BY <1>8
  <2> HIDE DEF Rec
  <2> QED  BY <1>1, <2>1
<1> HIDE DEF Rec
<1>10. \A i \in 0 .. n : h[i] = g[i]
  <2>1. \A i \in 1 .. n : h[i - 1] \in Encoders => h[i] = f[i][h[i - 1]]
    BY <1>4, <1>9
  <2>2. n \in Nat /\ Path(Encoders, n, h[0], f, g)
    BY <1>1, <1>5, <1>9
  <2>3. Follows(Encoders, n, f, h)
    BY <2>1 DEF Follows
  <2> QED  BY <2>2, <2>3, OnePath
<1>11. h[n] = g[n]
  BY <1>1, <1>10
<1> QED  BY <1>3, <1>6, <1>11 DEF n, Encoding

\* DecodeMcoded7 takes the decoder from state to state.
Decoding(s, h) ==
  /\ h \in [0 .. Len(s) -> Decoders]
  /\ h[0] = NewDecoder
  /\ \A i \in 1 .. Len(s) : h[i] = DecodeByte(h[i - 1], s[i])

\* DecodeMcoded7 does so, byte by byte.
LEMMA DecodingSteps ==
  ASSUME NEW s \in Seq(Octet)
  PROVE  \E h : Decoding(s, h) /\ DecodeMcoded7(s) = h[Len(s)]
<1> DEFINE n == Len(s)
           f == [i \in 1 .. n |-> [x \in Decoders |-> DecodeByte(x, s[i])]]
           Rec(h) ==
              h = [i \in 0 .. n |-> IF i = 0 THEN NewDecoder ELSE DecodeByte(h[i - 1], s[i])]
<1>1. n \in Nat /\ \A i \in 1 .. n : s[i] \in Octet
  BY LenProperties, ElementOfSeq
<1>2. \A i \in 1 .. n, x \in Decoders : DecodeByte(x, s[i]) \in Decoders
  BY <1>1, DecodeByteType
<1>3. PICK h : h = (CHOOSE q : Rec(q)) /\ DecodeMcoded7(s) = h[n]
  BY DEF DecodeMcoded7
<1>4. f \in Steps(Decoders, n) /\ \A i \in 1 .. n, x \in Decoders : f[i][x] = DecodeByte(x, s[i])
  BY <1>1, <1>2 DEF Steps
<1> HIDE DEF n, f
<1>5. PICK g : Path(Decoders, n, NewDecoder, f, g)
  BY <1>1, <1>4, NewCoders, PathExists
<1>6. /\ g \in [0 .. n -> Decoders] /\ g[0] = NewDecoder
      /\ \A i \in 1 .. n : g[i] = DecodeByte(g[i - 1], s[i])
  <2>1. g \in [0 .. n -> Decoders] /\ g[0] = NewDecoder /\ \A i \in 1 .. n : g[i] = f[i][g[i - 1]]
    BY <1>5 DEF Path
  <2>2. \A i \in 1 .. n : i - 1 \in 0 .. n
    BY <1>1
  <2>3. \A i \in 1 .. n : g[i - 1] \in Decoders
    BY <2>1, <2>2
  <2> QED  BY <1>4, <2>1, <2>3
<1>7. Rec(g)
  <2> DEFINE G == [i \in 0 .. n |-> IF i = 0 THEN NewDecoder ELSE DecodeByte(g[i - 1], s[i])]
  <2>1. \A i \in 0 .. n : g[i] = G[i]
    BY <1>1, <1>6
  <2>2. g = [i \in 0 .. n |-> g[i]]
    BY <1>6
  <2> QED  BY <2>1, <2>2
<1>8. Rec(h)
  <2> HIDE DEF Rec
  <2> QED  BY <1>3, <1>7
<1>9. h[0] = NewDecoder /\ \A i \in 1 .. n : h[i] = DecodeByte(h[i - 1], s[i])
  <2>1. h = [i \in 0 .. n |-> IF i = 0 THEN NewDecoder ELSE DecodeByte(h[i - 1], s[i])]
    BY <1>8
  <2> HIDE DEF Rec
  <2> QED  BY <1>1, <2>1
<1> HIDE DEF Rec
<1>10. \A i \in 0 .. n : h[i] = g[i]
  <2>1. \A i \in 1 .. n : h[i - 1] \in Decoders => h[i] = f[i][h[i - 1]]
    BY <1>4, <1>9
  <2>2. n \in Nat /\ Path(Decoders, n, h[0], f, g)
    BY <1>1, <1>5, <1>9
  <2>3. Follows(Decoders, n, f, h)
    BY <2>1 DEF Follows
  <2> QED  BY <2>2, <2>3, OnePath
<1>11. h[n] = g[n]
  BY <1>1, <1>10
<1> QED  BY <1>3, <1>6, <1>11 DEF n, Decoding

\* Some bytes of a group: their seven bits follow the byte with their sign bits.
GroupAt(bytes, out, g, n) ==
  \A j \in 1 .. n :
    /\ out[8 * g + 1 + j] = bytes[7 * g + j] \intersect seven_bits
    /\ (7 - j \in out[8 * g + 1]) <=> (7 \in bytes[7 * g + j])

\* The same of what an encoder holds.
Holding(bytes, buf, g, n) ==
  /\ buf[0] \subseteq {7 - j : j \in 1 .. n}
  /\ \A j \in 1 .. n :
       /\ buf[j] = bytes[7 * g + j] \intersect seven_bits
       /\ (7 - j \in buf[0]) <=> (7 \in bytes[7 * g + j])

\* An encoder that has been given k bytes.
Encoded(bytes, k, e) ==
  \E g \in Nat :
    /\ k = 7 * g + e.pos /\ Len(e.out) = 8 * g
    /\ \A i \in 0 .. g - 1 : GroupAt(bytes, e.out, i, 7)
    /\ Holding(bytes, e.buffer, g, e.pos)

\* Flushing puts a group after the others.
LEMMA GroupFlushed ==
  ASSUME NEW bytes, NEW g \in Nat, NEW e, e.buffer \in [0 .. 7 -> Septet7],
         e.pos \in 1 .. 7, e.out \in Seq(Septet7), Len(e.out) = 8 * g,
         \A i \in 0 .. g - 1 : GroupAt(bytes, e.out, i, 7),
         Holding(bytes, e.buffer, g, e.pos)
  PROVE  /\ Flush(e).out \in Seq(Septet7)
         /\ Len(Flush(e).out) = 8 * g + (e.pos + 1)
         /\ \A i \in 0 .. g - 1 : GroupAt(bytes, Flush(e).out, i, 7)
         /\ GroupAt(bytes, Flush(e).out, g, e.pos)
<1> DEFINE t == [i \in 1 .. e.pos + 1 |-> e.buffer[i - 1]]
           w == Flush(e).out
           p == e.pos
<1>1. w = e.out \o t /\ t \in Seq(Septet7) /\ w \in Seq(Septet7)
  <2>1. w = e.out \o t /\ t \in Seq(Septet7)
    BY FlushedIs
  <2> HIDE DEF t, w
  <2> QED  BY <2>1, ConcatProperties
<1>2. Len(t) = p + 1 /\ \A i \in 1 .. p + 1 : t[i] = e.buffer[i - 1]
  OBVIOUS
<1>3. p \in 1 .. 7
  OBVIOUS
<1> HIDE DEF t, w, p
<1>4. /\ Len(w) = 8 * g + (p + 1)
      /\ \A i \in 1 .. 8 * g : w[i] = e.out[i]
      /\ \A i \in 1 .. p + 1 : w[8 * g + i] = t[i]
  <2> DEFINE o == e.out
  <2>0. o \in Seq(Septet7) /\ t \in Seq(Septet7)
    BY <1>1
  <2>1. Len(o) = 8 * g
    OBVIOUS
  <2> HIDE DEF o
  <2>2. /\ Len(o \o t) = Len(o) + Len(t)
        /\ \A j \in 1 .. Len(o) : (o \o t)[j] = o[j]
        /\ \A j \in 1 .. Len(t) : (o \o t)[Len(o) + j] = t[j]
    BY <2>0, Concat
  <2>3. w = o \o t
    BY <1>1 DEF o
  <2>4. /\ Len(w) = 8 * g + (p + 1)
        /\ \A i \in 1 .. 8 * g : w[i] = o[i]
        /\ \A i \in 1 .. p + 1 : w[8 * g + i] = t[i]
    BY <1>2, <2>1, <2>2, <2>3
  <2> QED  BY <2>4 DEF o
<1>5. ASSUME NEW i \in 0 .. g - 1
      PROVE  GroupAt(bytes, w, i, 7)
  <2>1. \A j \in 1 .. 7 : 8 * i + 1 + j \in 1 .. 8 * g /\ 8 * i + 1 \in 1 .. 8 * g
    OBVIOUS
  <2>2. \A j \in 1 .. 7 : w[8 * i + 1 + j] = e.out[8 * i + 1 + j]
        /\ w[8 * i + 1] = e.out[8 * i + 1]
    BY <1>4, <2>1
  <2>3. GroupAt(bytes, e.out, i, 7)
    OBVIOUS
  <2> QED  BY <2>2, <2>3 DEF GroupAt
<1>6. GroupAt(bytes, w, g, p)
  <2>1. w[8 * g + 1] = e.buffer[0]
    <3>1. 1 \in 1 .. p + 1 /\ 1 - 1 = 0
      BY <1>3
    <3> QED  BY <1>2, <1>4, <3>1
  <2>2. ASSUME NEW j \in 1 .. p
        PROVE  w[8 * g + 1 + j] = e.buffer[j]
    <3>1. 1 + j \in 1 .. p + 1 /\ (1 + j) - 1 = j /\ 8 * g + 1 + j = 8 * g + (1 + j)
      BY <1>3
    <3>2. w[8 * g + (1 + j)] = t[1 + j] /\ t[1 + j] = e.buffer[(1 + j) - 1]
      BY <1>2, <1>4, <3>1
    <3> QED  BY <3>1, <3>2
  <2>3. Holding(bytes, e.buffer, g, p)
    BY DEF p
  <2> QED  BY <2>1, <2>2, <2>3 DEF GroupAt, Holding
<1> QED  BY <1>1, <1>4, <1>5, <1>6 DEF w, p

\* One more byte is held, ...
LEMMA OneMoreHeld ==
  ASSUME NEW bytes, NEW g \in Nat, NEW e \in Encoders, NEW v \in Octet,
         Holding(bytes, e.buffer, g, e.pos), v = bytes[7 * g + (e.pos + 1)]
  PROVE  Holding(bytes, HeldIs(e, v).buffer, g, e.pos + 1)
<1> DEFINE p == e.pos
           b == e.buffer
           c == HeldIs(e, v).buffer
           sign == IF 7 \in v THEN {7 - (p + 1)} ELSE {}
<1>1. /\ p \in 0 .. 6 /\ c[0] = b[0] \union sign
      /\ c[p + 1] = v \intersect seven_bits
      /\ \A i \in 1 .. p : c[i] = b[i]
  <2>1. p \in 0 .. 6
    BY DEF Encoders
  <2> QED  BY <2>1, EncodeByteIs
<1>2. /\ b[0] \subseteq {7 - j : j \in 1 .. p}
      /\ \A j \in 1 .. p : /\ b[j] = bytes[7 * g + j] \intersect seven_bits
                           /\ (7 - j \in b[0]) <=> (7 \in bytes[7 * g + j])
  BY DEF Holding
<1>3. v = bytes[7 * g + (p + 1)]
  OBVIOUS
<1> HIDE DEF p, b, c
<1>4. \A j \in 1 .. p + 1 : j \in 1 .. p \/ j = p + 1
  BY <1>1
<1>5. \A j \in 1 .. p : 7 - j # 7 - (p + 1)
  BY <1>1
<1>6. c[0] \subseteq {7 - j : j \in 1 .. p + 1}
  <2>1. p + 1 \in 1 .. p + 1 /\ \A j \in 1 .. p : j \in 1 .. p + 1
    BY <1>1
  <2> QED  BY <1>1, <1>2, <2>1
<1>7. (7 - (p + 1) \in c[0]) <=> (7 \in v)
  <2>1. 7 - (p + 1) \notin b[0]
    BY <1>2, <1>5
  <2> QED  BY <1>1, <2>1
<1>8. ASSUME NEW j \in 1 .. p
      PROVE  (7 - j \in c[0]) <=> (7 - j \in b[0])
  BY <1>1, <1>5
<1> HIDE DEF sign
<1>9. ASSUME NEW j \in 1 .. p + 1
      PROVE  /\ c[j] = bytes[7 * g + j] \intersect seven_bits
             /\ (7 - j \in c[0]) <=> (7 \in bytes[7 * g + j])
  <2>1. CASE j = p + 1
    BY <1>1, <1>3, <1>7, <2>1
  <2>2. CASE j \in 1 .. p
    BY <1>1, <1>2, <1>8, <2>2
  <2> QED  BY <1>4, <2>1, <2>2
<1> QED  BY <1>6, <1>9 DEF Holding, c, p

\* ... or completes the group.
LEMMA OneMoreEncoded ==
  ASSUME NEW bytes, NEW k \in Nat, NEW e \in Encoders, Encoded(bytes, k, e),
         bytes[k + 1] \in Octet
  PROVE  Encoded(bytes, k + 1, EncodeByte(e, bytes[k + 1]))
<1> DEFINE v == bytes[k + 1]
           x == HeldIs(e, v)
           p == e.pos
<1>1. PICK g \in Nat : /\ k = 7 * g + p /\ Len(e.out) = 8 * g
                       /\ \A i \in 0 .. g - 1 : GroupAt(bytes, e.out, i, 7)
                       /\ Holding(bytes, e.buffer, g, p)
  BY DEF Encoded
<1>2. p \in 0 .. 6 /\ e.out \in Seq(Septet7)
  BY DEF Encoders
<1>3. v \in Octet /\ v = bytes[7 * g + (p + 1)]
  <2>1. k + 1 = 7 * g + (p + 1)
    BY <1>1, <1>2
  <2> QED  BY <2>1
<1>4. Holding(bytes, x.buffer, g, p + 1)
  BY <1>1, <1>3, OneMoreHeld
<1>5. x.buffer \in [0 .. 7 -> Septet7] /\ x.pos = p + 1 /\ x.out = e.out
  BY <1>3, EncodeByteIs DEF HeldIs
<1>6. EncodeByte(e, v) = IF p = 6 THEN Flush(x) ELSE x
  BY <1>3, EncodeByteIs
<1> HIDE DEF x, v
<1>7. CASE p = 6
  <2>1. x.pos = 7 /\ x.pos \in 1 .. 7 /\ x.out \in Seq(Septet7) /\ Len(x.out) = 8 * g
    BY <1>1, <1>2, <1>5, <1>7
  <2>2. /\ Len(Flush(x).out) = 8 * g + (7 + 1)
        /\ \A i \in 0 .. g - 1 : GroupAt(bytes, Flush(x).out, i, 7)
        /\ GroupAt(bytes, Flush(x).out, g, 7)
    <3>1. p + 1 = 7
      BY <1>7
    <3>2. \A i \in 0 .. g - 1 : GroupAt(bytes, x.out, i, 7)
      BY <1>1, <1>5
    <3>3. Holding(bytes, x.buffer, g, 7) /\ x.buffer \in [0 .. 7 -> Septet7]
      BY <1>4, <1>5, <3>1
    <3> QED  BY <2>1, <3>2, <3>3, GroupFlushed
  <2>3. Flush(x).pos = 0 /\ Flush(x).buffer = [x.buffer EXCEPT ![0] = {}]
    BY <1>5, <2>1, FlushedIs
  <2>4. Holding(bytes, Flush(x).buffer, g + 1, 0)
    BY <1>5, <2>3 DEF Holding
  <2>5. k + 1 = 7 * (g + 1) + 0 /\ 8 * g + (7 + 1) = 8 * (g + 1) /\ g + 1 \in Nat
    BY <1>1, <1>7
  <2>6. \A i \in 0 .. (g + 1) - 1 : i \in 0 .. g - 1 \/ i = g
    OBVIOUS
  <2>7. \A i \in 0 .. (g + 1) - 1 : GroupAt(bytes, Flush(x).out, i, 7)
    BY <2>2, <2>6
  <2>8. Encoded(bytes, k + 1, Flush(x))
    BY <2>2, <2>3, <2>4, <2>5, <2>7 DEF Encoded
  <2> QED  BY <1>6, <1>7, <2>8 DEF v
<1>8. CASE p # 6
  <2>1. k + 1 = 7 * g + (p + 1)
    BY <1>1, <1>2
  <2>2. Encoded(bytes, k + 1, x)
    BY <1>1, <1>4, <1>5, <2>1 DEF Encoded
  <2> QED  BY <1>6, <1>8, <2>2 DEF v
<1> QED  BY <1>7, <1>8

\* What EncodeMcoded7 writes.
Laid7(bytes, w) ==
  \E g \in Nat, r \in 0 .. 6 :
    /\ Len(bytes) = 7 * g + r
    /\ Len(w) = 8 * g + (IF r = 0 THEN 0 ELSE r + 1)
    /\ \A i \in 0 .. g - 1 : GroupAt(bytes, w, i, 7)
    /\ GroupAt(bytes, w, g, r)

\* EncodeMcoded7 writes one group after the other, the last one as long as it is.
LEMMA EncodedIs ==
  ASSUME NEW bytes \in Seq(Octet)
  PROVE  EncodeMcoded7(bytes) \in Seq(Septet7) /\ Laid7(bytes, EncodeMcoded7(bytes))
<1> DEFINE n == Len(bytes)
<1>1. n \in Nat /\ \A i \in 1 .. n : bytes[i] \in Octet
  BY LenProperties, ElementOfSeq
<1>2. PICK h : Encoding(bytes, h) /\ EncodeAll(bytes) = h[n]
  BY EncodingSteps
<1>3. /\ h \in [0 .. n -> Encoders] /\ h[0] = NewEncoder
      /\ \A i \in 1 .. n : h[i] = EncodeByte(h[i - 1], bytes[i])
  BY <1>2 DEF Encoding
<1> HIDE DEF n
<1> DEFINE T == {k \in Nat : k <= n => Encoded(bytes, k, h[k])}
<1>4. 0 \in T
  <2>1. Holding(bytes, NewEncoder.buffer, 0, 0)
    BY DEF Holding, NewEncoder, max_size
  <2>2. NewEncoder.pos = 0 /\ NewEncoder.out = <<>> /\ Len(<<>>) = 0
    BY DEF NewEncoder
  <2>3. 0 = 7 * 0 + 0 /\ 0 = 8 * 0 /\ \A i \in 0 .. 0 - 1 : FALSE
    OBVIOUS
  <2>4. Encoded(bytes, 0, NewEncoder)
    BY <2>1, <2>2, <2>3 DEF Encoded
  <2> QED  BY <1>3, <2>4
<1>5. ASSUME NEW k \in T
      PROVE  k + 1 \in T
  <2>1. k \in Nat /\ (k <= n => Encoded(bytes, k, h[k]))
    OBVIOUS
  <2> HIDE DEF T
  <2>2. ASSUME k + 1 <= n
        PROVE  Encoded(bytes, k + 1, h[k + 1])
    <3>1. k + 1 \in 1 .. n /\ (k + 1) - 1 = k /\ k \in 0 .. n /\ k <= n
      BY <1>1, <2>1, <2>2
    <3>2. h[k] \in Encoders /\ h[k + 1] = EncodeByte(h[k], bytes[k + 1])
      BY <1>3, <3>1
    <3>3. bytes[k + 1] \in Octet
      BY <1>1, <3>1
    <3>4. Encoded(bytes, k + 1, EncodeByte(h[k], bytes[k + 1]))
      BY <2>1, <3>1, <3>2, <3>3, OneMoreEncoded
    <3> QED  BY <3>2, <3>4
  <2>3. k + 1 \in Nat
    BY <2>1
  <2> QED  BY <2>2, <2>3 DEF T
<1>6. T = Nat
  <2>1. T \in SUBSET Nat
    OBVIOUS
  <2> HIDE DEF T
  <2> QED  BY <1>4, <1>5, <2>1, AllNumbers
<1> DEFINE e == h[n]
<1>7. Encoded(bytes, n, e) /\ e \in Encoders /\ EncodeMcoded7(bytes) = Flush(e).out
  <2>1. n \in T /\ n \in 0 .. n /\ n <= n
    BY <1>1, <1>6
  <2> QED  BY <1>2, <1>3, <2>1 DEF EncodeMcoded7
<1> HIDE DEF T, e
<1>8. PICK g \in Nat : /\ n = 7 * g + e.pos /\ Len(e.out) = 8 * g
                       /\ \A i \in 0 .. g - 1 : GroupAt(bytes, e.out, i, 7)
                       /\ Holding(bytes, e.buffer, g, e.pos)
  BY <1>7 DEF Encoded
<1>9. e.pos \in 0 .. 6 /\ e.out \in Seq(Septet7) /\ e.buffer \in [0 .. 7 -> Septet7]
  BY <1>7 DEF Encoders
<1>10. CASE e.pos = 0
  <2>1. Flush(e).out = e.out
    BY <1>10 DEF Flush
  <2>2. GroupAt(bytes, e.out, g, 0)
    BY DEF GroupAt
  <2>3. Len(e.out) = 8 * g + 0 /\ n = 7 * g + 0 /\ 0 \in 0 .. 6
    BY <1>8, <1>10
  <2>4. Laid7(bytes, e.out)
    BY <1>8, <2>2, <2>3 DEF Laid7, n
  <2> QED  BY <1>7, <1>9, <2>1, <2>4
<1>11. CASE e.pos # 0
  <2> DEFINE w == Flush(e).out
             r == e.pos
  <2>1. r \in 1 .. 7 /\ r \in 0 .. 6 /\ r # 0 /\ n = 7 * g + r
    BY <1>8, <1>9, <1>11
  <2>2. /\ w \in Seq(Septet7)
        /\ Len(w) = 8 * g + (r + 1)
        /\ \A i \in 0 .. g - 1 : GroupAt(bytes, w, i, 7)
        /\ GroupAt(bytes, w, g, r)
    BY <1>8, <1>9, <2>1, GroupFlushed
  <2> HIDE DEF w, r
  <2>3. Laid7(bytes, w)
    BY <2>1, <2>2 DEF Laid7, n
  <2> QED  BY <1>7, <2>2, <2>3 DEF w
<1> QED  BY <1>10, <1>11

\* A byte in its group.
LEMMA LaidByte ==
  ASSUME NEW bytes, NEW w, Laid7(bytes, w), NEW g \in Nat, NEW j \in 1 .. 7,
         8 * g + 1 + j <= Len(w)
  PROVE  /\ 7 * g + j <= Len(bytes)
         /\ w[8 * g + 1 + j] = bytes[7 * g + j] \intersect seven_bits
         /\ (7 - j \in w[8 * g + 1]) <=> (7 \in bytes[7 * g + j])
<1>1. PICK m \in Nat, r \in 0 .. 6 :
        /\ Len(bytes) = 7 * m + r
        /\ Len(w) = 8 * m + (IF r = 0 THEN 0 ELSE r + 1)
        /\ \A i \in 0 .. m - 1 : GroupAt(bytes, w, i, 7)
        /\ GroupAt(bytes, w, m, r)
  BY DEF Laid7
<1>2. g <= m
  BY <1>1
<1>3. CASE g = m
  <2>1. j \in 1 .. r
    BY <1>1, <1>3
  <2> QED  BY <1>1, <1>3, <2>1 DEF GroupAt
<1>4. CASE g < m
  <2>1. g \in 0 .. m - 1 /\ 7 * g + j <= 7 * m
    BY <1>4
  <2>2. GroupAt(bytes, w, g, 7)
    BY <1>1, <2>1
  <2>3. 7 * g + j <= Len(bytes)
    BY <1>1, <2>1
  <2> QED  BY <2>2, <2>3, Zenon DEF GroupAt
<1> QED  BY <1>2, <1>3, <1>4

\* A decoder that has been given i bytes, of which the last is in some group.
DecodedAt(bytes, w, d, g, j) ==
  /\ d.pos = 7 - j /\ d.bad = FALSE
  /\ Len(d.out) = 7 * g + (IF j = 0 THEN 0 ELSE j - 1)
  /\ \A k \in 1 .. Len(d.out) : d.out[k] = bytes[k]
  /\ j # 0 => d.msbs = w[8 * g + 1]

Decoded(bytes, w, i, d) ==
  \E g \in Nat, j \in 0 .. 7 : i = 8 * g + j /\ DecodedAt(bytes, w, d, g, j)

\* The byte with the sign bits, and one with the others.
LEMMA SignsDecoded ==
  ASSUME NEW bytes, NEW w, NEW g \in Nat, NEW d \in Decoders,
         DecodedAt(bytes, w, d, g, 0)
  PROVE  DecodedAt(bytes, w, DecodeByte(d, w[8 * g + 1]), g, 1)
<1>1. d.pos = 7 /\ d.bad = FALSE /\ Len(d.out) = 7 * g
      /\ \A k \in 1 .. Len(d.out) : d.out[k] = bytes[k]
  BY DEF DecodedAt
<1>2. (7 - 1) % 2 ^ 3 = 6
  OBVIOUS
<1>3. DecodeByte(d, w[8 * g + 1])
        = [msbs |-> w[8 * g + 1], pos |-> 6, bad |-> FALSE, out |-> d.out]
  BY <1>1, <1>2, Zenon DEF DecodeByte, msb
<1> QED  BY <1>1, <1>3 DEF DecodedAt

\* A byte after the one with the sign bits is decoded to the byte that was encoded.
LEMMA OtherDecoded ==
  ASSUME NEW bytes \in Seq(Octet), NEW w, Laid7(bytes, w), NEW g \in Nat, NEW j \in 1 .. 7,
         8 * g + 1 + j <= Len(w), NEW d \in Decoders, DecodedAt(bytes, w, d, g, j)
  PROVE  LET e == DecodeByte(d, w[8 * g + 1 + j])
         IN  IF j = 7 THEN DecodedAt(bytes, w, e, g + 1, 0)
             ELSE DecodedAt(bytes, w, e, g, j + 1)
<1>0. /\ 7 * g + j <= Len(bytes)
      /\ w[8 * g + 1 + j] = bytes[7 * g + j] \intersect seven_bits
      /\ (7 - j \in w[8 * g + 1]) <=> (7 \in bytes[7 * g + j])
  BY LaidByte
<1> DEFINE b == bytes[7 * g + j]
           v == w[8 * g + 1 + j]
           e == DecodeByte(d, v)
           o == d.out
           sign == IF d.pos \in d.msbs THEN {msb} ELSE {}
           p == (d.pos - 1) % 2 ^ 3
<1>1. /\ v = b \intersect seven_bits
      /\ (7 - j \in w[8 * g + 1]) <=> (7 \in b)
      /\ 7 * g + j <= Len(bytes)
  BY <1>0, Zenon
<1>2. b \in Octet
  <2>1. 7 * g + j \in 1 .. Len(bytes)
    BY <1>1
  <2> QED  BY <2>1, ElementOfSeq
<1>3. /\ d.pos = 7 - j /\ d.bad = FALSE /\ Len(o) = 7 * g + (j - 1)
      /\ \A k \in 1 .. Len(o) : o[k] = bytes[k]
      /\ d.msbs = w[8 * g + 1] /\ o \in Seq(Octet)
  BY DEF DecodedAt, Decoders
<1>4. msb \notin v /\ v \union sign = b
  BY <1>1, <1>2, <1>3 DEF msb, seven_bits, Octet
<1>5. d.pos # msb
  BY <1>3 DEF msb
<1>6. e = [msbs |-> d.msbs, pos |-> p, bad |-> d.bad \/ msb \in v,
           out |-> Append(o, v \union sign)]
  BY <1>5, Zenon DEF DecodeByte
<1>7. p = IF j = 7 THEN 7 ELSE 7 - (j + 1)
  <2>1. p = ((7 - j) - 1) % 8
    <3>1. 2 ^ 3 = 8
      OBVIOUS
    <3>2. d.pos = 7 - j
      BY <1>3
    <3> QED  BY <3>1, <3>2, Zenon
  <2>2. j = 7 => ((7 - j) - 1) % 8 = 7
    <3> DEFINE q == (-1) \div 8
               s == (-1) % 8
    <3>1. -1 \in Int /\ \A x \in Int : x \div 8 \in Int /\ x % 8 \in 0 .. 7
                                    /\ x = 8 * (x \div 8) + (x % 8)
      OBVIOUS
    <3>2. q \in Int /\ s \in 0 .. 7 /\ -1 = 8 * q + s
      BY <3>1, Zenon
    <3> HIDE DEF q, s
    <3>3. s = 7
      BY <3>2
    <3>4. j = 7 => (7 - j) - 1 = -1
      OBVIOUS
    <3> QED  BY <3>3, <3>4 DEF s
  <2>3. j # 7 => (7 - j) - 1 \in 0 .. 7 /\ (7 - j) - 1 = 7 - (j + 1)
    OBVIOUS
  <2>4. \A x \in 0 .. 7 : x % 8 = x
    OBVIOUS
  <2> QED  BY <2>1, <2>2, <2>3, <2>4
<1> HIDE DEF b, v, e, o, sign, p
<1>8. e.bad = FALSE /\ e.msbs = d.msbs /\ e.pos = p /\ e.out = Append(o, b)
  BY <1>3, <1>4, <1>6
<1>9. /\ Len(e.out) = 7 * g + j
      /\ \A k \in 1 .. Len(e.out) : e.out[k] = bytes[k]
  <2>1. /\ Len(Append(o, b)) = Len(o) + 1 /\ Append(o, b)[Len(o) + 1] = b
        /\ \A k \in 1 .. Len(o) : Append(o, b)[k] = o[k]
    <3>1. o \in Seq(Octet)
      BY <1>3
    <3> QED  BY <1>2, <3>1, AppendProperties
  <2>2. Len(o) = 7 * g + (j - 1) /\ Len(o) + 1 = 7 * g + j
    BY <1>3
  <2>3. Append(o, b)[7 * g + j] = bytes[7 * g + j]
    BY <2>1, <2>2 DEF b
  <2>4. \A k \in 1 .. 7 * g + j : k \in 1 .. 7 * g + (j - 1) \/ k = 7 * g + j
    OBVIOUS
  <2>5. \A k \in 1 .. 7 * g + (j - 1) : Append(o, b)[k] = bytes[k]
    BY <1>3, <2>1, <2>2
  <2>6. \A k \in 1 .. 7 * g + j : Append(o, b)[k] = bytes[k]
    BY <2>3, <2>4, <2>5
  <2> QED  BY <1>8, <2>1, <2>2, <2>6
<1>10. CASE j = 7
  <2>1. e.pos = 7 - 0 /\ 7 * g + j = 7 * (g + 1) + 0
    BY <1>7, <1>8, <1>10
  <2>2. DecodedAt(bytes, w, e, g + 1, 0)
    BY <1>8, <1>9, <2>1 DEF DecodedAt
  <2> QED  BY <1>10, <2>2 DEF e, v
<1>11. CASE j # 7
  <2>1. e.pos = 7 - (j + 1) /\ 7 * g + j = 7 * g + ((j + 1) - 1) /\ j + 1 # 0
    BY <1>7, <1>8, <1>11
  <2>2. e.msbs = w[8 * g + 1]
    BY <1>3, <1>8
  <2>3. DecodedAt(bytes, w, e, g, j + 1)
    BY <1>8, <1>9, <2>1, <2>2 DEF DecodedAt
  <2> QED  BY <1>11, <2>3 DEF e, v
<1> QED  BY <1>10, <1>11

\* Whatever byte of a group comes next, as many bytes as were encoded have been decoded.
LEMMA OneMoreDecoded ==
  ASSUME NEW bytes \in Seq(Octet), NEW w, Laid7(bytes, w), NEW i \in Nat, i + 1 <= Len(w),
         Len(w) \in Nat, NEW d \in Decoders, Decoded(bytes, w, i, d)
  PROVE  Decoded(bytes, w, i + 1, DecodeByte(d, w[i + 1]))
<1>1. PICK g \in Nat, j \in 0 .. 7 : i = 8 * g + j /\ DecodedAt(bytes, w, d, g, j)
  BY DEF Decoded
<1> DEFINE e == DecodeByte(d, w[i + 1])
<1>2. CASE j = 0
  <2>1. i + 1 = 8 * g + 1 /\ 1 \in 0 .. 7
    BY <1>1, <1>2
  <2>2. DecodedAt(bytes, w, e, g, 1)
    BY <1>1, <1>2, <2>1, SignsDecoded
  <2> HIDE DEF e
  <2>3. Decoded(bytes, w, i + 1, e)
    BY <2>1, <2>2 DEF Decoded
  <2> QED  BY <2>3 DEF e
<1>3. CASE j # 0
  <2>1. j \in 1 .. 7 /\ i + 1 = 8 * g + 1 + j /\ 8 * g + 1 + j <= Len(w)
    BY <1>1, <1>3
  <2>2. IF j = 7 THEN DecodedAt(bytes, w, e, g + 1, 0) ELSE DecodedAt(bytes, w, e, g, j + 1)
    BY <1>1, <2>1, OtherDecoded
  <2> HIDE DEF e
  <2>3. Decoded(bytes, w, i + 1, e)
    <3>1. CASE j = 7
      <4>1. i + 1 = 8 * (g + 1) + 0 /\ g + 1 \in Nat /\ 0 \in 0 .. 7
        BY <1>1, <3>1
      <4> QED  BY <2>2, <3>1, <4>1 DEF Decoded
    <3>2. CASE j # 7
      <4>1. i + 1 = 8 * g + (j + 1) /\ j + 1 \in 0 .. 7
        BY <1>1, <2>1, <3>2
      <4> QED  BY <2>2, <3>2, <4>1 DEF Decoded
    <3> QED  BY <3>1, <3>2
  <2> QED  BY <2>3 DEF e
<1> QED  BY <1>2, <1>3

\* What is encoded in groups of seven bytes is decoded to the same.
THEOREM Mcoded7RoundTrip ==
  \A bytes \in Seq(Octet) :
    LET read == DecodeMcoded7(EncodeMcoded7(bytes))
    IN  read.out = bytes /\ good(read)
<1> SUFFICES ASSUME NEW bytes \in Seq(Octet)
             PROVE  LET read == DecodeMcoded7(EncodeMcoded7(bytes))
                    IN  read.out = bytes /\ good(read)
  OBVIOUS
<1> DEFINE w == EncodeMcoded7(bytes)
           n == Len(w)
<1>1. w \in Seq(Septet7) /\ Laid7(bytes, w)
  BY EncodedIs
<1> HIDE DEF w
<1>2. w \in Seq(Octet) /\ n \in Nat
  <2>1. n \in Nat /\ w \in [1 .. n -> Septet7]
    BY <1>1
  <2>2. Septet7 \subseteq Octet
    BY DEF Septet7, Octet, seven_bits
  <2>3. \A i \in 1 .. n : w[i] \in Octet
    BY <2>1, <2>2
  <2>4. w = [i \in 1 .. n |-> w[i]]
    BY <2>1
  <2> HIDE DEF n
  <2>5. [i \in 1 .. n |-> w[i]] \in Seq(Octet)
    BY <2>1, <2>3, IsASeq
  <2> QED  BY <2>1, <2>4, <2>5
<1>3. PICK h : Decoding(w, h) /\ DecodeMcoded7(w) = h[n]
  BY <1>2, DecodingSteps
<1>4. /\ h \in [0 .. n -> Decoders] /\ h[0] = NewDecoder
      /\ \A i \in 1 .. n : h[i] = DecodeByte(h[i - 1], w[i])
  BY <1>3 DEF Decoding
<1> DEFINE T == {i \in Nat : i <= n => Decoded(bytes, w, i, h[i])}
<1>5. 0 \in T
  <2>1. NewDecoder.pos = 7 - 0 /\ NewDecoder.bad = FALSE /\ NewDecoder.out = <<>>
    BY DEF NewDecoder, msb
  <2>2. Len(<<>>) = 7 * 0 + 0 /\ \A k \in 1 .. 0 : FALSE
    OBVIOUS
  <2>3. DecodedAt(bytes, w, NewDecoder, 0, 0)
    BY <2>1, <2>2 DEF DecodedAt
  <2>4. 0 = 8 * 0 + 0 /\ 0 \in Nat /\ 0 \in 0 .. 7
    OBVIOUS
  <2>5. Decoded(bytes, w, 0, NewDecoder)
    BY <2>3, <2>4 DEF Decoded
  <2> QED  BY <1>4, <2>5
<1>6. ASSUME NEW i \in T
      PROVE  i + 1 \in T
  <2>1. i \in Nat /\ (i <= n => Decoded(bytes, w, i, h[i]))
    OBVIOUS
  <2> HIDE DEF T
  <2>2. ASSUME i + 1 <= n
        PROVE  Decoded(bytes, w, i + 1, h[i + 1])
    <3>1. i + 1 \in 1 .. n /\ (i + 1) - 1 = i /\ i \in 0 .. n /\ i <= n
      BY <1>2, <2>1, <2>2
    <3>2. h[i] \in Decoders /\ h[i + 1] = DecodeByte(h[i], w[i + 1])
      BY <1>4, <3>1
    <3>3. Decoded(bytes, w, i + 1, DecodeByte(h[i], w[i + 1]))
      BY <1>1, <1>2, <2>1, <2>2, <3>1, <3>2, OneMoreDecoded
    <3> QED  BY <3>2, <3>3
  <2>3. i + 1 \in Nat
    BY <2>1
  <2> QED  BY <2>2, <2>3 DEF T
<1>7. T = Nat
  <2>1. T \in SUBSET Nat
    OBVIOUS
  <2> HIDE DEF T
  <2> QED  BY <1>5, <1>6, <2>1, AllNumbers
<1> DEFINE d == h[n]
<1>8. Decoded(bytes, w, n, d) /\ d \in Decoders
  <2>1. n \in T /\ n \in 0 .. n /\ n <= n
    BY <1>2, <1>7
  <2> QED  BY <1>4, <2>1
<1> HIDE DEF T, d
<1>9. PICK g \in Nat, j \in 0 .. 7 : n = 8 * g + j /\ DecodedAt(bytes, w, d, g, j)
  BY <1>8 DEF Decoded
<1>10. PICK m \in Nat, r \in 0 .. 6 :
        /\ Len(bytes) = 7 * m + r
        /\ n = 8 * m + (IF r = 0 THEN 0 ELSE r + 1)
  BY <1>1 DEF Laid7
<1>11. g = m /\ j = IF r = 0 THEN 0 ELSE r + 1
  BY <1>9, <1>10
<1>12. /\ d.bad = FALSE /\ Len(d.out) = Len(bytes)
       /\ \A k \in 1 .. Len(bytes) : d.out[k] = bytes[k]
  <2>1. Len(d.out) = 7 * g + (IF j = 0 THEN 0 ELSE j - 1)
        /\ \A k \in 1 .. Len(d.out) : d.out[k] = bytes[k]
    BY <1>9 DEF DecodedAt
  <2>2. 7 * g + (IF j = 0 THEN 0 ELSE j - 1) = 7 * m + r
    BY <1>11
  <2> QED  BY <1>9, <1>10, <2>1, <2>2 DEF DecodedAt
<1>13. d.out = bytes
  <2>1. d.out \in Seq(Octet)
    BY <1>8 DEF Decoders
  <2> QED  BY <1>12, <2>1, SeqEqual
<1> QED  BY <1>3, <1>12, <1>13 DEF good, d, w

\* The handler of a property exchange message is told the header and the data that
\* were sent.
LEMMA ExchangeTold ==
  ASSUME Prompt, NEW c \in ToSet(calls), NEW w \in Written, ToldOf(c, w)
  PROVE  c[3].header = w.content.object.header /\ c[3].data = w.content.object.data
<1>1. /\ w.content \in Content /\ w.content.type \in PropertyExchange
      /\ w.content.type = "pe_get" => w.data = <<>>
      /\ w.content.object.data = EncodeMcoded7(w.data)
  BY WrittenAssumption
<1>2. PICK m \in sent : m.content = w.content
  BY DEF ToldOf
<1>3. c[1] = w.content.type
  BY DEF ToldOf
<1> DEFINE type == w.content.type
<1>4. /\ type \in Types /\ type \notin ProcessInquiry
      /\ type # "unknown_midici" /\ type # "buffer_overflow"
  <2>1. type \in PropertyExchange
    BY <1>1
  <2>2. type # "unknown_midici" /\ type # "buffer_overflow"
    BY <2>1 DEF PropertyExchange
  <2> QED  BY <2>1, <2>2, ClassesApart, NamesApart
<1>5. calls = OutcomeOf(m)
  <2>1. calls = <<>> \/ calls = OutcomeOf(m)
    BY <1>2 DEF Prompt
  <2>2. calls # <<>>
    BY DEF ToSet
  <2> QED  BY <2>1, <2>2
<1>6. Known(m)
  BY <1>2, <1>4 DEF Known
<1>7. \A a : ToSet(<<a>>) = {a}
  BY DEF ToSet
<1>8. ToSet(<<>>) = {}
  BY DEF ToSet
<1>9. c = <<type, HeaderOf(m), Told(m)>>
  <2>1. CASE ~ForMe(m)
    BY <1>5, <1>6, <1>8, <2>1, OutcomeIs
  <2>2. CASE ForMe(m) /\ ~Fits(m)
    <3>1. OutcomeOf(m) \in {<<>>, <<<<"buffer_overflow">>>>}
      BY <1>6, <2>2, OutcomeIs
    <3>2. c = <<"buffer_overflow">>
      BY <1>5, <1>7, <1>8, <3>1
    <3>3. c[1] = "buffer_overflow"
      BY <3>2
    <3> QED  BY <1>3, <1>4, <3>3
  <2>3. CASE ForMe(m) /\ Fits(m)
    <3>1. OutcomeOf(m) \in {<<>>, <<<<type, HeaderOf(m), Told(m)>>>>}
      BY <1>2, <1>4, <1>6, <2>3, OutcomeIs
    <3> QED  BY <1>5, <1>7, <1>8, <3>1
  <2> QED  BY <2>1, <2>2, <2>3
<1> DEFINE object == w.content.object
<1>10. PICK f, g : /\ Messages[type].v2 = <<Counted(f, "header", 1), Counted(g, "data", 1)>>
                   /\ Messages[type].v1 = Messages[type].v2
  BY <1>1, ExchangeAre
<1> DEFINE parts == Messages[type].v2
<1>11. \A v : Parts(type, v) = parts
  BY <1>10 DEF Parts
<1>12. {"header", "data"} \subseteq Members(parts)
  <2>1. 1 \in DOMAIN parts /\ 2 \in DOMAIN parts
        /\ parts[1].tail = "header" /\ parts[2].tail = "data"
    BY <1>10 DEF Counted
  <2> HIDE DEF parts
  <2>2. "header" \in Members(parts) /\ "data" \in Members(parts)
    BY <2>1, MemberIs
  <2> QED  BY <2>2
<1>13. "data" \in Arrays(parts)
  <2>1. 2 \in DOMAIN parts /\ parts[2].tail = "data"
    BY <1>10 DEF Counted
  <2> HIDE DEF parts
  <2> QED  BY <2>1 DEF Arrays, ToSet
<1>14. DOMAIN object = Members(parts)
  BY <1>1, LinkAssumption DEF IsMessage
<1>15. Told(m).header = object.header
       /\ Told(m).data = IF type = "pe_get" THEN <<>> ELSE object.data
  BY <1>2, <1>11, <1>12, <1>13, <1>14 DEF Told
<1>16. type = "pe_get" => object.data = <<>>
  <2>1. EncodeMcoded7(<<>>) = <<>>
    <3>1. <<>> \in Seq(Octet) /\ Len(<<>>) = 0
      OBVIOUS
    <3>2. PICK h : Encoding(<<>>, h) /\ EncodeAll(<<>>) = h[Len(<<>>)]
      BY <3>1, EncodingSteps
    <3>3. EncodeAll(<<>>) = NewEncoder
      BY <3>1, <3>2 DEF Encoding
    <3> QED  BY <3>3 DEF EncodeMcoded7, Flush, NewEncoder
  <2> QED  BY <1>1, <2>1
<1> QED  BY <1>9, <1>15, <1>16

\* Eight-bit data that a property exchange message carries is what its handler decodes,
\* whatever bytes they are and however many, for every message that is sent.
THEOREM DataCarried == Spec => []DataSurvives
<1>1. Prompt => DataSurvives
  <2> SUFFICES ASSUME Prompt, NEW c \in ToSet(calls), NEW w \in Written, ToldOf(c, w)
               PROVE  LET read == DecodeMcoded7(c[3].data)
                      IN  read.out = w.data /\ good(read)
    BY DEF DataSurvives
  <2>1. c[3].data = EncodeMcoded7(w.data) /\ w.data \in Seq(SUBSET (0 .. 7))
    BY ExchangeTold, WrittenAssumption
  <2> QED  BY <2>1, Mcoded7RoundTrip DEF Octet
<1> QED  BY CalledPromptly, <1>1, PTL

-------------------------------------------------------------------------------
(* Text, character by character.                                                 *)

\* The decoder in each of its states; what it has read once the text ends, and whether
\* that is well formed.
Reader(s, x, h, o, w, g) ==
  [state |-> s, hex |-> x, high |-> h, out |-> o, well_formed |-> w, units_good |-> g]

Characters == 0 .. 127
States == {Normal, "escape"} \union DOMAIN Hex
CodeUnit == {n \in Nat : n < 65536}
Waiting == {0} \union high_surrogates
Readers ==
  [state : States, hex : CodeUnit, high : Waiting, out : Seq(Nat),
   well_formed : BOOLEAN, units_good : BOOLEAN]

OutOf(d) == IF d.high # 0 THEN Append(d.out, replacement_char) ELSE d.out
UnitsOk(d) == d.units_good /\ d.high = 0
Ok(d)    == d.well_formed /\ UnitsOk(d)

\* A decoder is the record of its members.
LEMMA ReaderIs ==
  ASSUME NEW d \in Readers
  PROVE  /\ d = Reader(d.state, d.hex, d.high, d.out, d.well_formed, d.units_good)
         /\ d.hex \in CodeUnit /\ d.high \in Waiting /\ d.out \in Seq(Nat)
         /\ d.well_formed \in BOOLEAN /\ d.units_good \in BOOLEAN
         /\ d.state \in States
         /\ OutOf(d) \in Seq(Nat) /\ Ok(d) \in BOOLEAN
<1>1. d.out \in Seq(Nat) /\ replacement_char \in Nat
  BY DEF Readers, replacement_char
<1>2. Append(d.out, replacement_char) \in Seq(Nat)
  BY <1>1, AppendProperties
<1>3. d = Reader(d.state, d.hex, d.high, d.out, d.well_formed, d.units_good)
  BY DEF Readers, Reader
<1>4. /\ d.hex \in CodeUnit /\ d.high \in Waiting
      /\ d.well_formed \in BOOLEAN /\ d.units_good \in BOOLEAN
      /\ d.state \in States
  BY DEF Readers
<1>5. OutOf(d) \in Seq(Nat) /\ Ok(d) \in BOOLEAN
  BY <1>1, <1>2 DEF OutOf, Ok, UnitsOk
<1> QED  BY <1>1, <1>3, <1>4, <1>5

\* What is put together of the values of the members is a decoder.
LEMMA ReaderType ==
  ASSUME NEW s \in States, NEW x \in CodeUnit,
         NEW h \in Waiting, NEW o \in Seq(Nat), NEW w \in BOOLEAN,
         NEW g \in BOOLEAN
  PROVE  Reader(s, x, h, o, w, g) \in Readers
BY DEF Reader, Readers

\* The states are different, and each but the last one that expects a digit leads to
\* another one.
LEMMA StatesAre ==
  /\ DOMAIN Hex = {"hex1", "hex2", "hex3", "hex4"}
  /\ Hex["hex1"] = "hex2" /\ Hex["hex2"] = "hex3" /\ Hex["hex3"] = "hex4"
  /\ Normal \notin DOMAIN Hex /\ "escape" \notin DOMAIN Hex /\ Normal # "escape"
BY DEF Hex, Normal

\* The members of a decoder.
LEMMA MembersAre ==
  ASSUME NEW s, NEW x, NEW h, NEW o, NEW w, NEW g
  PROVE  LET d == Reader(s, x, h, o, w, g)
         IN  /\ d.state = s /\ d.hex = x /\ d.high = h /\ d.out = o
             /\ d.well_formed = w /\ d.units_good = g
BY DEF Reader

\* end_cp(): a high surrogate that still waits is replaced.
LEMMA EndIs ==
  ASSUME NEW s, NEW x, NEW h, NEW o, NEW w, NEW g \in BOOLEAN
  PROVE  LET d == Reader(s, x, h, o, w, g)
         IN  end_cp(d) = Reader(s, x, 0, OutOf(d), w, UnitsOk(d))
<1> DEFINE d == Reader(s, x, h, o, w, g)
           z == Append(o, replacement_char)
<1>1. d.high = h /\ d.out = o
  BY MembersAre
<1>2. CASE h # 0
  <2>1. end_cp(d) = [d EXCEPT !.high = 0, !.out = z, !.units_good = FALSE]
    BY <1>1, <1>2, Zenon DEF end_cp, Outstanding
  <2> HIDE DEF z
  <2>2. [d EXCEPT !.high = 0, !.out = z, !.units_good = FALSE] = Reader(s, x, 0, z, w, FALSE)
    <3> DEFINE no == FALSE
    <3> HIDE DEF no
    <3>1. [Reader(s, x, h, o, w, g) EXCEPT !.high = 0, !.out = z, !.units_good = no]
           = [[[Reader(s, x, h, o, w, g) EXCEPT !.high = 0] EXCEPT !.out = z]
               EXCEPT !.units_good = no]
      BY Zenon
    <3>2. [Reader(s, x, h, o, w, g) EXCEPT !.high = 0] = Reader(s, x, 0, o, w, g)
      BY DEF Reader
    <3>3. [Reader(s, x, 0, o, w, g) EXCEPT !.out = z] = Reader(s, x, 0, z, w, g)
      BY DEF Reader
    <3>4. [Reader(s, x, 0, z, w, g) EXCEPT !.units_good = no] = Reader(s, x, 0, z, w, no)
      BY DEF Reader
    <3> QED  BY <3>1, <3>2, <3>3, <3>4 DEF no
  <2>3. end_cp(d) = Reader(s, x, 0, z, w, FALSE)
    BY <2>1, <2>2
  <2>4. OutOf(d) = z /\ UnitsOk(d) = FALSE
    BY <1>1, <1>2, MembersAre DEF OutOf, UnitsOk, z
  <2> QED  BY <1>2, <2>3, <2>4 DEF z
<1>3. CASE h = 0
  <2>1. end_cp(d) = d
    BY <1>1, <1>3, Zenon DEF end_cp, Outstanding
  <2>2. OutOf(d) = o /\ UnitsOk(d) = g
    BY <1>1, <1>3, MembersAre DEF OutOf, UnitsOk
  <2> QED  BY <1>3, <2>1, <2>2
<1> QED  BY <1>2, <1>3

\* No surrogate is a high one and a low one.
LEMMA SurrogatesApart ==
  high_surrogates \intersect low_surrogates = {}
BY DEF high_surrogates, low_surrogates

\* The character of a surrogate pair.
PairOf(h, l) == 65536 + 1024 * (h - 55296) + (l - 56320)

\* A unit of UTF-16 that is the low surrogate for the high one that waits.
LEMMA PairRead ==
  ASSUME NEW s, NEW x, NEW h, NEW o, NEW w, NEW g, NEW u \in low_surrogates, h # 0
  PROVE  t16_32(Reader(s, x, h, o, w, g), u)
           = Reader(s, x, 0, Append(o, PairOf(h, u)), w, g)
<1> DEFINE d == Reader(s, x, h, o, w, g)
           z == Append(o, PairOf(h, u))
<1>1. d.high = h /\ d.out = o
  BY MembersAre
<1>2. t16_32(d, u) = [d EXCEPT !.high = 0, !.out = z]
  BY <1>1 DEF t16_32, Outstanding, PairOf
<1> HIDE DEF z
<1>3. [d EXCEPT !.high = 0, !.out = z] = Reader(s, x, 0, z, w, g)
  <2>1. [Reader(s, x, h, o, w, g) EXCEPT !.high = 0, !.out = z]
         = [[Reader(s, x, h, o, w, g) EXCEPT !.high = 0] EXCEPT !.out = z]
    BY Zenon
  <2>2. [Reader(s, x, h, o, w, g) EXCEPT !.high = 0] = Reader(s, x, 0, o, w, g)
    BY DEF Reader
  <2>3. [Reader(s, x, 0, o, w, g) EXCEPT !.out = z] = Reader(s, x, 0, z, w, g)
    BY DEF Reader
  <2> QED  BY <2>1, <2>2, <2>3
<1> QED  BY <1>2, <1>3 DEF z

\* A high surrogate waits for a low one; what has waited is replaced.
LEMMA HighRead ==
  ASSUME NEW s, NEW x, NEW h, NEW o, NEW w, NEW g \in BOOLEAN, NEW u \in high_surrogates
  PROVE  LET d == Reader(s, x, h, o, w, g)
         IN  t16_32(d, u) = Reader(s, x, u, OutOf(d), w, UnitsOk(d))
<1> DEFINE d == Reader(s, x, h, o, w, g)
           f == Reader(s, x, 0, OutOf(d), w, UnitsOk(d))
<1>1. end_cp(d) = f
  BY EndIs
<1>2. u \notin low_surrogates
  BY SurrogatesApart
<1>3. t16_32(d, u) = [f EXCEPT !.high = u]
  BY <1>1, <1>2 DEF t16_32
<1>4. \A p, k : [Reader(s, x, 0, p, w, k) EXCEPT !.high = u] = Reader(s, x, u, p, w, k)
  BY DEF Reader
<1> QED  BY <1>3, <1>4

\* A low surrogate for which no high one waits is replaced.
LEMMA LowRead ==
  ASSUME NEW s, NEW x, NEW o, NEW w, NEW g \in BOOLEAN, NEW u \in low_surrogates
  PROVE  t16_32(Reader(s, x, 0, o, w, g), u)
           = Reader(s, x, 0, Append(o, replacement_char), w, FALSE)
<1> DEFINE f == Reader(s, x, 0, o, w, g)
           z == Append(o, replacement_char)
<1>1. f.high = 0 /\ f.out = o /\ f.units_good = g
  BY MembersAre
<1>2. end_cp(f) = f
  BY <1>1 DEF end_cp, Outstanding
<1>3. u \notin high_surrogates
  BY SurrogatesApart
<1>4. t16_32(f, u) = [f EXCEPT !.out = z, !.units_good = FALSE]
  <2> DEFINE e == end_cp(f)
  <2>1. ~ Outstanding(f)
    BY <1>1 DEF Outstanding
  <2>2. t16_32(f, u) = [e EXCEPT !.out = Append(@, replacement_char), !.units_good = FALSE]
    BY <1>3, <2>1 DEF t16_32
  <2>3. e.out = o
    BY <1>1, <1>2
  <2> HIDE DEF e, f
  <2>4. t16_32(f, u) = [e EXCEPT !.out = Append(o, replacement_char), !.units_good = FALSE]
    BY <2>2, <2>3
  <2>5. e = f
    BY <1>2 DEF e
  <2> QED  BY <2>4, <2>5
<1> HIDE DEF z
<1>5. [f EXCEPT !.out = z, !.units_good = FALSE] = Reader(s, x, 0, z, w, FALSE)
  <2> DEFINE no == FALSE
  <2> HIDE DEF no
  <2>1. [Reader(s, x, 0, o, w, g) EXCEPT !.out = z, !.units_good = no]
         = [[Reader(s, x, 0, o, w, g) EXCEPT !.out = z] EXCEPT !.units_good = no]
    BY Zenon
  <2>2. [Reader(s, x, 0, o, w, g) EXCEPT !.out = z] = Reader(s, x, 0, z, w, g)
    BY DEF Reader
  <2>3. [Reader(s, x, 0, z, w, g) EXCEPT !.units_good = no] = Reader(s, x, 0, z, w, no)
    BY DEF Reader
  <2> QED  BY <2>1, <2>2, <2>3 DEF no
<1> QED  BY <1>4, <1>5 DEF z

\* Any other unit is a character.
LEMMA OtherRead ==
  ASSUME NEW s, NEW x, NEW h, NEW o, NEW w, NEW g \in BOOLEAN,
         NEW u, u \notin high_surrogates, u \notin low_surrogates
  PROVE  LET d == Reader(s, x, h, o, w, g)
         IN  t16_32(d, u) = Reader(s, x, 0, Append(OutOf(d), u), w, UnitsOk(d))
<1> DEFINE d == Reader(s, x, h, o, w, g)
           p == OutOf(d)
           k == UnitsOk(d)
           z == Append(p, u)
           f == Reader(s, x, 0, p, w, k)
<1>1. end_cp(d) = f
  BY EndIs
<1> HIDE DEF p, k
<1>2. f.out = p
  BY MembersAre
<1>3. t16_32(d, u) = [f EXCEPT !.out = z]
  BY <1>1, <1>2 DEF t16_32
<1> HIDE DEF z
<1>4. [f EXCEPT !.out = z] = Reader(s, x, 0, z, w, k)
  BY DEF Reader
<1>5. t16_32(d, u) = Reader(s, x, 0, z, w, k)
  BY <1>3, <1>4
<1> QED  BY <1>5 DEF z, p, k

\* A character that stands for itself.
LEMMA PlainIs ==
  ASSUME NEW s, NEW x, NEW h, NEW o, NEW w, NEW g \in BOOLEAN, NEW c
  PROVE  LET d == Reader(s, x, h, o, w, g)
         IN  Plain(d, c) = Reader(Normal, x, 0, Append(OutOf(d), c), w, UnitsOk(d))
<1> DEFINE d == Reader(s, x, h, o, w, g)
           p == OutOf(d)
           k == UnitsOk(d)
           z == Append(p, c)
           f == Reader(s, x, 0, p, w, k)
<1>1. end_cp(d) = f
  BY EndIs
<1> HIDE DEF p, k
<1>2. f.out = p
  BY MembersAre
<1>3. Plain(d, c) = [f EXCEPT !.out = z, !.state = Normal]
  BY <1>1, <1>2 DEF Plain
<1> HIDE DEF z
<1>4. [f EXCEPT !.out = z, !.state = Normal] = Reader(Normal, x, 0, z, w, k)
  <2>1. [Reader(s, x, 0, p, w, k) EXCEPT !.out = z, !.state = Normal]
         = [[Reader(s, x, 0, p, w, k) EXCEPT !.out = z] EXCEPT !.state = Normal]
    BY Zenon
  <2>2. [Reader(s, x, 0, p, w, k) EXCEPT !.out = z] = Reader(s, x, 0, z, w, k)
    BY DEF Reader
  <2>3. [Reader(s, x, 0, z, w, k) EXCEPT !.state = Normal] = Reader(Normal, x, 0, z, w, k)
    BY DEF Reader
  <2> QED  BY <2>1, <2>2, <2>3
<1>5. Plain(d, c) = Reader(Normal, x, 0, z, w, k)
  BY <1>3, <1>4
<1> QED  BY <1>5 DEF z, p, k

\* The characters are of seven bits, and each state has its own branch.
LEMMA Branches ==
  ASSUME NEW d, NEW c \in Characters
  PROVE  /\ d.state \in DOMAIN Hex => DecodeChar(d, c) = HexDigit(d, c)
         /\ d.state = "escape" => DecodeChar(d, c) = escape_char(d, c)
         /\ d.state = Normal =>
              DecodeChar(d, c) = IF c = backslash THEN [d EXCEPT !.state = "escape"]
                                 ELSE Plain(d, c)
<1>1. ~ (c >= 2 ^ 7)
  <2>1. 2 ^ 7 = 128
    OBVIOUS
  <2> QED  BY <2>1 DEF Characters
<1> QED  BY <1>1, StatesAre, Zenon DEF DecodeChar

\* In the normal state a backslash starts an escape, anything else is a character.
LEMMA NormalRead ==
  ASSUME NEW x, NEW h, NEW o, NEW w, NEW g \in BOOLEAN, NEW c \in Characters
  PROVE  LET d == Reader(Normal, x, h, o, w, g)
         IN  DecodeChar(d, c) =
               IF c = backslash THEN Reader("escape", x, h, o, w, g)
               ELSE Reader(Normal, x, 0, Append(OutOf(d), c), w, UnitsOk(d))
<1> DEFINE d == Reader(Normal, x, h, o, w, g)
<1>1. d.state = Normal
  BY MembersAre
<1>2. [d EXCEPT !.state = "escape"] = Reader("escape", x, h, o, w, g)
  BY DEF Reader
<1>3. Plain(d, c) = Reader(Normal, x, 0, Append(OutOf(d), c), w, UnitsOk(d))
  BY PlainIs
<1>4. DecodeChar(d, c) = IF c = backslash THEN [d EXCEPT !.state = "escape"] ELSE Plain(d, c)
  BY <1>1, Branches
<1> QED  BY <1>2, <1>3, <1>4

\* After a backslash the letter u starts a unit; any other letter is a character, and not
\* well formed if it is not one of the escapes.
LEMMA EscapeRead ==
  ASSUME NEW x, NEW h, NEW o, NEW w \in BOOLEAN, NEW g \in BOOLEAN, NEW c \in Characters
  PROVE  LET d == Reader("escape", x, h, o, w, g)
         IN  /\ c = letter_u => DecodeChar(d, c) = Reader("hex1", 0, h, o, w, g)
             /\ c # letter_u =>
                  \E k \in BOOLEAN :
                    /\ k <=> w /\ IsEscape(c)
                    /\ DecodeChar(d, c) =
                         Reader(Normal, x, 0, Append(OutOf(d), Control(c)), k, UnitsOk(d))
<1> DEFINE d == Reader("escape", x, h, o, w, g)
           k == w /\ IsEscape(c)
           a == Control(c)
<1>1. d.state = "escape" /\ d.well_formed = w
  BY MembersAre
<1>2. DecodeChar(d, c) = escape_char(d, c)
  BY <1>1, Branches
<1>3. ASSUME c = letter_u
      PROVE  DecodeChar(d, c) = Reader("hex1", 0, h, o, w, g)
  <2>1. DecodeChar(d, c) = [d EXCEPT !.state = "hex1", !.hex = 0]
    BY <1>2, <1>3, Zenon DEF escape_char
  <2>2. [d EXCEPT !.state = "hex1", !.hex = 0] = Reader("hex1", 0, h, o, w, g)
    <3>1. [Reader("escape", x, h, o, w, g) EXCEPT !.state = "hex1", !.hex = 0]
           = [[Reader("escape", x, h, o, w, g) EXCEPT !.state = "hex1"] EXCEPT !.hex = 0]
      BY Zenon
    <3>2. [Reader("escape", x, h, o, w, g) EXCEPT !.state = "hex1"] = Reader("hex1", x, h, o, w, g)
      BY DEF Reader
    <3>3. [Reader("hex1", x, h, o, w, g) EXCEPT !.hex = 0] = Reader("hex1", 0, h, o, w, g)
      BY DEF Reader
    <3> QED  BY <3>1, <3>2, <3>3
  <2> QED  BY <2>1, <2>2
<1>4. k \in BOOLEAN
  OBVIOUS
<1>5. ASSUME c # letter_u
      PROVE  DecodeChar(d, c) = Reader(Normal, x, 0, Append(OutOf(d), a), k, UnitsOk(d))
  <2> DEFINE f == Reader("escape", x, h, o, k, g)
  <2>1. DecodeChar(d, c) = Plain([d EXCEPT !.well_formed = @ /\ IsEscape(c)], a)
    BY <1>2, <1>5, Zenon DEF escape_char
  <2>2. [d EXCEPT !.well_formed = @ /\ IsEscape(c)] = [d EXCEPT !.well_formed = k]
    BY <1>1, Zenon
  <2> HIDE DEF k, a
  <2>3. [d EXCEPT !.well_formed = k] = f
    BY DEF Reader
  <2>4. Plain(f, a) = Reader(Normal, x, 0, Append(OutOf(f), a), k, UnitsOk(f))
    BY PlainIs
  <2>5. OutOf(f) = OutOf(d) /\ UnitsOk(f) = UnitsOk(d)
    BY MembersAre DEF OutOf, UnitsOk
  <2> HIDE DEF f, d
  <2> QED  BY <2>1, <2>2, <2>3, <2>4, <2>5
<1> QED  BY <1>3, <1>4, <1>5

\* The value of the digits so far, with one more.
Shifted(x, c) == (16 * x + Digit(c)) % 2 ^ 16

\* The four states that expect a digit.
DigitRead(d, s, c, v) ==
  IF ~IsHex(c) THEN [d EXCEPT !.state = Normal, !.hex = 0, !.well_formed = FALSE]
  ELSE IF s # "hex4" THEN [d EXCEPT !.state = Hex[s], !.hex = v]
  ELSE [t16_32(d, v) EXCEPT !.state = Normal, !.hex = 0]

\* In each of the four states that expect a digit, DecodeChar reads a digit.
LEMMA HexIs ==
  ASSUME NEW s \in DOMAIN Hex, NEW x, NEW h, NEW o, NEW w, NEW g, NEW c \in Characters,
         NEW v, v = Shifted(x, c)
  PROVE  DecodeChar(Reader(s, x, h, o, w, g), c) = DigitRead(Reader(s, x, h, o, w, g), s, c, v)
<1> DEFINE d == Reader(s, x, h, o, w, g)
<1>1. d.state = s /\ d.hex = x
  BY MembersAre
<1>2. DecodeChar(d, c) = HexDigit(d, c)
  BY <1>1, Branches
<1>3. (16 * d.hex + Digit(c)) % 2 ^ 16 = v
  BY <1>1 DEF Shifted
<1>4. HexDigit(d, c) =
        IF ~IsHex(c) THEN [d EXCEPT !.state = Normal, !.hex = 0, !.well_formed = FALSE]
        ELSE IF d.state # "hex4"
        THEN [d EXCEPT !.state = Hex[d.state], !.hex = (16 * d.hex + Digit(c)) % 2 ^ 16]
        ELSE [t16_32(d, (16 * d.hex + Digit(c)) % 2 ^ 16) EXCEPT !.state = Normal, !.hex = 0]
  BY Zenon DEF HexDigit
<1> HIDE DEF d
<1>5. DecodeChar(d, c) = DigitRead(d, s, c, v)
  BY <1>1, <1>2, <1>3, <1>4, Zenon DEF DigitRead
<1> QED  BY <1>5, Zenon DEF d

\* A character where a digit should be ends the escape.
LEMMA NotHexRead ==
  ASSUME NEW s \in DOMAIN Hex, NEW x, NEW h, NEW o, NEW w, NEW g, NEW c \in Characters,
         ~IsHex(c)
  PROVE  \E no \in BOOLEAN :
           ~no /\ DecodeChar(Reader(s, x, h, o, w, g), c) = Reader(Normal, 0, h, o, no, g)
<1> DEFINE d == Reader(s, x, h, o, w, g)
           v == Shifted(x, c)
           no == FALSE
<1>1. DecodeChar(d, c) = DigitRead(d, s, c, v)
  BY HexIs
<1>2. DecodeChar(d, c) = [d EXCEPT !.state = Normal, !.hex = 0, !.well_formed = no]
  BY <1>1, Zenon DEF DigitRead
<1>3. no \in BOOLEAN /\ ~no
  OBVIOUS
<1> HIDE DEF no
<1>4. [d EXCEPT !.state = Normal, !.hex = 0, !.well_formed = no]
        = Reader(Normal, 0, h, o, no, g)
  <2>1. [Reader(s, x, h, o, w, g) EXCEPT !.state = Normal, !.hex = 0, !.well_formed = no]
          = [[[Reader(s, x, h, o, w, g) EXCEPT !.state = Normal]
                EXCEPT !.hex = 0] EXCEPT !.well_formed = no]
    BY Zenon
  <2>2. [Reader(s, x, h, o, w, g) EXCEPT !.state = Normal] = Reader(Normal, x, h, o, w, g)
    BY DEF Reader
  <2>3. [Reader(Normal, x, h, o, w, g) EXCEPT !.hex = 0] = Reader(Normal, 0, h, o, w, g)
    BY DEF Reader
  <2>4. [Reader(Normal, 0, h, o, w, g) EXCEPT !.well_formed = no] = Reader(Normal, 0, h, o, no, g)
    BY DEF Reader
  <2> QED  BY <2>1, <2>2, <2>3, <2>4
<1>5. DecodeChar(d, c) = Reader(Normal, 0, h, o, no, g)
  BY <1>2, <1>4
<1> QED  BY <1>3, <1>5

\* A digit but the last one is shifted in.
LEMMA HexRead ==
  ASSUME NEW s \in DOMAIN Hex, NEW x, NEW h, NEW o, NEW w, NEW g, NEW c \in Characters,
         IsHex(c), s # "hex4", NEW v, v = Shifted(x, c), NEW t, t = Hex[s]
  PROVE  DecodeChar(Reader(s, x, h, o, w, g), c) = Reader(t, v, h, o, w, g)
<1> DEFINE d == Reader(s, x, h, o, w, g)
<1>1. DecodeChar(d, c) = DigitRead(d, s, c, v)
  BY HexIs
<1>2. DecodeChar(d, c) = [d EXCEPT !.state = t, !.hex = v]
  BY <1>1, Zenon DEF DigitRead
<1>3. [d EXCEPT !.state = t, !.hex = v] = Reader(t, v, h, o, w, g)
  <2>1. [Reader(s, x, h, o, w, g) EXCEPT !.state = t, !.hex = v]
          = [[Reader(s, x, h, o, w, g) EXCEPT !.state = t] EXCEPT !.hex = v]
    BY Zenon
  <2>2. [Reader(s, x, h, o, w, g) EXCEPT !.state = t] = Reader(t, x, h, o, w, g)
    BY DEF Reader
  <2>3. [Reader(t, x, h, o, w, g) EXCEPT !.hex = v] = Reader(t, v, h, o, w, g)
    BY DEF Reader
  <2> QED  BY <2>1, <2>2, <2>3
<1> QED  BY <1>2, <1>3

\* The fourth digit of a unit: what the unit leads to ends the escape.
LEMMA LastDigit ==
  ASSUME NEW x, NEW h, NEW o, NEW w, NEW g, NEW c \in Characters, IsHex(c),
         NEW v, v = Shifted(x, c), NEW y, NEW z, NEW k,
         t16_32(Reader("hex4", x, h, o, w, g), v) = Reader("hex4", x, y, z, w, k)
  PROVE  DecodeChar(Reader("hex4", x, h, o, w, g), c) = Reader(Normal, 0, y, z, w, k)
<1> DEFINE s == "hex4"
           d == Reader(s, x, h, o, w, g)
<1>1. s \in DOMAIN Hex
  BY StatesAre
<1>2. DecodeChar(d, c) = DigitRead(d, s, c, v)
  <2> HIDE DEF s
  <2> QED  BY <1>1, HexIs
<1>3. DecodeChar(d, c) = [t16_32(d, v) EXCEPT !.state = Normal, !.hex = 0]
  BY <1>2, Zenon DEF DigitRead
<1>4. t16_32(d, v) = Reader(s, x, y, z, w, k)
  OBVIOUS
<1> HIDE DEF s
<1>5. [Reader(s, x, y, z, w, k) EXCEPT !.state = Normal, !.hex = 0]
        = Reader(Normal, 0, y, z, w, k)
  <2>1. [Reader(s, x, y, z, w, k) EXCEPT !.state = Normal, !.hex = 0]
          = [[Reader(s, x, y, z, w, k) EXCEPT !.state = Normal] EXCEPT !.hex = 0]
    BY Zenon
  <2>2. [Reader(s, x, y, z, w, k) EXCEPT !.state = Normal] = Reader(Normal, x, y, z, w, k)
    BY DEF Reader
  <2>3. [Reader(Normal, x, y, z, w, k) EXCEPT !.hex = 0] = Reader(Normal, 0, y, z, w, k)
    BY DEF Reader
  <2> QED  BY <2>1, <2>2, <2>3
<1>6. DecodeChar(d, c) = Reader(Normal, 0, y, z, w, k)
  <2> HIDE DEF d
  <2> QED  BY <1>3, <1>4, <1>5, Zenon
<1> QED  BY <1>6 DEF s

\* The last digit of a low surrogate for which a high one waits makes a pair.
LEMMA PairUnit ==
  ASSUME NEW x, NEW h, NEW o, NEW w, NEW g, NEW c \in Characters, IsHex(c),
         NEW v, v = Shifted(x, c), v \in low_surrogates, h # 0
  PROVE  DecodeChar(Reader("hex4", x, h, o, w, g), c)
           = Reader(Normal, 0, 0, Append(o, PairOf(h, v)), w, g)
<1> DEFINE z == Append(o, PairOf(h, v))
<1>1. t16_32(Reader("hex4", x, h, o, w, g), v) = Reader("hex4", x, 0, z, w, g)
  BY PairRead
<1> HIDE DEF z
<1>2. DecodeChar(Reader("hex4", x, h, o, w, g), c) = Reader(Normal, 0, 0, z, w, g)
  BY <1>1, LastDigit
<1> QED  BY <1>2 DEF z

\* The last digit of a low surrogate for which none waits replaces it.
LEMMA LowUnit ==
  ASSUME NEW x, NEW o, NEW w, NEW g \in BOOLEAN, NEW c \in Characters, IsHex(c),
         NEW v, v = Shifted(x, c), v \in low_surrogates
  PROVE  \E no \in BOOLEAN :
           /\ ~no
           /\ DecodeChar(Reader("hex4", x, 0, o, w, g), c)
                = Reader(Normal, 0, 0, Append(o, replacement_char), w, no)
<1> DEFINE z == Append(o, replacement_char)
           no == FALSE
<1>1. t16_32(Reader("hex4", x, 0, o, w, g), v) = Reader("hex4", x, 0, z, w, no)
  BY LowRead, Zenon
<1>2. no \in BOOLEAN /\ ~no
  OBVIOUS
<1> HIDE DEF z, no
<1>3. DecodeChar(Reader("hex4", x, 0, o, w, g), c) = Reader(Normal, 0, 0, z, w, no)
  BY <1>1, LastDigit
<1> QED  BY <1>2, <1>3 DEF z

\* The last digit of a high surrogate makes it wait; what has waited is replaced.
LEMMA HighUnit ==
  ASSUME NEW x, NEW h, NEW o, NEW w, NEW g \in BOOLEAN, NEW c \in Characters, IsHex(c),
         NEW v, v = Shifted(x, c), v \in high_surrogates
  PROVE  LET d == Reader("hex4", x, h, o, w, g)
         IN  DecodeChar(d, c) = Reader(Normal, 0, v, OutOf(d), w, UnitsOk(d))
<1> DEFINE d == Reader("hex4", x, h, o, w, g)
           z == OutOf(d)
           k == UnitsOk(d)
<1>1. t16_32(Reader("hex4", x, h, o, w, g), v) = Reader("hex4", x, v, z, w, k)
  BY HighRead
<1> HIDE DEF z, k
<1>2. DecodeChar(Reader("hex4", x, h, o, w, g), c) = Reader(Normal, 0, v, z, w, k)
  BY <1>1, LastDigit
<1> QED  BY <1>2 DEF z, k

\* The last digit of any other unit makes it a character.
LEMMA OtherUnit ==
  ASSUME NEW x, NEW h, NEW o, NEW w, NEW g \in BOOLEAN, NEW c \in Characters, IsHex(c),
         NEW v, v = Shifted(x, c), v \notin high_surrogates, v \notin low_surrogates
  PROVE  LET d == Reader("hex4", x, h, o, w, g)
         IN  DecodeChar(d, c) = Reader(Normal, 0, 0, Append(OutOf(d), v), w, UnitsOk(d))
<1> DEFINE d == Reader("hex4", x, h, o, w, g)
           z == Append(OutOf(d), v)
           k == UnitsOk(d)
<1>1. t16_32(Reader("hex4", x, h, o, w, g), v) = Reader("hex4", x, 0, z, w, k)
  BY OtherRead
<1> HIDE DEF z, k
<1>2. DecodeChar(Reader("hex4", x, h, o, w, g), c) = Reader(Normal, 0, 0, z, w, k)
  BY <1>1, LastDigit
<1> QED  BY <1>2 DEF z, k

\* A hexadecimal digit has four bits, a unit sixteen.
LEMMA Sixteen ==
  /\ \A c \in Characters : IsHex(c) => Digit(c) \in 0 .. 15
  /\ \A n \in Nat : n % 2 ^ 16 \in CodeUnit
  /\ \A n \in CodeUnit : n % 2 ^ 16 = n
  /\ 0 \in CodeUnit /\ CodeUnit \subseteq Nat
<1>1. \A c \in Characters : IsHex(c) => Digit(c) \in 0 .. 15
  BY DEF Characters, IsHex, Digit
<1>2. 2 ^ 16 = 65536
  OBVIOUS
<1>3. \A n \in CodeUnit : n % 65536 = n
  BY DEF CodeUnit
<1>4. \A n \in Nat : n % 65536 \in CodeUnit
  BY DEF CodeUnit
<1>5. 0 \in CodeUnit /\ CodeUnit \subseteq Nat
  BY DEF CodeUnit
<1> QED  BY <1>1, <1>2, <1>3, <1>4, <1>5

\* What is written at the end of a text is a sequence of code points.
LEMMA Longer ==
  ASSUME NEW d \in Readers, NEW c \in Nat
  PROVE  Append(OutOf(d), c) \in Seq(Nat) /\ Append(d.out, c) \in Seq(Nat)
<1>1. OutOf(d) \in Seq(Nat) /\ d.out \in Seq(Nat)
  BY ReaderIs
<1> HIDE DEF OutOf
<1> QED  BY <1>1, AppendProperties

\* The states, the units and what a decoder waits for.
LEMMA InReaders ==
  /\ Normal \in States /\ "escape" \in States /\ "hex1" \in States
  /\ "hex2" \in States /\ "hex3" \in States /\ "hex4" \in States
  /\ \A s \in DOMAIN Hex \ {"hex4"} : Hex[s] \in States
  /\ 0 \in Waiting /\ high_surrogates \subseteq Waiting /\ 0 \notin high_surrogates
  /\ \A h \in Waiting : h # 0 => h \in high_surrogates
<1>1. 0 \notin high_surrogates
  BY DEF high_surrogates
<1> QED  BY <1>1, StatesAre DEF States, Waiting

\* Nothing of what has been read is changed.
Kept(d, e) ==
  /\ e.high = d.high /\ e.out = d.out
  /\ e.well_formed = d.well_formed /\ e.units_good = d.units_good

\* Then what has been read means the same.
LEMMA KeptMeans ==
  ASSUME NEW d, NEW e, Kept(d, e)
  PROVE  OutOf(e) = OutOf(d) /\ Ok(e) = Ok(d) /\ UnitsOk(e) = UnitsOk(d)
BY DEF Kept, OutOf, Ok, UnitsOk

\* What is read when no surrogate waits.
LEMMA NothingWaits ==
  ASSUME NEW s, NEW x, NEW o, NEW w, NEW g
  PROVE  LET d == Reader(s, x, 0, o, w, g)
         IN  OutOf(d) = o /\ (Ok(d) <=> w /\ g)
<1> DEFINE d == Reader(s, x, 0, o, w, g)
<1>1. d.high = 0 /\ d.out = o /\ d.well_formed = w /\ d.units_good = g
  BY MembersAre
<1> HIDE DEF d
<1>2. OutOf(d) = o /\ (Ok(d) <=> w /\ g)
  BY <1>1 DEF OutOf, Ok, UnitsOk
<1> QED  BY <1>2 DEF d

\* A surrogate that waits would be replaced if the text ended, and text that ends so is
\* not well formed.
LEMMA HighWaits ==
  ASSUME NEW s, NEW x, NEW h, h # 0, NEW o, NEW w, NEW g
  PROVE  LET d == Reader(s, x, h, o, w, g)
         IN  OutOf(d) = Append(o, replacement_char) /\ ~Ok(d)
<1> DEFINE d == Reader(s, x, h, o, w, g)
<1>1. d.high = h /\ d.out = o
  BY MembersAre
<1> HIDE DEF d
<1>2. OutOf(d) = Append(o, replacement_char) /\ ~Ok(d)
  BY <1>1 DEF OutOf, Ok, UnitsOk
<1> QED  BY <1>2 DEF d

\* A backslash starts an escape.
LEMMA BackslashRead ==
  ASSUME NEW d \in Readers, NEW c \in Characters, d.state = Normal, c = backslash
  PROVE  LET e == DecodeChar(d, c)
         IN  e \in Readers /\ e.state = "escape" /\ Kept(d, e)
<1> DEFINE s == d.state
           x == d.hex
           h == d.high
           o == d.out
           w == d.well_formed
           g == d.units_good
           e == DecodeChar(d, c)
           p == OutOf(d)
           k == UnitsOk(d)
<1>1. /\ d = Reader(s, x, h, o, w, g)
      /\ s \in States /\ x \in CodeUnit /\ h \in Waiting /\ o \in Seq(Nat)
      /\ w \in BOOLEAN /\ g \in BOOLEAN /\ p \in Seq(Nat)
  BY ReaderIs
<1>2. k \in BOOLEAN /\ (Ok(d) <=> w /\ k)
  BY <1>1 DEF UnitsOk, Ok
<1>3. s = Normal
  OBVIOUS
<1> HIDE DEF s, x, h, o, w, g, e, p, k
<1>4. e = Reader("escape", x, h, o, w, g)
  BY <1>1, <1>3, NormalRead DEF e
<1>5. e \in Readers
  BY <1>1, <1>4, ReaderType, InReaders
<1>6. /\ e.state = "escape" /\ e.high = h /\ e.out = o
      /\ e.well_formed = w /\ e.units_good = g
  BY <1>4, MembersAre
<1> QED  BY <1>5, <1>6 DEF Kept, h, o, w, g, e

\* Any other character stands for itself.
LEMMA CharacterRead ==
  ASSUME NEW d \in Readers, NEW c \in Characters, d.state = Normal, c # backslash
  PROVE  LET e == DecodeChar(d, c)
         IN  /\ e \in Readers /\ e.state = Normal /\ e.high = 0
             /\ OutOf(e) = Append(OutOf(d), c) /\ (Ok(e) <=> Ok(d))
<1> DEFINE s == d.state
           x == d.hex
           h == d.high
           o == d.out
           w == d.well_formed
           g == d.units_good
           e == DecodeChar(d, c)
           p == OutOf(d)
           k == UnitsOk(d)
<1>1. /\ d = Reader(s, x, h, o, w, g)
      /\ s \in States /\ x \in CodeUnit /\ h \in Waiting /\ o \in Seq(Nat)
      /\ w \in BOOLEAN /\ g \in BOOLEAN /\ p \in Seq(Nat)
  BY ReaderIs
<1>2. k \in BOOLEAN /\ (Ok(d) <=> w /\ k)
  BY <1>1 DEF UnitsOk, Ok
<1>3. s = Normal
  OBVIOUS
<1> DEFINE z == Append(p, c)
<1>4. z \in Seq(Nat)
  BY Longer DEF Characters
<1> HIDE DEF s, x, h, o, w, g, e, p, k
<1>5. e = Reader(Normal, x, 0, z, w, k)
  BY <1>1, <1>3, NormalRead DEF e, p, k
<1> HIDE DEF z
<1>6. e \in Readers
  BY <1>1, <1>2, <1>4, <1>5, ReaderType, InReaders
<1>7. e.state = Normal /\ e.high = 0
  BY <1>5, MembersAre
<1>8. OutOf(e) = z /\ (Ok(e) <=> w /\ k)
  BY <1>5, NothingWaits
<1> QED  BY <1>2, <1>6, <1>7, <1>8 DEF z, e, p

\* The letter after a backslash stands for a character, in well formed text only if
\* it is one of the escapes.
LEMMA LetterRead ==
  ASSUME NEW d \in Readers, NEW c \in Characters, d.state = "escape", c # letter_u
  PROVE  LET e == DecodeChar(d, c)
         IN  /\ e \in Readers /\ e.state = Normal /\ e.high = 0
             /\ OutOf(e) = Append(OutOf(d), Control(c))
             /\ Ok(e) <=> Ok(d) /\ IsEscape(c)
<1> DEFINE s == d.state
           x == d.hex
           h == d.high
           o == d.out
           w == d.well_formed
           g == d.units_good
           e == DecodeChar(d, c)
           p == OutOf(d)
           k == UnitsOk(d)
<1>1. /\ d = Reader(s, x, h, o, w, g)
      /\ s \in States /\ x \in CodeUnit /\ h \in Waiting /\ o \in Seq(Nat)
      /\ w \in BOOLEAN /\ g \in BOOLEAN /\ p \in Seq(Nat)
  BY ReaderIs
<1>2. k \in BOOLEAN /\ (Ok(d) <=> w /\ k)
  BY <1>1 DEF UnitsOk, Ok
<1>3. s = "escape"
  OBVIOUS
<1> DEFINE z == Append(p, Control(c))
<1>4. z \in Seq(Nat)
  <2>1. Control(c) \in Nat
    BY DEF Control, Characters
  <2> QED  BY <2>1, Longer
<1> HIDE DEF s, x, h, o, w, g, e, p, k
<1>5. PICK m \in BOOLEAN : (m <=> w /\ IsEscape(c)) /\ e = Reader(Normal, x, 0, z, m, k)
  BY <1>1, <1>3, EscapeRead DEF e, p, k
<1> HIDE DEF z
<1>6. e \in Readers
  BY <1>1, <1>2, <1>4, <1>5, ReaderType, InReaders
<1>7. e.state = Normal /\ e.high = 0
  BY <1>5, MembersAre
<1>8. OutOf(e) = z /\ (Ok(e) <=> m /\ k)
  BY <1>5, NothingWaits
<1> QED  BY <1>2, <1>5, <1>6, <1>7, <1>8 DEF z, e, p

\* The letter u starts a code unit.
LEMMA UnitStarts ==
  ASSUME NEW d \in Readers, NEW c \in Characters, d.state = "escape", c = letter_u
  PROVE  LET e == DecodeChar(d, c)
         IN  e \in Readers /\ e.state = "hex1" /\ e.hex = 0 /\ Kept(d, e)
<1> DEFINE s == d.state
           x == d.hex
           h == d.high
           o == d.out
           w == d.well_formed
           g == d.units_good
           e == DecodeChar(d, c)
           p == OutOf(d)
           k == UnitsOk(d)
<1>1. /\ d = Reader(s, x, h, o, w, g)
      /\ s \in States /\ x \in CodeUnit /\ h \in Waiting /\ o \in Seq(Nat)
      /\ w \in BOOLEAN /\ g \in BOOLEAN /\ p \in Seq(Nat)
  BY ReaderIs
<1>2. k \in BOOLEAN /\ (Ok(d) <=> w /\ k)
  BY <1>1 DEF UnitsOk, Ok
<1>3. s = "escape"
  OBVIOUS
<1> HIDE DEF s, x, h, o, w, g, e, p, k
<1>4. e = Reader("hex1", 0, h, o, w, g)
  BY <1>1, <1>3, EscapeRead DEF e
<1>5. e \in Readers
  BY <1>1, <1>4, ReaderType, InReaders, Sixteen
<1>6. /\ e.state = "hex1" /\ e.hex = 0 /\ e.high = h /\ e.out = o
      /\ e.well_formed = w /\ e.units_good = g
  BY <1>4, MembersAre
<1> QED  BY <1>5, <1>6 DEF Kept, h, o, w, g, e

\* A digit but the last one is shifted in.
LEMMA DigitTaken ==
  ASSUME NEW d \in Readers, NEW c \in Characters, IsHex(c),
         d.state \in DOMAIN Hex, d.state # "hex4"
  PROVE  LET e == DecodeChar(d, c)
         IN  /\ e \in Readers /\ e.state = Hex[d.state] /\ e.hex = Shifted(d.hex, c)
             /\ Kept(d, e)
<1> DEFINE s == d.state
           x == d.hex
           h == d.high
           o == d.out
           w == d.well_formed
           g == d.units_good
           e == DecodeChar(d, c)
           p == OutOf(d)
           k == UnitsOk(d)
<1>1. /\ d = Reader(s, x, h, o, w, g)
      /\ s \in States /\ x \in CodeUnit /\ h \in Waiting /\ o \in Seq(Nat)
      /\ w \in BOOLEAN /\ g \in BOOLEAN /\ p \in Seq(Nat)
  BY ReaderIs
<1>2. k \in BOOLEAN /\ (Ok(d) <=> w /\ k)
  BY <1>1 DEF UnitsOk, Ok
<1> DEFINE v == Shifted(x, c)
           t == Hex[s]
<1>3. s \in DOMAIN Hex /\ s # "hex4" /\ t \in States
  BY InReaders
<1>4. v \in CodeUnit
  <2>1. x \in Nat /\ Digit(c) \in 0 .. 15
    BY <1>1, Sixteen
  <2>2. 16 * x + Digit(c) \in Nat
    BY <2>1
  <2> QED  BY <2>2, Sixteen DEF Shifted
<1> HIDE DEF s, x, h, o, w, g, e, p, k
<1>5. e = Reader(t, v, h, o, w, g)
  BY <1>1, <1>3, HexRead DEF e
<1> HIDE DEF t, v
<1>6. e \in Readers
  BY <1>1, <1>3, <1>4, <1>5, ReaderType
<1>7. /\ e.state = t /\ e.hex = v /\ e.high = h /\ e.out = o
      /\ e.well_formed = w /\ e.units_good = g
  BY <1>5, MembersAre
<1> QED  BY <1>6, <1>7 DEF Kept, h, o, w, g, e, t, v, s, x

\* A character where a digit should be ends the escape.
LEMMA UnitBroken ==
  ASSUME NEW d \in Readers, NEW c \in Characters, ~IsHex(c), d.state \in DOMAIN Hex
  PROVE  LET e == DecodeChar(d, c)
         IN  /\ e \in Readers /\ e.state = Normal /\ e.high = d.high
             /\ OutOf(e) = OutOf(d) /\ ~Ok(e)
<1> DEFINE s == d.state
           x == d.hex
           h == d.high
           o == d.out
           w == d.well_formed
           g == d.units_good
           e == DecodeChar(d, c)
           p == OutOf(d)
           k == UnitsOk(d)
<1>1. /\ d = Reader(s, x, h, o, w, g)
      /\ s \in States /\ x \in CodeUnit /\ h \in Waiting /\ o \in Seq(Nat)
      /\ w \in BOOLEAN /\ g \in BOOLEAN /\ p \in Seq(Nat)
  BY ReaderIs
<1>2. k \in BOOLEAN /\ (Ok(d) <=> w /\ k)
  BY <1>1 DEF UnitsOk, Ok
<1>3. s \in DOMAIN Hex
  OBVIOUS
<1> HIDE DEF s, x, h, o, w, g, e, p, k
<1>5. PICK no \in BOOLEAN : ~no /\ e = Reader(Normal, 0, h, o, no, g)
  BY <1>1, <1>3, NotHexRead DEF e
<1>4. ~no /\ e = Reader(Normal, 0, h, o, no, g)
  BY <1>5
<1>6. e \in Readers
  BY <1>1, <1>4, <1>5, ReaderType, InReaders, Sixteen
<1>7. e.state = Normal /\ e.high = h /\ e.out = o /\ ~e.well_formed
  BY <1>4, <1>5, MembersAre
<1> QED  BY <1>6, <1>7 DEF OutOf, Ok, h, o, e

\* The unit that the last digit completes, if it is the low surrogate for the one that
\* waits.
LEMMA PairTaken ==
  ASSUME NEW d \in Readers, NEW c \in Characters, IsHex(c), d.state = "hex4",
         NEW u, u = Shifted(d.hex, c), u \in low_surrogates, d.high # 0
  PROVE  LET e == DecodeChar(d, c)
         IN  /\ e \in Readers /\ e.state = Normal /\ e.high = 0
             /\ OutOf(e) = Append(d.out, PairOf(d.high, u))
             /\ Ok(e) <=> d.well_formed /\ d.units_good
<1> DEFINE s == d.state
           x == d.hex
           h == d.high
           o == d.out
           w == d.well_formed
           g == d.units_good
           e == DecodeChar(d, c)
           p == OutOf(d)
           k == UnitsOk(d)
<1>1. /\ d = Reader(s, x, h, o, w, g)
      /\ s \in States /\ x \in CodeUnit /\ h \in Waiting /\ o \in Seq(Nat)
      /\ w \in BOOLEAN /\ g \in BOOLEAN /\ p \in Seq(Nat)
  BY ReaderIs
<1>2. k \in BOOLEAN /\ (Ok(d) <=> w /\ k)
  BY <1>1 DEF UnitsOk, Ok
<1>3. s = "hex4" /\ u = Shifted(x, c)
  OBVIOUS
<1>4. u \in CodeUnit /\ u \in Nat
  <2>1. x \in Nat /\ Digit(c) \in 0 .. 15
    BY <1>1, Sixteen
  <2>2. 16 * x + Digit(c) \in Nat
    BY <2>1
  <2> QED  BY <1>3, <2>2, Sixteen DEF Shifted
<1> DEFINE z == Append(o, PairOf(h, u))
<1>5. z \in Seq(Nat)
  <2>1. h \in high_surrogates
    BY <1>1, InReaders
  <2>2. h \in Nat /\ h >= 55296
    BY <2>1 DEF high_surrogates
  <2>3. u \in Nat /\ u >= 56320
    BY DEF low_surrogates
  <2>4. PairOf(h, u) \in Nat
    BY <2>2, <2>3 DEF PairOf
  <2> QED  BY <2>4, Longer
<1>6. h # 0
  OBVIOUS
<1> HIDE DEF s, x, h, o, w, g, e, p, k
<1>7. e = Reader(Normal, 0, 0, z, w, g)
  BY <1>1, <1>3, <1>6, PairUnit DEF e
<1> HIDE DEF z
<1>8. e \in Readers
  BY <1>1, <1>5, <1>7, ReaderType, InReaders, Sixteen
<1>9. e.state = Normal /\ e.high = 0
  BY <1>7, MembersAre
<1>10. OutOf(e) = z /\ (Ok(e) <=> w /\ g)
  BY <1>7, NothingWaits
<1> QED  BY <1>8, <1>9, <1>10 DEF z, e, o, h, w, g

\* A low surrogate for which none waits is replaced.
LEMMA LowTaken ==
  ASSUME NEW d \in Readers, NEW c \in Characters, IsHex(c), d.state = "hex4",
         NEW u, u = Shifted(d.hex, c), u \in low_surrogates, d.high = 0
  PROVE  LET e == DecodeChar(d, c)
         IN  /\ e \in Readers /\ e.state = Normal /\ e.high = 0
             /\ OutOf(e) = Append(OutOf(d), replacement_char) /\ ~Ok(e)
<1> DEFINE s == d.state
           x == d.hex
           h == d.high
           o == d.out
           w == d.well_formed
           g == d.units_good
           e == DecodeChar(d, c)
           p == OutOf(d)
           k == UnitsOk(d)
<1>1. /\ d = Reader(s, x, h, o, w, g)
      /\ s \in States /\ x \in CodeUnit /\ h \in Waiting /\ o \in Seq(Nat)
      /\ w \in BOOLEAN /\ g \in BOOLEAN /\ p \in Seq(Nat)
  BY ReaderIs
<1>2. k \in BOOLEAN /\ (Ok(d) <=> w /\ k)
  BY <1>1 DEF UnitsOk, Ok
<1>3. s = "hex4" /\ u = Shifted(x, c)
  OBVIOUS
<1>4. u \in CodeUnit /\ u \in Nat
  <2>1. x \in Nat /\ Digit(c) \in 0 .. 15
    BY <1>1, Sixteen
  <2>2. 16 * x + Digit(c) \in Nat
    BY <2>1
  <2> QED  BY <1>3, <2>2, Sixteen DEF Shifted
<1> DEFINE z == Append(o, replacement_char)
<1>5. z \in Seq(Nat)
  BY Longer DEF replacement_char
<1>6. h = 0 /\ p = o
  BY DEF OutOf
<1> HIDE DEF s, x, h, o, w, g, e, p, k
<1>8. PICK no \in BOOLEAN : ~no /\ e = Reader(Normal, 0, 0, z, w, no)
  BY <1>1, <1>3, <1>6, LowUnit DEF e
<1>7. e = Reader(Normal, 0, 0, z, w, no)
  BY <1>8
<1> HIDE DEF z
<1>9. e \in Readers
  BY <1>1, <1>5, <1>7, <1>8, ReaderType, InReaders, Sixteen
<1>10. e.state = Normal /\ e.high = 0
  BY <1>7, MembersAre
<1>11. OutOf(e) = z /\ (Ok(e) <=> w /\ no)
  BY <1>7, NothingWaits
<1> QED  BY <1>6, <1>8, <1>9, <1>10, <1>11 DEF z, e, p

\* A high surrogate waits for its low one, and would be replaced.
LEMMA HighTaken ==
  ASSUME NEW d \in Readers, NEW c \in Characters, IsHex(c), d.state = "hex4",
         NEW u, u = Shifted(d.hex, c), u \in high_surrogates
  PROVE  LET e == DecodeChar(d, c)
         IN  /\ e \in Readers /\ e.state = Normal /\ e.high = u /\ e.high # 0
             /\ e.out = OutOf(d) /\ (e.well_formed /\ e.units_good <=> Ok(d))
             /\ OutOf(e) = Append(OutOf(d), replacement_char) /\ ~Ok(e)
<1> DEFINE s == d.state
           x == d.hex
           h == d.high
           o == d.out
           w == d.well_formed
           g == d.units_good
           e == DecodeChar(d, c)
           p == OutOf(d)
           k == UnitsOk(d)
<1>1. /\ d = Reader(s, x, h, o, w, g)
      /\ s \in States /\ x \in CodeUnit /\ h \in Waiting /\ o \in Seq(Nat)
      /\ w \in BOOLEAN /\ g \in BOOLEAN /\ p \in Seq(Nat)
  BY ReaderIs
<1>2. k \in BOOLEAN /\ (Ok(d) <=> w /\ k)
  BY <1>1 DEF UnitsOk, Ok
<1>3. s = "hex4" /\ u = Shifted(x, c)
  OBVIOUS
<1>4. u \in CodeUnit /\ u \in Nat
  <2>1. x \in Nat /\ Digit(c) \in 0 .. 15
    BY <1>1, Sixteen
  <2>2. 16 * x + Digit(c) \in Nat
    BY <2>1
  <2> QED  BY <1>3, <2>2, Sixteen DEF Shifted
<1>5. u # 0 /\ u \in Waiting
  BY InReaders
<1> HIDE DEF s, x, h, o, w, g, e, p, k
<1>6. e = Reader(Normal, 0, u, p, w, k)
  BY <1>1, <1>3, HighUnit DEF e, p, k
<1>7. e \in Readers
  BY <1>1, <1>2, <1>5, <1>6, ReaderType, InReaders, Sixteen
<1>8. e.state = Normal /\ e.high = u /\ e.out = p /\ e.well_formed = w /\ e.units_good = k
  BY <1>6, MembersAre
<1>9. OutOf(e) = Append(p, replacement_char) /\ ~Ok(e)
  BY <1>5, <1>6, HighWaits
<1> QED  BY <1>2, <1>5, <1>7, <1>8, <1>9 DEF e, p

\* Any other unit is a character.
LEMMA OtherTaken ==
  ASSUME NEW d \in Readers, NEW c \in Characters, IsHex(c), d.state = "hex4",
         NEW u, u = Shifted(d.hex, c), u \notin high_surrogates,
         u \notin low_surrogates
  PROVE  LET e == DecodeChar(d, c)
         IN  /\ e \in Readers /\ e.state = Normal /\ e.high = 0
             /\ OutOf(e) = Append(OutOf(d), u) /\ (Ok(e) <=> Ok(d))
<1> DEFINE s == d.state
           x == d.hex
           h == d.high
           o == d.out
           w == d.well_formed
           g == d.units_good
           e == DecodeChar(d, c)
           p == OutOf(d)
           k == UnitsOk(d)
<1>1. /\ d = Reader(s, x, h, o, w, g)
      /\ s \in States /\ x \in CodeUnit /\ h \in Waiting /\ o \in Seq(Nat)
      /\ w \in BOOLEAN /\ g \in BOOLEAN /\ p \in Seq(Nat)
  BY ReaderIs
<1>2. k \in BOOLEAN /\ (Ok(d) <=> w /\ k)
  BY <1>1 DEF UnitsOk, Ok
<1>3. s = "hex4" /\ u = Shifted(x, c)
  OBVIOUS
<1>4. u \in CodeUnit /\ u \in Nat
  <2>1. x \in Nat /\ Digit(c) \in 0 .. 15
    BY <1>1, Sixteen
  <2>2. 16 * x + Digit(c) \in Nat
    BY <2>1
  <2> QED  BY <1>3, <2>2, Sixteen DEF Shifted
<1> DEFINE z == Append(p, u)
<1>5. z \in Seq(Nat)
  BY <1>4, Longer
<1> HIDE DEF s, x, h, o, w, g, e, p, k
<1>6. e = Reader(Normal, 0, 0, z, w, k)
  BY <1>1, <1>3, OtherUnit DEF e, p, k
<1> HIDE DEF z
<1>7. e \in Readers
  BY <1>1, <1>2, <1>5, <1>6, ReaderType, InReaders, Sixteen
<1>8. e.state = Normal /\ e.high = 0
  BY <1>6, MembersAre
<1>9. OutOf(e) = z /\ (Ok(e) <=> w /\ k)
  BY <1>6, NothingWaits
<1> QED  BY <1>2, <1>7, <1>8, <1>9 DEF z, e, p

\* Each character leads a decoder from one of its states to another one.
LEMMA DecodeCharType ==
  ASSUME NEW d \in Readers, NEW c \in Characters
  PROVE  DecodeChar(d, c) \in Readers
<1>1. d.state = Normal \/ d.state = "escape" \/ d.state \in DOMAIN Hex
  BY ReaderIs DEF States
<1>2. CASE d.state = Normal
  BY <1>2, BackslashRead, CharacterRead
<1>3. CASE d.state = "escape"
  BY <1>3, UnitStarts, LetterRead
<1>4. CASE d.state \in DOMAIN Hex
  <2>1. CASE ~IsHex(c)
    BY <1>4, <2>1, UnitBroken
  <2>2. CASE IsHex(c) /\ d.state # "hex4"
    BY <1>4, <2>2, DigitTaken
  <2>3. CASE IsHex(c) /\ d.state = "hex4"
    <3> DEFINE u == Shifted(d.hex, c)
    <3>1. u = Shifted(d.hex, c)
      OBVIOUS
    <3> HIDE DEF u
    <3>2. CASE u \in low_surrogates /\ d.high # 0
      BY <2>3, <3>1, <3>2, PairTaken
    <3>3. CASE u \in low_surrogates /\ d.high = 0
      BY <2>3, <3>1, <3>3, LowTaken
    <3>4. CASE u \in high_surrogates
      BY <2>3, <3>1, <3>4, HighTaken
    <3>5. CASE u \notin high_surrogates /\ u \notin low_surrogates
      BY <2>3, <3>1, <3>5, OtherTaken
    <3> QED  BY <3>2, <3>3, <3>4, <3>5
  <2> QED  BY <2>1, <2>2, <2>3
<1> QED  BY <1>1, <1>2, <1>3, <1>4

\* A decoder is in one of its states at first.
LEMMA NewTextType ==
  NewText \in Readers
<1>1. NewText = Reader(Normal, 0, 0, <<>>, TRUE, TRUE)
  BY DEF NewText, Reader
<1>2. Normal \in States /\ 0 \in CodeUnit /\ 0 \in Waiting /\ <<>> \in Seq(Nat)
  BY Sixteen DEF States, Waiting
<1> QED  BY <1>1, <1>2, ReaderType

\* DecodeAll takes the decoder of text from state to state.
Spelling(s, h) ==
  /\ h \in [0 .. Len(s) -> Readers]
  /\ h[0] = NewText
  /\ \A i \in 1 .. Len(s) : h[i] = DecodeChar(h[i - 1], s[i])

\* DecodeAll does so, character by character.
LEMMA SpellingSteps ==
  ASSUME NEW s \in Seq(Characters)
  PROVE  \E h : Spelling(s, h) /\ DecodeAll(s) = h[Len(s)]
<1> DEFINE n == Len(s)
           f == [i \in 1 .. n |-> [x \in Readers |-> DecodeChar(x, s[i])]]
           Rec(h) == h = [i \in 0 .. n |-> IF i = 0 THEN NewText ELSE DecodeChar(h[i - 1], s[i])]
<1>1. n \in Nat /\ \A i \in 1 .. n : s[i] \in Characters
  BY LenProperties, ElementOfSeq
<1>2. \A i \in 1 .. n, x \in Readers : DecodeChar(x, s[i]) \in Readers
  BY <1>1, DecodeCharType
<1>3. PICK h : h = (CHOOSE q : Rec(q)) /\ DecodeAll(s) = h[n]
  BY DEF DecodeAll
<1>4. f \in Steps(Readers, n) /\ \A i \in 1 .. n, x \in Readers : f[i][x] = DecodeChar(x, s[i])
  BY <1>1, <1>2 DEF Steps
<1> HIDE DEF n, f
<1>5. PICK g : Path(Readers, n, NewText, f, g)
  BY <1>1, <1>4, NewTextType, PathExists
<1>6. /\ g \in [0 .. n -> Readers] /\ g[0] = NewText
      /\ \A i \in 1 .. n : g[i] = DecodeChar(g[i - 1], s[i])
  <2>1. g \in [0 .. n -> Readers] /\ g[0] = NewText /\ \A i \in 1 .. n : g[i] = f[i][g[i - 1]]
    BY <1>5 DEF Path
  <2>2. \A i \in 1 .. n : i - 1 \in 0 .. n
    BY <1>1
  <2>3. \A i \in 1 .. n : g[i - 1] \in Readers
    BY <2>1, <2>2
  <2> QED  BY <1>4, <2>1, <2>3
<1>7. Rec(g)
  <2> DEFINE G == [i \in 0 .. n |-> IF i = 0 THEN NewText ELSE DecodeChar(g[i - 1], s[i])]
  <2>1. \A i \in 0 .. n : g[i] = G[i]
    BY <1>1, <1>6
  <2>2. g = [i \in 0 .. n |-> g[i]]
    BY <1>6
  <2> QED  BY <2>1, <2>2
<1>8. Rec(h)
  <2> HIDE DEF Rec
  <2> QED  BY <1>3, <1>7
<1>9. h[0] = NewText /\ \A i \in 1 .. n : h[i] = DecodeChar(h[i - 1], s[i])
  <2>1. h = [i \in 0 .. n |-> IF i = 0 THEN NewText ELSE DecodeChar(h[i - 1], s[i])]
    BY <1>8
  <2> HIDE DEF Rec
  <2> QED  BY <1>1, <2>1
<1> HIDE DEF Rec
<1>10. \A i \in 0 .. n : h[i] = g[i]
  <2>1. \A i \in 1 .. n : h[i - 1] \in Readers => h[i] = f[i][h[i - 1]]
    BY <1>4, <1>9
  <2>2. n \in Nat /\ Path(Readers, n, h[0], f, g)
    BY <1>1, <1>5, <1>9
  <2>3. Follows(Readers, n, f, h)
    BY <2>1 DEF Follows
  <2> QED  BY <2>2, <2>3, OnePath
<1>11. h[n] = g[n]
  BY <1>1, <1>10
<1> QED  BY <1>3, <1>6, <1>11 DEF n, Spelling

\* DecodeAll reads one character after the other.
LEMMA ReadNext ==
  ASSUME NEW s \in Seq(Characters), NEW c \in Characters
  PROVE  /\ DecodeAll(s) \in Readers
         /\ DecodeAll(Append(s, c)) = DecodeChar(DecodeAll(s), c)
<1> DEFINE n == Len(s)
           t == Append(s, c)
<1>1. /\ t \in Seq(Characters) /\ n \in Nat /\ Len(t) = n + 1
      /\ (\A i \in 1 .. n : t[i] = s[i]) /\ t[n + 1] = c
  BY AppendProperties, LenProperties
<1> HIDE DEF t
<1>2. PICK h : Spelling(s, h) /\ DecodeAll(s) = h[n]
  BY SpellingSteps
<1>3. PICK k : Spelling(t, k) /\ DecodeAll(t) = k[n + 1]
  BY <1>1, SpellingSteps
<1>4. /\ h \in [0 .. n -> Readers] /\ h[0] = NewText
      /\ \A i \in 1 .. n : h[i] = DecodeChar(h[i - 1], s[i])
  BY <1>2 DEF Spelling
<1>5. /\ k[0] = NewText
      /\ \A i \in 1 .. n + 1 : k[i] = DecodeChar(k[i - 1], t[i])
  BY <1>1, <1>3 DEF Spelling
<1> HIDE DEF n
<1> DEFINE T == {i \in Nat : i <= n => k[i] = h[i]}
<1>6. 0 \in T
  BY <1>4, <1>5
<1>7. ASSUME NEW i \in T
      PROVE  i + 1 \in T
  <2>1. i \in Nat /\ (i <= n => k[i] = h[i])
    OBVIOUS
  <2> HIDE DEF T
  <2>2. ASSUME i + 1 <= n
        PROVE  k[i + 1] = h[i + 1]
    <3>1. i + 1 \in 1 .. n /\ i + 1 \in 1 .. n + 1 /\ (i + 1) - 1 = i /\ i <= n
      BY <1>1, <2>1, <2>2
    <3>2. k[i + 1] = DecodeChar(k[i], t[i + 1]) /\ h[i + 1] = DecodeChar(h[i], s[i + 1])
      BY <1>4, <1>5, <3>1
    <3>3. k[i] = h[i] /\ t[i + 1] = s[i + 1]
      BY <1>1, <2>1, <3>1
    <3> QED  BY <3>2, <3>3
  <2>3. i + 1 \in Nat
    BY <2>1
  <2> QED  BY <2>2, <2>3 DEF T
<1>8. k[n] = h[n]
  <2>1. T \in SUBSET Nat
    OBVIOUS
  <2>2. T = Nat
    <3> HIDE DEF T
    <3> QED  BY <1>6, <1>7, <2>1, AllNumbers
  <2>3. n \in T
    BY <1>1, <2>2
  <2> QED  BY <1>1, <2>3
<1>9. k[n + 1] = DecodeChar(k[n], c)
  <2>1. n + 1 \in 1 .. n + 1 /\ (n + 1) - 1 = n
    BY <1>1
  <2> QED  BY <1>1, <1>5, <2>1
<1>10. h[n] \in Readers
  <2>1. n \in 0 .. n
    BY <1>1
  <2> QED  BY <1>4, <2>1
<1> HIDE DEF T
<1> QED  BY <1>2, <1>3, <1>8, <1>9, <1>10 DEF t

\* Nothing has been read of an empty text.
LEMMA NothingRead ==
  /\ DecodeAll(<<>>) = NewText /\ NewText \in Readers
  /\ NewText.state = Normal /\ NewText.high = 0 /\ OutOf(NewText) = <<>> /\ Ok(NewText)
<1>1. <<>> \in Seq(Characters) /\ Len(<<>>) = 0
  OBVIOUS
<1>2. PICK h : Spelling(<<>>, h) /\ DecodeAll(<<>>) = h[Len(<<>>)]
  BY <1>1, SpellingSteps
<1>3. DecodeAll(<<>>) = NewText
  BY <1>1, <1>2 DEF Spelling
<1>4. /\ NewText.state = Normal /\ NewText.high = 0 /\ NewText.out = <<>>
      /\ NewText.well_formed /\ NewText.units_good
  BY DEF NewText
<1>5. OutOf(NewText) = <<>> /\ Ok(NewText)
  BY <1>4 DEF OutOf, Ok, UnitsOk
<1> QED  BY <1>3, <1>4, <1>5, NewTextType

\* What has been read after the first characters of a further text.
ReadTo(s, t, j) == DecodeAll(s \o SubSeq(t, 1, j))

\* The further text is read one character after the other.
LEMMA PrefixRead ==
  ASSUME NEW s \in Seq(Characters), NEW t \in Seq(Characters)
  PROVE  /\ ReadTo(s, t, 0) = DecodeAll(s)
         /\ \A j \in 0 .. Len(t) : s \o SubSeq(t, 1, j) \in Seq(Characters)
         /\ \A j \in 1 .. Len(t) : ReadTo(s, t, j) = DecodeChar(ReadTo(s, t, j - 1), t[j])
         /\ ReadTo(s, t, Len(t)) = DecodeAll(s \o t)
<1>1. Len(t) \in Nat /\ t \in [1 .. Len(t) -> Characters]
  BY LenProperties
<1>2. ReadTo(s, t, 0) = DecodeAll(s)
  <2>1. SubSeq(t, 1, 0) = <<>>
    BY SubSeqEmpty
  <2>2. s \o <<>> = s
    BY ConcatEmptySeq
  <2> QED  BY <2>1, <2>2 DEF ReadTo
<1>3. \A j \in 0 .. Len(t) : SubSeq(t, 1, j) \in Seq(Characters)
  <2> TAKE j \in 0 .. Len(t)
  <2>1. \A i \in 1 .. j : t[i] \in Characters
    BY <1>1
  <2>2. j \in Int /\ 1 \in Int
    BY <1>1
  <2> QED  BY <2>1, <2>2, SubSeqProperties
<1>4. \A j \in 0 .. Len(t) : s \o SubSeq(t, 1, j) \in Seq(Characters)
  BY <1>3, Concat
<1>5. ASSUME NEW j \in 1 .. Len(t)
      PROVE  ReadTo(s, t, j) = DecodeChar(ReadTo(s, t, j - 1), t[j])
  <2> DEFINE p == SubSeq(t, 1, j - 1)
             q == s \o p
  <2>1. p \in Seq(Characters) /\ t[j] \in Characters /\ q \in Seq(Characters)
    <3>1. j - 1 \in 0 .. Len(t)
      BY <1>1
    <3> QED  BY <1>1, <1>3, <1>4, <3>1
  <2>2. SubSeq(t, 1, j) = p \o <<t[j]>>
    <3>1. 1 \in 1 .. Len(t) /\ j \in 1 .. Len(t)
      BY <1>1
    <3> QED  BY <3>1, SubSeqRecursiveSecond
  <2> DEFINE a == t[j]
  <2>3. a \in Characters
    BY <2>1
  <2>4. SubSeq(t, 1, j) = p \o <<a>>
    BY <2>2
  <2>5. ReadTo(s, t, j) = DecodeAll(s \o SubSeq(t, 1, j))
        /\ ReadTo(s, t, j - 1) = DecodeAll(s \o p)
    BY DEF ReadTo
  <2> HIDE DEF p, a
  <2>6. <<a>> \in Seq(Characters)
    BY <2>3
  <2>7. s \o (p \o <<a>>) = q \o <<a>>
    BY <2>1, <2>6, ConcatAssociative
  <2>8. q \o <<a>> = Append(q, a)
    BY <2>1, <2>3, AppendIsConcat
  <2>9. DecodeAll(Append(q, a)) = DecodeChar(DecodeAll(q), a)
    BY <2>1, <2>3, ReadNext
  <2>10. ReadTo(s, t, j) = DecodeChar(DecodeAll(q), a)
    BY <2>4, <2>5, <2>7, <2>8, <2>9
  <2> HIDE DEF q
  <2> QED  BY <2>5, <2>10 DEF q, a
<1>6. SubSeq(t, 1, Len(t)) = t
  BY SubSeqFull
<1> QED  BY <1>2, <1>4, <1>5, <1>6 DEF ReadTo

\* The characters of a digit are those that are read as its value.
LEMMA HexCharRead ==
  ASSUME NEW v \in 0 .. 15, NEW small \in BOOLEAN
  PROVE  /\ HexChar(v, small) \in Characters /\ IsHex(HexChar(v, small))
         /\ Digit(HexChar(v, small)) = v
BY DEF HexChar, Characters, IsHex, Digit

\* The characters of a unit.
LEMMA UnitChars ==
  ASSUME NEW u \in CodeUnits
  PROVE  LET t == CharsOfUnit(u)
         IN  /\ t \in Seq(Characters) /\ Len(t) = 6 /\ t[1] = backslash /\ t[2] = letter_u
             /\ \A i \in 1 .. 4 : IsHex(t[i + 2]) /\ Digit(t[i + 2]) = u.digits[i]
             /\ \A i \in 1 .. 4 : u.digits[i] \in 0 .. 15
<1> DEFINE f == [i \in 1 .. 4 |-> HexChar(u.digits[i], i \in u.small)]
           b == <<backslash, letter_u>>
<1>1. u.digits \in [1 .. 4 -> 0 .. 15]
  BY DEF CodeUnits
<1>2. \A i \in 1 .. 4 : /\ u.digits[i] \in 0 .. 15 /\ f[i] \in Characters /\ IsHex(f[i])
                        /\ Digit(f[i]) = u.digits[i]
  <2> TAKE i \in 1 .. 4
  <2>1. u.digits[i] \in 0 .. 15
    BY <1>1
  <2>2. f[i] = HexChar(u.digits[i], i \in u.small) /\ (i \in u.small) \in BOOLEAN
    OBVIOUS
  <2> QED  BY <2>1, <2>2, HexCharRead
<1>3. f \in Seq(Characters) /\ Len(f) = 4
  <2>1. f = [i \in 1 .. 4 |-> f[i]] /\ 4 \in Nat
    OBVIOUS
  <2> HIDE DEF f
  <2>2. [i \in 1 .. 4 |-> f[i]] \in Seq(Characters)
    BY <1>2, <2>1, IsASeq
  <2>3. Len([i \in 1 .. 4 |-> f[i]]) = 4
    OBVIOUS
  <2> QED  BY <2>1, <2>2, <2>3
<1>4. b \in Seq(Characters) /\ Len(b) = 2 /\ b[1] = backslash /\ b[2] = letter_u
  BY DEF Characters, backslash, letter_u
<1>5. CharsOfUnit(u) = b \o f
  BY DEF CharsOfUnit
<1> HIDE DEF b, f
<1>6. /\ b \o f \in Seq(Characters) /\ Len(b \o f) = 6
      /\ (b \o f)[1] = backslash /\ (b \o f)[2] = letter_u
      /\ \A i \in 1 .. 4 : (b \o f)[i + 2] = f[i]
  <2>1. /\ b \o f \in Seq(Characters) /\ Len(b \o f) = Len(b) + Len(f)
        /\ \A j \in 1 .. Len(b) : (b \o f)[j] = b[j]
        /\ \A j \in 1 .. Len(f) : (b \o f)[Len(b) + j] = f[j]
    <3>1. b \in Seq(Characters) /\ f \in Seq(Characters)
      BY <1>3, <1>4
    <3> QED  BY <3>1, Concat
  <2>2. \A i \in 1 .. 4 : 2 + i = i + 2
    OBVIOUS
  <2> QED  BY <1>3, <1>4, <2>1, <2>2
<1> QED  BY <1>2, <1>5, <1>6

\* The value that four digits shift in, of sixteen bits.
LEMMA FourDigits ==
  ASSUME NEW u \in CodeUnits, NEW c1, NEW c2, NEW c3, NEW c4,
         Digit(c1) = u.digits[1], Digit(c2) = u.digits[2],
         Digit(c3) = u.digits[3], Digit(c4) = u.digits[4]
  PROVE  /\ Shifted(Shifted(Shifted(Shifted(0, c1), c2), c3), c4) = UnitOf(u)
         /\ UnitOf(u) \in CodeUnit
<1> DEFINE a == u.digits[1]
           b == u.digits[2]
           c == u.digits[3]
           d == u.digits[4]
<1>1. a \in 0 .. 15 /\ b \in 0 .. 15 /\ c \in 0 .. 15 /\ d \in 0 .. 15
  <2>1. u.digits \in [1 .. 4 -> 0 .. 15]
    BY DEF CodeUnits
  <2> QED  BY <2>1
<1>2. 2 ^ 16 = 65536
  OBVIOUS
<1>3. Shifted(0, c1) = (16 * 0 + a) % 65536 /\ UnitOf(u) = 4096 * a + 256 * b + 16 * c + d
  BY <1>2 DEF Shifted, UnitOf
<1>4. \A x : /\ Shifted(x, c2) = (16 * x + b) % 65536
             /\ Shifted(x, c3) = (16 * x + c) % 65536
             /\ Shifted(x, c4) = (16 * x + d) % 65536
  BY <1>2 DEF Shifted
<1> HIDE DEF a, b, c, d
<1>5. Shifted(0, c1) = a
  BY <1>1, <1>3
<1>6. Shifted(a, c2) = 16 * a + b
  <2>1. 16 * a + b \in 0 .. 255
    BY <1>1
  <2> QED  BY <1>4, <2>1
<1>7. Shifted(16 * a + b, c3) = 256 * a + 16 * b + c
  <2>1. /\ 16 * (16 * a + b) + c = 256 * a + 16 * b + c
        /\ 256 * a + 16 * b + c \in Nat
        /\ 256 * a + 16 * b + c < 65536
    BY <1>1
  <2>2. Shifted(16 * a + b, c3) = (16 * (16 * a + b) + c) % 65536
    BY <1>4
  <2> DEFINE m == 256 * a + 16 * b + c
  <2> HIDE DEF m
  <2>3. m \in Nat /\ m < 65536
    BY <2>1 DEF m
  <2>4. Shifted(16 * a + b, c3) = m % 65536
    BY <2>1, <2>2 DEF m
  <2>5. m % 65536 = m
    BY <2>3
  <2> QED  BY <2>4, <2>5 DEF m
<1>8. /\ Shifted(256 * a + 16 * b + c, c4) = 4096 * a + 256 * b + 16 * c + d
      /\ 4096 * a + 256 * b + 16 * c + d \in CodeUnit
  <2>1. /\ 16 * (256 * a + 16 * b + c) + d = 4096 * a + 256 * b + 16 * c + d
        /\ 4096 * a + 256 * b + 16 * c + d \in Nat
        /\ 4096 * a + 256 * b + 16 * c + d < 65536
    BY <1>1
  <2> DEFINE m == 4096 * a + 256 * b + 16 * c + d
  <2> HIDE DEF m
  <2>2. m \in Nat /\ m < 65536
    BY <2>1 DEF m
  <2>3. m % 65536 = m /\ m \in CodeUnit
    BY <2>2 DEF CodeUnit
  <2> QED  BY <1>4, <2>1, <2>3 DEF m
<1> QED  BY <1>3, <1>5, <1>6, <1>7, <1>8

\* Up to its last digit a unit changes nothing of what has been read: an escape has
\* started, and the digits are shifted in.
LEMMA UnitSpelled ==
  ASSUME NEW s \in Seq(Characters), NEW u \in CodeUnits, DecodeAll(s).state = Normal
  PROVE  LET d == DecodeAll(s)
             t == CharsOfUnit(u)
         IN  /\ \A j \in 1 .. 5 : /\ ReadTo(s, t, j) \in Readers /\ Kept(d, ReadTo(s, t, j))
                                  /\ ReadTo(s, t, j).state # Normal
             /\ \A j \in 2 .. 5 : ReadTo(s, t, j).state \in DOMAIN Hex
             /\ ReadTo(s, t, 5).state = "hex4"
             /\ Shifted(ReadTo(s, t, 5).hex, t[6]) = UnitOf(u)
<1> DEFINE d == DecodeAll(s)
           t == CharsOfUnit(u)
           R(j) == ReadTo(s, t, j)
<1>1. d \in Readers /\ d.state = Normal
  <2>1. 0 \in Characters
    BY DEF Characters
  <2> QED  BY <2>1, ReadNext
<1>2. /\ t \in Seq(Characters) /\ Len(t) = 6 /\ t[1] = backslash /\ t[2] = letter_u
      /\ \A i \in 1 .. 4 : IsHex(t[i + 2]) /\ Digit(t[i + 2]) = u.digits[i]
  BY UnitChars
<1>3. \A i \in 1 .. 6 : t[i] \in Characters
  BY <1>2, ElementOfSeq
<1>4. /\ IsHex(t[3]) /\ IsHex(t[4]) /\ IsHex(t[5])
      /\ Digit(t[3]) = u.digits[1] /\ Digit(t[4]) = u.digits[2]
      /\ Digit(t[5]) = u.digits[3] /\ Digit(t[6]) = u.digits[4]
  <2>1. \A i \in 1 .. 4 : i + 2 \in {3, 4, 5, 6}
    OBVIOUS
  <2>2. 1 + 2 = 3 /\ 2 + 2 = 4 /\ 3 + 2 = 5 /\ 4 + 2 = 6
    OBVIOUS
  <2> HIDE DEF t
  <2> QED  BY <1>2, <2>2
<1>5. R(0) = d /\ \A j \in 1 .. 6 : R(j) = DecodeChar(R(j - 1), t[j])
  BY <1>2, PrefixRead
<1>6. /\ R(1) = DecodeChar(d, t[1]) /\ R(2) = DecodeChar(R(1), t[2])
      /\ R(3) = DecodeChar(R(2), t[3]) /\ R(4) = DecodeChar(R(3), t[4])
      /\ R(5) = DecodeChar(R(4), t[5])
  <2> HIDE DEF R, d, t
  <2> QED  BY <1>5
<1> DEFINE r1 == R(1)
           r2 == R(2)
           r3 == R(3)
           r4 == R(4)
           r5 == R(5)
<1> HIDE DEF d, t, r1, r2, r3, r4, r5
<1>7. r1 \in Readers /\ r1.state = "escape" /\ Kept(d, r1)
  BY <1>1, <1>2, <1>3, <1>6, BackslashRead DEF r1
<1>8. r2 \in Readers /\ r2.state = "hex1" /\ r2.hex = 0 /\ Kept(r1, r2)
  BY <1>2, <1>3, <1>6, <1>7, UnitStarts DEF r1, r2
<1>9. r3 \in Readers /\ r3.state = "hex2" /\ r3.hex = Shifted(0, t[3]) /\ Kept(r2, r3)
  <2>1. r2.state \in DOMAIN Hex /\ r2.state # "hex4" /\ Hex[r2.state] = "hex2"
    BY <1>8, StatesAre
  <2> QED  BY <1>3, <1>4, <1>6, <1>8, <2>1, DigitTaken DEF r2, r3
<1>10. r4 \in Readers /\ r4.state = "hex3" /\ r4.hex = Shifted(r3.hex, t[4]) /\ Kept(r3, r4)
  <2>1. r3.state \in DOMAIN Hex /\ r3.state # "hex4" /\ Hex[r3.state] = "hex3"
    BY <1>9, StatesAre
  <2> QED  BY <1>3, <1>4, <1>6, <1>9, <2>1, DigitTaken DEF r3, r4
<1>11. r5 \in Readers /\ r5.state = "hex4" /\ r5.hex = Shifted(r4.hex, t[5]) /\ Kept(r4, r5)
  <2>1. r4.state \in DOMAIN Hex /\ r4.state # "hex4" /\ Hex[r4.state] = "hex4"
    BY <1>10, StatesAre
  <2> QED  BY <1>3, <1>4, <1>6, <1>10, <2>1, DigitTaken DEF r4, r5
<1>12. Kept(d, r1) /\ Kept(d, r2) /\ Kept(d, r3) /\ Kept(d, r4) /\ Kept(d, r5)
  BY <1>7, <1>8, <1>9, <1>10, <1>11 DEF Kept
<1>13. Shifted(r5.hex, t[6]) = UnitOf(u)
  BY <1>4, <1>9, <1>10, <1>11, FourDigits
<1>14. \A j \in 1 .. 5 : j = 1 \/ j = 2 \/ j = 3 \/ j = 4 \/ j = 5
  OBVIOUS
<1>15. \A j \in 1 .. 5 : R(j) \in Readers /\ Kept(d, R(j)) /\ R(j).state # Normal
  <2> TAKE j \in 1 .. 5
  <2>1. /\ r1.state # Normal /\ r2.state # Normal /\ r3.state # Normal
        /\ r4.state # Normal /\ r5.state # Normal
    BY <1>7, <1>8, <1>9, <1>10, <1>11, StatesAre
  <2> HIDE DEF R
  <2> QED  BY <1>7, <1>8, <1>9, <1>10, <1>11, <1>12, <1>14, <2>1 DEF r1, r2, r3, r4, r5
<1>16. \A j \in 2 .. 5 : R(j).state \in DOMAIN Hex
  <2> TAKE j \in 2 .. 5
  <2>1. j = 2 \/ j = 3 \/ j = 4 \/ j = 5
    OBVIOUS
  <2>2. /\ r2.state \in DOMAIN Hex /\ r3.state \in DOMAIN Hex
        /\ r4.state \in DOMAIN Hex /\ r5.state \in DOMAIN Hex
    BY <1>8, <1>9, <1>10, <1>11, StatesAre
  <2> HIDE DEF R
  <2> QED  BY <2>1, <2>2 DEF r2, r3, r4, r5
<1> QED  BY <1>11, <1>13, <1>15, <1>16 DEF r5, d, t

\* The decoder after the last digit of a unit.
LEMMA UnitTaken ==
  ASSUME NEW s \in Seq(Characters), NEW u \in CodeUnits, DecodeAll(s).state = Normal,
         NEW v, v = UnitOf(u)
  PROVE  LET d == DecodeAll(s)
             e == DecodeAll(s \o CharsOfUnit(u))
         IN  /\ v \in Nat /\ e \in Readers /\ e.state = Normal
             /\ v \in low_surrogates /\ d.high # 0 =>
                  /\ e.high = 0
                  /\ OutOf(e) = Append(d.out, PairOf(d.high, v))
                  /\ Ok(e) <=> d.well_formed /\ d.units_good
             /\ v \in low_surrogates /\ d.high = 0 =>
                  e.high = 0 /\ OutOf(e) = Append(OutOf(d), replacement_char) /\ ~Ok(e)
             /\ v \in high_surrogates =>
                  /\ e.high = v /\ e.high # 0
                  /\ e.out = OutOf(d) /\ (e.well_formed /\ e.units_good <=> Ok(d))
                  /\ OutOf(e) = Append(OutOf(d), replacement_char) /\ ~Ok(e)
             /\ v \notin high_surrogates /\ v \notin low_surrogates =>
                  e.high = 0 /\ OutOf(e) = Append(OutOf(d), v) /\ (Ok(e) <=> Ok(d))
<1> DEFINE d == DecodeAll(s)
           t == CharsOfUnit(u)
           e == DecodeAll(s \o t)
           p == ReadTo(s, t, 5)
           c == t[6]
<1>1. /\ t \in Seq(Characters) /\ Len(t) = 6 /\ c \in Characters /\ IsHex(c)
  <2>1. /\ t \in Seq(Characters) /\ Len(t) = 6
        /\ \A i \in 1 .. 4 : IsHex(t[i + 2])
    BY UnitChars
  <2>2. 4 + 2 = 6 /\ 6 \in 1 .. Len(t) /\ 4 \in 1 .. 4
    BY <2>1
  <2> HIDE DEF t
  <2>3. IsHex(t[6])
    BY <2>1, <2>2
  <2>4. t[6] \in Characters
    BY <2>1, <2>2, ElementOfSeq
  <2> QED  BY <2>1, <2>3, <2>4
<1>2. p \in Readers /\ Kept(d, p) /\ p.state = "hex4" /\ v = Shifted(p.hex, c)
  BY UnitSpelled
<1>3. e = DecodeChar(p, c)
  <2>1. \A j \in 1 .. Len(t) : ReadTo(s, t, j) = DecodeChar(ReadTo(s, t, j - 1), t[j])
    BY <1>1, PrefixRead
  <2>2. ReadTo(s, t, Len(t)) = DecodeAll(s \o t)
    BY <1>1, PrefixRead
  <2>3. 6 \in 1 .. Len(t) /\ 6 - 1 = 5
    BY <1>1
  <2> HIDE DEF t
  <2>4. ReadTo(s, t, 6) = DecodeChar(ReadTo(s, t, 5), t[6])
    BY <2>1, <2>3
  <2> QED  BY <1>1, <2>2, <2>4
<1>4. v \in Nat
  <2>1. UnitOf(u) \in CodeUnit
    <3>1. /\ Digit(t[3]) = u.digits[1] /\ Digit(t[4]) = u.digits[2]
          /\ Digit(t[5]) = u.digits[3] /\ Digit(t[6]) = u.digits[4]
      <4>1. \A i \in 1 .. 4 : Digit(t[i + 2]) = u.digits[i]
        BY UnitChars
      <4>2. 1 + 2 = 3 /\ 2 + 2 = 4 /\ 3 + 2 = 5 /\ 4 + 2 = 6
        OBVIOUS
      <4> HIDE DEF t
      <4> QED  BY <4>1, <4>2
    <3> QED  BY <3>1, FourDigits
  <2> QED  BY <2>1, Sixteen
<1> HIDE DEF d, t, e, p, c
<1>5. /\ p.high = d.high /\ p.out = d.out /\ p.well_formed = d.well_formed
      /\ p.units_good = d.units_good /\ OutOf(p) = OutOf(d) /\ Ok(p) = Ok(d)
  BY <1>2, KeptMeans DEF Kept
<1>6. CASE v \in low_surrogates /\ d.high # 0
  <2>1. v \notin high_surrogates
    BY <1>6, SurrogatesApart
  <2>2. /\ e \in Readers /\ e.state = Normal /\ e.high = 0
        /\ OutOf(e) = Append(p.out, PairOf(p.high, v))
        /\ Ok(e) <=> p.well_formed /\ p.units_good
    BY <1>1, <1>2, <1>3, <1>5, <1>6, PairTaken
  <2> QED  BY <1>4, <1>5, <1>6, <2>1, <2>2 DEF d, t, e
<1>7. CASE v \in low_surrogates /\ d.high = 0
  <2>1. v \notin high_surrogates
    BY <1>7, SurrogatesApart
  <2>2. /\ e \in Readers /\ e.state = Normal /\ e.high = 0
        /\ OutOf(e) = Append(OutOf(p), replacement_char) /\ ~Ok(e)
    BY <1>1, <1>2, <1>3, <1>5, <1>7, LowTaken
  <2> QED  BY <1>4, <1>5, <1>7, <2>1, <2>2 DEF d, t, e
<1>8. CASE v \in high_surrogates
  <2>1. v \notin low_surrogates
    BY <1>8, SurrogatesApart
  <2>2. /\ e \in Readers /\ e.state = Normal /\ e.high = v /\ e.high # 0
        /\ e.out = OutOf(p) /\ (e.well_formed /\ e.units_good <=> Ok(p))
        /\ OutOf(e) = Append(OutOf(p), replacement_char) /\ ~Ok(e)
    BY <1>1, <1>2, <1>3, <1>8, HighTaken
  <2> QED  BY <1>4, <1>5, <1>8, <2>1, <2>2 DEF d, t, e
<1>9. CASE v \notin high_surrogates /\ v \notin low_surrogates
  <2>1. /\ e \in Readers /\ e.state = Normal /\ e.high = 0
        /\ OutOf(e) = Append(OutOf(p), v) /\ (Ok(e) <=> Ok(p))
    BY <1>1, <1>2, <1>3, <1>9, OtherTaken
  <2> QED  BY <1>4, <1>5, <1>9, <2>1 DEF d, t, e
<1> QED  BY <1>6, <1>7, <1>8, <1>9

\* What each token is made of.
LEMMA TokenIs ==
  ASSUME NEW t \in Tokens
  PROVE  /\ t.kind \in {"character", "letter", "unit", "pair", "broken", "cut"}
         /\ t.kind = "character" => t.char \in Characters /\ t.char # backslash
         /\ t.kind = "letter" => t.char \in Characters /\ t.char # letter_u
         /\ t.kind = "unit" => t \in CodeUnits
         /\ t.kind = "pair" =>
              /\ t.high \in CodeUnits /\ IsHigh(t.high)
              /\ t.low \in CodeUnits /\ IsLow(t.low)
         /\ t.kind = "broken" =>
              /\ t.unit \in CodeUnits /\ t.size \in 2 .. 5
              /\ t.char \in Characters /\ ~IsHex(t.char)
         /\ t.kind = "cut" => t.unit \in CodeUnits /\ t.size \in 1 .. 5
<1>1. CASE t \in [kind : {"character"}, char : 0 .. 127 \ {backslash}]
  BY <1>1 DEF Characters
<1>2. CASE t \in [kind : {"letter"}, char : 0 .. 127 \ {letter_u}]
  BY <1>2 DEF Characters
<1>3. CASE t \in CodeUnits
  BY <1>3 DEF CodeUnits
<1>4. CASE t \in [kind : {"pair"}, high : {u \in CodeUnits : IsHigh(u)},
                  low : {u \in CodeUnits : IsLow(u)}]
  <2> DEFINE H == {u \in CodeUnits : IsHigh(u)}
             L == {u \in CodeUnits : IsLow(u)}
  <2>1. \A h \in H : h \in CodeUnits /\ IsHigh(h)
    OBVIOUS
  <2>2. \A h \in L : h \in CodeUnits /\ IsLow(h)
    OBVIOUS
  <2> HIDE DEF H, L
  <2>3. t.kind = "pair" /\ t.high \in H /\ t.low \in L
    BY <1>4 DEF H, L
  <2> QED  BY <2>1, <2>2, <2>3
<1>5. CASE t \in [kind : {"broken"}, unit : CodeUnits, size : 2 .. 5,
                  char : {c \in 0 .. 127 : ~IsHex(c)}]
  <2> DEFINE C == {c \in 0 .. 127 : ~IsHex(c)}
  <2>1. \A c \in C : c \in Characters /\ ~IsHex(c)
    BY DEF Characters
  <2> HIDE DEF C
  <2>2. t.kind = "broken" /\ t.unit \in CodeUnits /\ t.size \in 2 .. 5 /\ t.char \in C
    BY <1>5 DEF C
  <2> QED  BY <2>1, <2>2
<1>6. CASE t \in [kind : {"cut"}, unit : CodeUnits, size : 1 .. 5]
  BY <1>6
<1> QED  BY <1>1, <1>2, <1>3, <1>4, <1>5, <1>6 DEF Tokens

\* The parts of a broken unit.
LEMMA BrokenIs ==
  ASSUME NEW t \in Tokens, t.kind = "broken"
  PROVE  t.unit \in CodeUnits /\ t.size \in 2 .. 5 /\ t.char \in Characters /\ ~IsHex(t.char)
BY TokenIs

\* The parts of a unit that is cut off.
LEMMA CutIs ==
  ASSUME NEW t \in Tokens, t.kind = "cut"
  PROVE  t.unit \in CodeUnits /\ t.size \in 1 .. 5
BY TokenIs

\* A letter after a backslash stands for a character.
LEMMA ControlIs ==
  ASSUME NEW c \in Characters
  PROVE  Control(c) \in Nat
BY DEF Control, Characters

\* A text that is read is well formed so far if nothing of it was wrong and no escape
\* is under way.
Fine(d) == Ok(d) /\ d.state = Normal

\* What a token adds to what has been read.
TokenRead(t, d, e) ==
  /\ e \in Readers
  /\ OutOf(e) = OutOf(d) \o MeaningOf(t)
  /\ Fine(e) <=> Fine(d) /\ IsGood(t)
  /\ t.kind # "cut" =>
       /\ e.state = Normal
       /\ (e.high # 0) <=> (IsHigh(t) \/ (t.kind = "broken" /\ d.high # 0))

\* What has to be shown of a token that is no broken unit.
LEMMA TakenIs ==
  ASSUME NEW t, NEW d, NEW e \in Readers, OutOf(e) = OutOf(d) \o MeaningOf(t),
         Fine(e) <=> Fine(d) /\ IsGood(t), e.state = Normal, t.kind # "broken",
         (e.high # 0) <=> IsHigh(t)
  PROVE  TokenRead(t, d, e)
BY DEF TokenRead

\* A token that means one code point adds it to what has been read, ...
LEMMA AddsOne ==
  ASSUME NEW d \in Readers, NEW c \in Nat
  PROVE  OutOf(d) \o <<c>> = Append(OutOf(d), c)
<1>1. OutOf(d) \in Seq(Nat)
  BY ReaderIs
<1> HIDE DEF OutOf
<1> QED  BY <1>1, AppendIsConcat

\* ... and one that means nothing adds nothing.
LEMMA AddsNone ==
  ASSUME NEW d \in Readers
  PROVE  OutOf(d) \o <<>> = OutOf(d)
<1>1. OutOf(d) \in Seq(Nat)
  BY ReaderIs
<1> HIDE DEF OutOf
<1> QED  BY <1>1, ConcatEmptySeq

\* A character that stands for itself is read as it means.
LEMMA CharacterToken ==
  ASSUME NEW s \in Seq(Characters), NEW d, d = DecodeAll(s), d.state = Normal,
         NEW t \in Tokens, t.kind = "character"
  PROVE  CharsOf(t) \in Seq(Characters) /\ TokenRead(t, d, DecodeAll(s \o CharsOf(t)))
<1> DEFINE c == t.char
           e == DecodeAll(s \o CharsOf(t))
<1>0. c \in Characters /\ c # backslash
  BY TokenIs
<1>2. CharsOf(t) = <<c>> /\ MeaningOf(t) = <<c>> /\ IsGood(t) /\ ~IsHigh(t)
  BY DEF CharsOf, MeaningOf, IsGood, IsHigh
<1> HIDE DEF c
<1>1. c \in Characters /\ c # backslash /\ c \in Nat
  BY <1>0 DEF Characters
<1>3. <<c>> \in Seq(Characters) /\ s \o <<c>> = Append(s, c)
  BY <1>1, AppendIsConcat
<1>4. d \in Readers /\ e = DecodeChar(d, c)
  BY <1>1, <1>2, <1>3, ReadNext
<1> HIDE DEF e
<1>5. /\ e \in Readers /\ e.state = Normal /\ e.high = 0
      /\ OutOf(e) = Append(OutOf(d), c) /\ (Ok(e) <=> Ok(d))
  BY <1>1, <1>4, CharacterRead
<1>6. OutOf(e) = OutOf(d) \o <<c>>
  BY <1>1, <1>4, <1>5, AddsOne, Zenon
<1>7. TokenRead(t, d, e)
  BY <1>2, <1>5, <1>6 DEF TokenRead, Fine
<1> QED  BY <1>2, <1>3, <1>7 DEF e

\* So is a letter after a backslash, an escape or not, ...
LEMMA LetterToken ==
  ASSUME NEW s \in Seq(Characters), NEW d, d = DecodeAll(s), d.state = Normal,
         NEW t \in Tokens, t.kind = "letter"
  PROVE  CharsOf(t) \in Seq(Characters) /\ TokenRead(t, d, DecodeAll(s \o CharsOf(t)))
<1> DEFINE c == t.char
           a == Control(c)
           p == Append(s, backslash)
           f == DecodeAll(p)
           e == DecodeAll(s \o CharsOf(t))
<1>1. c \in Characters /\ c # letter_u /\ a \in Nat
  <2>1. c \in Characters /\ c # letter_u
    BY TokenIs
  <2> HIDE DEF c
  <2>2. a \in Nat
    BY <2>1, ControlIs
  <2> QED  BY <2>1, <2>2
<1>2. /\ CharsOf(t) = <<backslash, c>> /\ MeaningOf(t) = <<a>>
      /\ (IsGood(t) <=> IsEscape(c)) /\ ~IsHigh(t)
  BY DEF CharsOf, MeaningOf, IsGood, IsHigh
<1> HIDE DEF c, a
<1>3. backslash \in Characters /\ <<backslash, c>> \in Seq(Characters)
  BY <1>1 DEF Characters, backslash
<1>4. p \in Seq(Characters) /\ s \o <<backslash, c>> = Append(p, c)
  <2>1. p \in Seq(Characters) /\ p = s \o <<backslash>>
    BY <1>3, AppendProperties, AppendIsConcat
  <2>2. <<backslash>> \in Seq(Characters) /\ <<c>> \in Seq(Characters)
    BY <1>1, <1>3
  <2>3. <<backslash, c>> = <<backslash>> \o <<c>>
    OBVIOUS
  <2>4. (s \o <<backslash>>) \o <<c>> = s \o (<<backslash>> \o <<c>>)
    BY <2>2, ConcatAssociative
  <2>5. Append(p, c) = p \o <<c>>
    BY <1>1, <2>1, AppendIsConcat
  <2> HIDE DEF p
  <2> QED  BY <2>1, <2>3, <2>4, <2>5
<1>5. d \in Readers /\ f = DecodeChar(d, backslash)
  BY <1>3, ReadNext
<1>6. e = DecodeChar(f, c)
  BY <1>1, <1>2, <1>4, ReadNext
<1> HIDE DEF p, f, e
<1>7. f \in Readers /\ f.state = "escape" /\ Kept(d, f)
  BY <1>3, <1>5, BackslashRead
<1>8. OutOf(f) = OutOf(d) /\ Ok(f) = Ok(d)
  BY <1>7, KeptMeans
<1>9. /\ e \in Readers /\ e.state = Normal /\ e.high = 0
      /\ OutOf(e) = Append(OutOf(f), a) /\ (Ok(e) <=> Ok(f) /\ IsEscape(c))
  BY <1>1, <1>6, <1>7, LetterRead DEF a
<1>10. OutOf(e) = OutOf(d) \o <<a>>
  BY <1>1, <1>5, <1>8, <1>9, AddsOne, Zenon
<1>11. TokenRead(t, d, e)
  BY <1>2, <1>8, <1>9, <1>10 DEF TokenRead, Fine
<1> QED  BY <1>2, <1>3, <1>11 DEF e

\* ... a unit, which waits if it is a high surrogate, ...
LEMMA UnitToken ==
  ASSUME NEW s \in Seq(Characters), NEW d, d = DecodeAll(s), d.state = Normal,
         NEW t \in Tokens, t.kind = "unit", IsLow(t) => d.high = 0
  PROVE  CharsOf(t) \in Seq(Characters) /\ TokenRead(t, d, DecodeAll(s \o CharsOf(t)))
<1> DEFINE v == UnitOf(t)
           e == DecodeAll(s \o CharsOf(t))
<1>1. t \in CodeUnits
  BY TokenIs
<1>2. /\ CharsOf(t) = CharsOfUnit(t)
      /\ MeaningOf(t) = IF IsHigh(t) \/ IsLow(t) THEN <<replacement_char>> ELSE <<v>>
      /\ (IsGood(t) <=> ~IsHigh(t) /\ ~IsLow(t))
      /\ (IsHigh(t) <=> v \in high_surrogates) /\ (IsLow(t) <=> v \in low_surrogates)
  BY DEF CharsOf, MeaningOf, IsGood, IsHigh, IsLow
<1>3. CharsOf(t) \in Seq(Characters)
  BY <1>1, <1>2, UnitChars
<1>4. d \in Readers /\ v = UnitOf(t) /\ replacement_char \in Nat
  <2>1. 0 \in Characters
    BY DEF Characters
  <2> QED  BY <2>1, ReadNext DEF replacement_char
<1> HIDE DEF v
<1>5. /\ v \in Nat /\ e \in Readers /\ e.state = Normal
      /\ v \in low_surrogates /\ d.high = 0 =>
           e.high = 0 /\ OutOf(e) = Append(OutOf(d), replacement_char) /\ ~Ok(e)
      /\ v \in high_surrogates =>
           e.high # 0 /\ OutOf(e) = Append(OutOf(d), replacement_char) /\ ~Ok(e)
      /\ v \notin high_surrogates /\ v \notin low_surrogates =>
           e.high = 0 /\ OutOf(e) = Append(OutOf(d), v) /\ (Ok(e) <=> Ok(d))
  BY <1>1, <1>2, <1>4, UnitTaken
<1>6. /\ OutOf(d) \o <<v>> = Append(OutOf(d), v)
      /\ OutOf(d) \o <<replacement_char>> = Append(OutOf(d), replacement_char)
  BY <1>4, <1>5, AddsOne, Zenon
<1> HIDE DEF e
<1>7. /\ OutOf(e) = OutOf(d) \o MeaningOf(t) /\ (Ok(e) <=> Ok(d) /\ IsGood(t))
      /\ (e.high # 0 <=> IsHigh(t))
  <2>1. CASE v \in low_surrogates
    BY <1>2, <1>5, <1>6, <2>1, SurrogatesApart
  <2>2. CASE v \in high_surrogates
    BY <1>2, <1>5, <1>6, <2>2, SurrogatesApart
  <2>3. CASE v \notin high_surrogates /\ v \notin low_surrogates
    BY <1>2, <1>5, <1>6, <2>3
  <2> QED  BY <2>1, <2>2, <2>3
<1>8. TokenRead(t, d, e)
  <2>1. e \in Readers /\ e.state = Normal
    BY <1>5
  <2>2. t.kind = "unit" /\ t.kind # "broken"
    OBVIOUS
  <2>3. Fine(e) <=> Fine(d) /\ IsGood(t)
    BY <1>7, <2>1 DEF Fine
  <2> QED  BY <1>7, <2>1, <2>2, <2>3, TakenIs
<1> QED  BY <1>3, <1>8 DEF e

\* ... a surrogate pair, ...
LEMMA PairToken ==
  ASSUME NEW s \in Seq(Characters), NEW d, d = DecodeAll(s), d.state = Normal,
         NEW t \in Tokens, t.kind = "pair"
  PROVE  CharsOf(t) \in Seq(Characters) /\ TokenRead(t, d, DecodeAll(s \o CharsOf(t)))
<1> DEFINE h == UnitOf(t.high)
           l == UnitOf(t.low)
           x == CharsOfUnit(t.high)
           y == CharsOfUnit(t.low)
           p == s \o x
           f == DecodeAll(p)
           e == DecodeAll(s \o CharsOf(t))
           a == PairOf(h, l)
<1>1. /\ t.high \in CodeUnits /\ h \in high_surrogates
      /\ t.low \in CodeUnits /\ l \in low_surrogates
  BY TokenIs DEF IsHigh, IsLow
<1>2. CharsOf(t) = x \o y /\ MeaningOf(t) = <<a>> /\ IsGood(t) /\ ~IsHigh(t)
  BY DEF CharsOf, MeaningOf, IsGood, IsHigh, PairOf
<1>3. x \in Seq(Characters) /\ y \in Seq(Characters)
  BY <1>1, UnitChars
<1>4. d \in Readers
  <2>1. 0 \in Characters
    BY DEF Characters
  <2> QED  BY <2>1, ReadNext
<1>5. a \in Nat
  <2> HIDE DEF h, l
  <2>1. h \in Nat /\ h >= 55296
    BY <1>1 DEF high_surrogates
  <2>2. l \in Nat /\ l >= 56320
    BY <1>1 DEF low_surrogates
  <2> QED  BY <2>1, <2>2 DEF PairOf
<1>h. h = UnitOf(t.high) /\ l = UnitOf(t.low)
  OBVIOUS
<1>6. /\ f \in Readers /\ f.state = Normal /\ f.high = h /\ f.high # 0
      /\ f.out = OutOf(d) /\ (f.well_formed /\ f.units_good <=> Ok(d))
  <2> HIDE DEF h
  <2> QED  BY <1>1, <1>h, UnitTaken
<1>7. p \in Seq(Characters) /\ x \o y \in Seq(Characters) /\ s \o (x \o y) = p \o y
  <2> HIDE DEF x, y
  <2> QED  BY <1>3, ConcatProperties, ConcatAssociative
<1>8. e = DecodeAll(p \o y)
  <2> HIDE DEF x, y, p
  <2> QED  BY <1>2, <1>7
<1>9. /\ e \in Readers /\ e.state = Normal /\ e.high = 0
      /\ OutOf(e) = Append(f.out, PairOf(f.high, l))
      /\ Ok(e) <=> f.well_formed /\ f.units_good
  <2> DEFINE u == t.low
  <2>1. p \in Seq(Characters) /\ DecodeAll(p).state = Normal /\ u \in CodeUnits
        /\ l = UnitOf(u) /\ e = DecodeAll(p \o CharsOfUnit(u)) /\ f = DecodeAll(p)
    BY <1>1, <1>6, <1>7, <1>8, <1>h
  <2> HIDE DEF p, l, e, f, u
  <2> QED  BY <1>1, <1>6, <2>1, UnitTaken
<1> HIDE DEF h, l, x, y, p, f, e
<1>10. OutOf(e) = OutOf(d) \o <<a>>
  <2>1. OutOf(e) = Append(OutOf(d), a)
    BY <1>6, <1>9
  <2> HIDE DEF a
  <2> QED  BY <1>4, <1>5, <2>1, AddsOne, Zenon
<1>11. TokenRead(t, d, e)
  <2> HIDE DEF a
  <2> QED  BY <1>2, <1>6, <1>9, <1>10 DEF TokenRead, Fine
<1> QED  BY <1>2, <1>7, <1>11 DEF e

\* ... a unit that a character breaks, which leaves a waiting surrogate alone, ...
LEMMA BrokenToken ==
  ASSUME NEW s \in Seq(Characters), NEW d, d = DecodeAll(s), d.state = Normal,
         NEW t \in Tokens, t.kind = "broken"
  PROVE  CharsOf(t) \in Seq(Characters) /\ TokenRead(t, d, DecodeAll(s \o CharsOf(t)))
<1> DEFINE x == CharsOfUnit(t.unit)
           n == t.size
           c == t.char
           y == SubSeq(x, 1, n)
           p == s \o y
           f == ReadTo(s, x, n)
           e == DecodeAll(s \o CharsOf(t))
<1>1. t.unit \in CodeUnits /\ n \in 2 .. 5 /\ c \in Characters /\ ~IsHex(c)
  BY BrokenIs
<1>2. CharsOf(t) = Append(y, c) /\ MeaningOf(t) = <<>> /\ ~IsGood(t) /\ ~IsHigh(t)
  <2>1. CharsOf(t) = Append(SubSeq(CharsOfUnit(t.unit), 1, t.size), t.char)
    BY Zenon DEF CharsOf
  <2>2. MeaningOf(t) = <<>>
    BY DEF MeaningOf
  <2> QED  BY <2>1, <2>2 DEF IsGood, IsHigh
<1>3. x \in Seq(Characters) /\ Len(x) = 6
  BY <1>1, UnitChars
<1>4. d \in Readers
  <2>1. 0 \in Characters
    BY DEF Characters
  <2> QED  BY <2>1, ReadNext
<1>5. f \in Readers /\ f.state \in DOMAIN Hex /\ Kept(d, f)
  <2> HIDE DEF n
  <2>1. n \in 1 .. 5
    BY <1>1
  <2> QED  BY <1>1, <2>1, UnitSpelled
<1> HIDE DEF x, n, c
<1>6. y \in Seq(Characters) /\ p \in Seq(Characters)
  <2>1. \A i \in 1 .. n : x[i] \in Characters
    <3>1. \A i \in 1 .. n : i \in 1 .. Len(x)
      BY <1>1, <1>3
    <3> QED  BY <1>3, <3>1, ElementOfSeq
  <2>2. y \in Seq(Characters)
    BY <1>1, <2>1, SubSeqProperties
  <2> HIDE DEF y
  <2> QED  BY <2>2, ConcatProperties
<1>7. f = DecodeAll(p)
  BY DEF ReadTo
<1> HIDE DEF y
<1>8. CharsOf(t) \in Seq(Characters) /\ s \o CharsOf(t) = Append(p, c)
  <2>1. Append(y, c) = y \o <<c>> /\ Append(y, c) \in Seq(Characters)
    BY <1>1, <1>6, AppendIsConcat, AppendProperties
  <2>2. <<c>> \in Seq(Characters)
    BY <1>1
  <2>3. (s \o y) \o <<c>> = s \o (y \o <<c>>)
    BY <1>6, <2>2, ConcatAssociative
  <2>4. Append(p, c) = p \o <<c>>
    BY <1>1, <1>6, AppendIsConcat
  <2> QED  BY <1>2, <2>1, <2>3, <2>4
<1> HIDE DEF p
<1>9. e = DecodeChar(f, c)
  BY <1>1, <1>6, <1>7, <1>8, ReadNext
<1> HIDE DEF e, f
<1>10. OutOf(f) = OutOf(d) /\ f.high = d.high
  BY <1>5, KeptMeans DEF Kept
<1>11. /\ e \in Readers /\ e.state = Normal /\ e.high = f.high
       /\ OutOf(e) = OutOf(f) /\ ~Ok(e)
  BY <1>1, <1>5, <1>9, UnitBroken
<1>12. OutOf(e) = OutOf(d) \o <<>>
  BY <1>4, <1>10, <1>11, AddsNone, Zenon
<1>13. TokenRead(t, d, e)
  BY <1>2, <1>10, <1>11, <1>12 DEF TokenRead, Fine
<1> QED  BY <1>8, <1>13 DEF e

\* ... and a unit that is cut off.
LEMMA CutToken ==
  ASSUME NEW s \in Seq(Characters), NEW d, d = DecodeAll(s), d.state = Normal,
         NEW t \in Tokens, t.kind = "cut"
  PROVE  CharsOf(t) \in Seq(Characters) /\ TokenRead(t, d, DecodeAll(s \o CharsOf(t)))
<1> DEFINE x == CharsOfUnit(t.unit)
           n == t.size
           e == DecodeAll(s \o CharsOf(t))
<1>1. t.unit \in CodeUnits /\ n \in 1 .. 5
  BY CutIs
<1>2. CharsOf(t) = SubSeq(x, 1, n) /\ MeaningOf(t) = <<>> /\ ~IsGood(t)
  <2>1. CharsOf(t) = SubSeq(CharsOfUnit(t.unit), 1, t.size)
    BY Zenon DEF CharsOf
  <2>2. MeaningOf(t) = <<>>
    BY DEF MeaningOf
  <2> QED  BY <2>1, <2>2 DEF IsGood
<1>3. x \in Seq(Characters) /\ Len(x) = 6
  BY <1>1, UnitChars
<1>4. d \in Readers
  <2>1. 0 \in Characters
    BY DEF Characters
  <2> QED  BY <2>1, ReadNext
<1>5. e = ReadTo(s, x, n)
  BY <1>2 DEF ReadTo
<1>6. e \in Readers /\ e.state # Normal /\ Kept(d, e)
  <2> HIDE DEF e, n
  <2> QED  BY <1>1, <1>5, UnitSpelled
<1> HIDE DEF x, n
<1>7. CharsOf(t) \in Seq(Characters)
  <2>1. \A i \in 1 .. n : x[i] \in Characters
    <3>1. \A i \in 1 .. n : i \in 1 .. Len(x)
      BY <1>1, <1>3
    <3> QED  BY <1>3, <3>1, ElementOfSeq
  <2> QED  BY <1>1, <1>2, <2>1, SubSeqProperties
<1> HIDE DEF e
<1>8. OutOf(e) = OutOf(d) \o <<>>
  BY <1>4, <1>6, KeptMeans, AddsNone, Zenon
<1>9. TokenRead(t, d, e)
  BY <1>2, <1>6, <1>8 DEF TokenRead, Fine
<1> QED  BY <1>7, <1>9 DEF e

\* A token after any text is read as it means, if it is no low surrogate for which a
\* high one waits.
LEMMA TokenTaken ==
  ASSUME NEW s \in Seq(Characters), NEW d, d = DecodeAll(s), d.state = Normal,
         NEW t \in Tokens, IsLow(t) => d.high = 0
  PROVE  CharsOf(t) \in Seq(Characters) /\ TokenRead(t, d, DecodeAll(s \o CharsOf(t)))
<1>1. t.kind \in {"character", "letter", "unit", "pair", "broken", "cut"}
  BY TokenIs
<1> QED  BY <1>1, CharacterToken, LetterToken, UnitToken, PairToken, BrokenToken, CutToken

\* What a token means is at most one code point.
LEMMA MeaningType ==
  ASSUME NEW t \in Tokens
  PROVE  MeaningOf(t) \in Seq(Nat)
<1>1. t.kind \in {"character", "letter", "unit", "pair", "broken", "cut"}
  BY TokenIs
<1>2. CASE t.kind = "character"
  <2>1. t.char \in Nat
    BY <1>2, TokenIs DEF Characters
  <2>2. MeaningOf(t) = <<t.char>>
    BY <1>2 DEF MeaningOf
  <2> QED  BY <2>1, <2>2
<1>3. CASE t.kind = "letter"
  <2>1. t.char \in Characters
    BY <1>3, TokenIs
  <2>2. Control(t.char) \in Nat
    BY <2>1, ControlIs
  <2>3. MeaningOf(t) = <<Control(t.char)>>
    BY <1>3 DEF MeaningOf
  <2> QED  BY <2>2, <2>3
<1>4. CASE t.kind = "unit"
  <2> DEFINE v == UnitOf(t)
  <2>1. v \in Nat
    <3>1. t \in CodeUnits
      BY <1>4, TokenIs
    <3>2. <<>> \in Seq(Characters) /\ DecodeAll(<<>>).state = Normal
      BY NothingRead
    <3> QED  BY <3>1, <3>2, UnitTaken
  <2>2. MeaningOf(t) = IF IsHigh(t) \/ IsLow(t) THEN <<replacement_char>> ELSE <<v>>
    BY <1>4 DEF MeaningOf
  <2> HIDE DEF v
  <2>3. <<v>> \in Seq(Nat) /\ <<replacement_char>> \in Seq(Nat)
    BY <2>1 DEF replacement_char
  <2> QED  BY <2>2, <2>3
<1>5. CASE t.kind = "pair"
  <2> DEFINE h == UnitOf(t.high)
             l == UnitOf(t.low)
             a == PairOf(h, l)
  <2>1. h \in high_surrogates /\ l \in low_surrogates
    BY <1>5, TokenIs DEF IsHigh, IsLow
  <2>2. MeaningOf(t) = <<a>>
    BY <1>5 DEF MeaningOf, PairOf
  <2> HIDE DEF h, l
  <2>3. h \in Nat /\ h >= 55296
    BY <2>1 DEF high_surrogates
  <2>4. l \in Nat /\ l >= 56320
    BY <2>1 DEF low_surrogates
  <2>5. a \in Nat
    BY <2>3, <2>4 DEF PairOf
  <2> HIDE DEF a
  <2> QED  BY <2>2, <2>5
<1>6. CASE t.kind \in {"broken", "cut"}
  <2>1. MeaningOf(t) = <<>>
    BY <1>6 DEF MeaningOf
  <2> QED  BY <2>1
<1> QED  BY <1>1, <1>2, <1>3, <1>4, <1>5, <1>6

\* The characters of a token are of seven bits.
LEMMA CharsType ==
  ASSUME NEW t \in Tokens
  PROVE  CharsOf(t) \in Seq(Characters)
<1> DEFINE d == DecodeAll(<<>>)
<1>1. <<>> \in Seq(Characters) /\ d = DecodeAll(<<>>) /\ d.state = Normal /\ d.high = 0
  BY NothingRead
<1> HIDE DEF d
<1> QED  BY <1>1, TokenTaken

\* When a text ends, a high surrogate that waits is replaced, and an escape that is
\* under way is not well formed.
LEMMA EndTextIs ==
  ASSUME NEW d \in Readers
  PROVE  /\ EndText(d).out = OutOf(d)
         /\ EndText(d).well_formed \in BOOLEAN
         /\ EndText(d).well_formed <=> Fine(d)
<1> DEFINE s == d.state
           x == d.hex
           h == d.high
           o == d.out
           w == d.well_formed
           g == d.units_good
           p == OutOf(d)
           k == UnitsOk(d)
           e == end_cp(d)
<1>1. d = Reader(s, x, h, o, w, g) /\ w \in BOOLEAN /\ g \in BOOLEAN
  BY ReaderIs
<1>2. k \in BOOLEAN /\ (Fine(d) <=> w /\ k /\ s = Normal)
  BY <1>1 DEF UnitsOk, Fine, Ok
<1> HIDE DEF s, x, h, o, w, g, p, k
<1>3. e = Reader(s, x, 0, p, w, k)
  BY <1>1, EndIs DEF p, k
<1>4. e.state = s /\ e.out = p /\ e.well_formed = w /\ e.units_good = k
  BY <1>3, MembersAre
<1> DEFINE y == w /\ k /\ s = Normal
<1>5. EndText(d) = [e EXCEPT !.well_formed = y]
  <2> DEFINE z == e.well_formed /\ e.units_good /\ e.state = Normal
  <2>1. EndText(d) = [e EXCEPT !.well_formed = z]
    BY Zenon DEF EndText
  <2>2. z <=> y
    BY <1>4
  <2>3. z = y
    BY <2>2
  <2> HIDE DEF z, y
  <2> QED  BY <2>1, <2>3
<1>6. y \in BOOLEAN /\ (y <=> w /\ k /\ s = Normal)
  OBVIOUS
<1> HIDE DEF y
<1>7. [Reader(s, x, 0, p, w, k) EXCEPT !.well_formed = y] = Reader(s, x, 0, p, y, k)
  BY DEF Reader
<1>8. EndText(d) = Reader(s, x, 0, p, y, k)
  BY <1>3, <1>5, <1>7
<1>9. EndText(d).out = p /\ EndText(d).well_formed = y
  BY <1>8, MembersAre
<1> QED  BY <1>2, <1>6, <1>9 DEF p

\* Text is read token by token, and well formed exactly if each token is.
THEOREM TextRead ==
  \A tokens : IsTokens(tokens) =>
    LET chars == FlattenSeq([i \in DOMAIN tokens |-> CharsOf(tokens[i])])
        read == DecodeText(chars)
    IN  /\ chars \in Seq(Characters)
        /\ read.out = FlattenSeq([i \in DOMAIN tokens |-> MeaningOf(tokens[i])])
        /\ read.well_formed = \A i \in DOMAIN tokens : IsGood(tokens[i])
<1> SUFFICES ASSUME NEW tokens, IsTokens(tokens)
             PROVE  LET chars == FlattenSeq([i \in DOMAIN tokens |-> CharsOf(tokens[i])])
                        read == DecodeText(chars)
                    IN  /\ chars \in Seq(Characters)
                        /\ read.out = FlattenSeq([i \in DOMAIN tokens |-> MeaningOf(tokens[i])])
                        /\ read.well_formed = \A i \in DOMAIN tokens : IsGood(tokens[i])
  OBVIOUS
<1> DEFINE n == Len(tokens)
           A == [i \in 1 .. n |-> CharsOf(tokens[i])]
           B == [i \in 1 .. n |-> MeaningOf(tokens[i])]
<1>1. /\ tokens \in Seq(Tokens)
      /\ \A i \in DOMAIN tokens : /\ tokens[i].kind = "cut" => i = Len(tokens)
                                  /\ IsLow(tokens[i]) => ~AwaitsLow(tokens, i - 1)
  BY DEF IsTokens
<1>2. n \in Nat /\ DOMAIN tokens = 1 .. n /\ \A i \in 1 .. n : tokens[i] \in Tokens
  BY <1>1, LenProperties, ElementOfSeq
<1>3. \A i \in 1 .. n : /\ tokens[i].kind = "cut" => i = n
                        /\ IsLow(tokens[i]) => ~AwaitsLow(tokens, i - 1)
  BY <1>1, <1>2
<1> HIDE DEF n
<1>4. A \in Seq(Seq(Characters)) /\ Len(A) = n
  <2>1. \A i \in 1 .. n : CharsOf(tokens[i]) \in Seq(Characters)
    BY <1>2, CharsType
  <2>2. [i \in 1 .. n |-> CharsOf(tokens[i])] \in Seq(Seq(Characters))
    BY <1>2, <2>1, IsASeq
  <2> QED  BY <1>2, <2>2
<1>5. B \in Seq(Seq(Nat)) /\ Len(B) = n
  <2>1. \A i \in 1 .. n : MeaningOf(tokens[i]) \in Seq(Nat)
    BY <1>2, MeaningType
  <2>2. [i \in 1 .. n |-> MeaningOf(tokens[i])] \in Seq(Seq(Nat))
    BY <1>2, <2>1, IsASeq
  <2> QED  BY <1>2, <2>2
<1>6. \A i \in 1 .. n : A[i] = CharsOf(tokens[i]) /\ B[i] = MeaningOf(tokens[i])
  OBVIOUS
<1> HIDE DEF A, B
<1>7. PICK g : /\ g \in [0 .. n -> Seq(Characters)] /\ g[0] = <<>>
               /\ \A i \in 1 .. n : g[i] = g[i - 1] \o A[i]
               /\ FlattenSeq(A) = g[n]
  BY <1>4, FlattenedSteps
<1>8. PICK m : /\ m \in [0 .. n -> Seq(Nat)] /\ m[0] = <<>>
               /\ \A i \in 1 .. n : m[i] = m[i - 1] \o B[i]
               /\ FlattenSeq(B) = m[n]
  BY <1>5, FlattenedSteps
<1> DEFINE d(k) == DecodeAll(g[k])
           Uncut(k) == \A i \in 1 .. k : tokens[i].kind # "cut"
           Read(k) ==
             /\ d(k) \in Readers
             /\ OutOf(d(k)) = m[k]
             /\ Fine(d(k)) <=> \A i \in 1 .. k : IsGood(tokens[i])
             /\ Uncut(k) => /\ d(k).state = Normal
                            /\ d(k).high # 0 => AwaitsLow(tokens, k)
           T == {k \in Nat : k <= n => Read(k)}
<1>9. 0 \in T
  <2>1. d(0) = NewText
    BY <1>7, NothingRead
  <2>2. Fine(NewText)
    BY NothingRead DEF Fine
  <2>3. Read(0)
    BY <1>8, <2>1, <2>2, NothingRead
  <2> HIDE DEF Read
  <2> QED  BY <2>3
<1>10. ASSUME NEW k \in T
       PROVE  k + 1 \in T
  <2>1. k \in Nat /\ (k <= n => Read(k))
    OBVIOUS
  <2> HIDE DEF T
  <2>2. ASSUME k + 1 <= n
        PROVE  Read(k + 1)
    <3> DEFINE t == tokens[k + 1]
               b == d(k)
               e == d(k + 1)
    <3>1. /\ k + 1 \in 1 .. n /\ (k + 1) - 1 = k /\ k \in 0 .. n /\ k <= n
          /\ \A i \in 1 .. k : i \in 1 .. n /\ i # n
          /\ \A i \in 1 .. k + 1 : i \in 1 .. k \/ i = k + 1
      BY <1>2, <2>1, <2>2
    <3>2. t \in Tokens /\ g[k] \in Seq(Characters)
      BY <1>2, <1>7, <3>1
    <3>3. Uncut(k)
      BY <1>3, <3>1
    <3>4. /\ b \in Readers /\ OutOf(b) = m[k]
          /\ Fine(b) <=> \A i \in 1 .. k : IsGood(tokens[i])
          /\ b.state = Normal /\ (b.high # 0 => AwaitsLow(tokens, k))
      <4> HIDE DEF Uncut, d
      <4> QED  BY <2>1, <3>1, <3>3
    <3>5. IsLow(t) => b.high = 0
      BY <1>3, <3>1, <3>4
    <3>6. b = DecodeAll(g[k]) /\ e = DecodeAll(g[k] \o CharsOf(t))
      BY <1>6, <1>7, <3>1
    <3>7. m[k + 1] = m[k] \o MeaningOf(t)
      BY <1>6, <1>8, <3>1
    <3> HIDE DEF b, e, t, d
    <3>8. TokenRead(t, b, e)
      BY <3>2, <3>4, <3>5, <3>6, TokenTaken
    <3>9. /\ e \in Readers /\ OutOf(e) = m[k + 1]
          /\ Fine(e) <=> Fine(b) /\ IsGood(t)
          /\ t.kind # "cut" =>
               /\ e.state = Normal
               /\ (e.high # 0) <=> (IsHigh(t) \/ (t.kind = "broken" /\ b.high # 0))
      BY <3>4, <3>7, <3>8 DEF TokenRead
    <3>10. Fine(e) <=> \A i \in 1 .. k + 1 : IsGood(tokens[i])
      <4>1. k + 1 \in 1 .. k + 1 /\ \A i \in 1 .. k : i \in 1 .. k + 1
        BY <2>1
      <4> QED  BY <3>1, <3>4, <3>9, <4>1 DEF t
    <3>11. t.kind # "cut" /\ e.high # 0 => AwaitsLow(tokens, k + 1)
      <4>1. CASE IsHigh(t)
        <5>1. k + 1 \in 1 .. k + 1 /\ (k + 1) + 1 .. k + 1 = {}
          BY <2>1
        <5>2. IsHigh(tokens[k + 1])
          BY <4>1 DEF t
        <5> QED  BY <5>1, <5>2 DEF AwaitsLow
      <4>2. CASE t.kind = "broken" /\ b.high # 0
        <5>1. PICK i \in 1 .. k : /\ IsHigh(tokens[i])
                                  /\ \A j \in i + 1 .. k : tokens[j].kind = "broken"
          BY <3>4, <4>2 DEF AwaitsLow
        <5>2. i \in 1 .. k + 1 /\ \A j \in i + 1 .. k + 1 : j \in i + 1 .. k \/ j = k + 1
          BY <2>1
        <5>3. \A j \in i + 1 .. k + 1 : tokens[j].kind = "broken"
          BY <4>2, <5>1, <5>2 DEF t
        <5> QED  BY <5>1, <5>2, <5>3 DEF AwaitsLow
      <4> QED  BY <3>9, <4>1, <4>2
    <3>12. Uncut(k + 1) => t.kind # "cut"
      BY <2>1 DEF t
    <3> HIDE DEF Uncut
    <3>13. Read(k + 1)
      BY <3>9, <3>10, <3>11, <3>12 DEF e
    <3> QED  BY <3>13
  <2>3. k + 1 \in Nat
    BY <2>1
  <2> HIDE DEF Read
  <2> QED  BY <2>2, <2>3 DEF T
<1>11. Read(n)
  <2>1. T \in SUBSET Nat
    OBVIOUS
  <2>2. T = Nat
    <3> HIDE DEF T
    <3> QED  BY <1>9, <1>10, <2>1, AllNumbers
  <2> HIDE DEF Read
  <2>3. n \in T /\ n <= n
    BY <1>2, <2>2
  <2> QED  BY <2>3
<1> DEFINE e == d(n)
           all == \A i \in 1 .. n : IsGood(tokens[i])
<1>12. e \in Readers /\ OutOf(e) = m[n] /\ (Fine(e) <=> all)
  BY <1>11
<1>13. g[n] \in Seq(Characters)
  BY <1>2, <1>7
<1>14. DecodeText(FlattenSeq(A)) = EndText(e)
  BY <1>7 DEF DecodeText
<1> HIDE DEF e, all
<1>15. /\ EndText(e).out = FlattenSeq(B)
       /\ EndText(e).well_formed = all
  <2>1. /\ EndText(e).out = OutOf(e) /\ EndText(e).well_formed \in BOOLEAN
        /\ EndText(e).well_formed <=> Fine(e)
    BY <1>12, EndTextIs
  <2>2. all \in BOOLEAN
    BY DEF all
  <2>3. EndText(e).well_formed <=> all
    BY <1>12, <2>1
  <2>4. EndText(e).well_formed = all
    BY <2>1, <2>2, <2>3
  <2> QED  BY <1>8, <1>12, <2>1, <2>4
<1>16. /\ A = [i \in DOMAIN tokens |-> CharsOf(tokens[i])]
       /\ B = [i \in DOMAIN tokens |-> MeaningOf(tokens[i])]
       /\ all = \A i \in DOMAIN tokens : IsGood(tokens[i])
  BY <1>2 DEF A, B, all
<1>17. FlattenSeq(A) \in Seq(Characters)
  BY <1>7, <1>13
<1> DEFINE fine == \A i \in DOMAIN tokens : IsGood(tokens[i])
           AA == [i \in DOMAIN tokens |-> CharsOf(tokens[i])]
           BB == [i \in DOMAIN tokens |-> MeaningOf(tokens[i])]
<1>18. A = AA /\ B = BB /\ all = fine
  BY <1>16
<1> HIDE DEF fine, AA, BB
<1>19. /\ FlattenSeq(AA) \in Seq(Characters)
       /\ DecodeText(FlattenSeq(AA)).out = FlattenSeq(BB)
       /\ DecodeText(FlattenSeq(AA)).well_formed = fine
  BY <1>14, <1>15, <1>17, <1>18
<1> QED  BY <1>19 DEF fine, AA, BB

-------------------------------------------------------------------------------
(* What the library writes.                                                      *)

\* The unit that is written for a number of sixteen bits.
UnitFor(v) ==
  [kind |-> "unit", digits |-> [i \in 1 .. 4 |-> (v \div 16 ^ (4 - i)) % 16], small |-> {}]

\* The weights of the four digits.
LEMMA Powers ==
  16 ^ (4 - 1) = 4096 /\ 16 ^ (4 - 2) = 256 /\ 16 ^ (4 - 3) = 16 /\ 16 ^ (4 - 4) = 1
<1>1. 4 - 1 = 3 /\ 4 - 2 = 2 /\ 4 - 3 = 1 /\ 4 - 4 = 0
  OBVIOUS
<1>2. 16 ^ 3 = 4096 /\ 16 ^ 2 = 256 /\ 16 ^ 1 = 16 /\ 16 ^ 0 = 1
  OBVIOUS
<1> QED  BY <1>1, <1>2

\* Sixteen bits are four digits.
LEMMA DigitsOf ==
  ASSUME NEW v \in Nat, v < 65536
  PROVE  4096 * ((v \div 4096) % 16) + 256 * ((v \div 256) % 16)
           + 16 * ((v \div 16) % 16) + ((v \div 1) % 16) = v
OBVIOUS

\* It is a unit, with that number, and to_hex() writes its characters.
LEMMA UnitForIs ==
  ASSUME NEW v \in Nat, v < 65536
  PROVE  UnitFor(v) \in CodeUnits /\ UnitOf(UnitFor(v)) = v /\ CharsOfUnit(UnitFor(v)) = Escape(v)
<1> DEFINE f == [i \in 1 .. 4 |-> (v \div 16 ^ (4 - i)) % 16]
           u == UnitFor(v)
<1>1. u.kind = "unit" /\ u.digits = f /\ u.small = {}
  BY DEF UnitFor
<1>2. /\ f[1] = (v \div 4096) % 16 /\ f[2] = (v \div 256) % 16
      /\ f[3] = (v \div 16) % 16 /\ f[4] = (v \div 1) % 16
  <2>1. /\ f[1] = (v \div 16 ^ (4 - 1)) % 16 /\ f[2] = (v \div 16 ^ (4 - 2)) % 16
        /\ f[3] = (v \div 16 ^ (4 - 3)) % 16 /\ f[4] = (v \div 16 ^ (4 - 4)) % 16
    OBVIOUS
  <2> HIDE DEF f
  <2> QED  BY <2>1, Powers
<1>3. \A i \in 1 .. 4 : f[i] \in 0 .. 15
  <2>1. /\ (v \div 4096) % 16 \in 0 .. 15 /\ (v \div 256) % 16 \in 0 .. 15
        /\ (v \div 16) % 16 \in 0 .. 15 /\ (v \div 1) % 16 \in 0 .. 15
    OBVIOUS
  <2>2. \A i \in 1 .. 4 : i = 1 \/ i = 2 \/ i = 3 \/ i = 4
    OBVIOUS
  <2> HIDE DEF f
  <2> QED  BY <1>2, <2>1, <2>2
<1>4. f = [i \in 1 .. 4 |-> f[i]]
  OBVIOUS
<1>5. UnitFor(v) = [kind |-> "unit", digits |-> f, small |-> {}]
  BY DEF UnitFor
<1> DEFINE g(k) == (v \div 16 ^ (4 - k)) % 16
<1>6. \A i \in 1 .. 4 : f[i] = g(i)
  OBVIOUS
<1> HIDE DEF f, g
<1>7. f \in [1 .. 4 -> 0 .. 15]
  BY <1>3, <1>4
<1>8. u \in CodeUnits
  BY <1>5, <1>7 DEF CodeUnits
<1>9. UnitOf(u) = v
  <2>1. UnitOf(u) = 4096 * f[1] + 256 * f[2] + 16 * f[3] + f[4]
    BY <1>1 DEF UnitOf
  <2> QED  BY <1>2, <2>1, DigitsOf
<1>10. CharsOfUnit(u) = Escape(v)
  <2> DEFINE a == [i \in 1 .. 4 |-> HexChar(u.digits[i], i \in u.small)]
             b == [i \in 1 .. 4 |-> to_hex((v \div 16 ^ (4 - i)) % 16)]
  <2>1. CharsOfUnit(u) = <<backslash, letter_u>> \o a /\ Escape(v) = <<backslash, letter_u>> \o b
    BY DEF CharsOfUnit, Escape
  <2>2. \A i \in 1 .. 4 : a[i] = b[i]
    <3> TAKE i \in 1 .. 4
    <3>1. f[i] \in 0 .. 15 /\ f[i] = u.digits[i] /\ i \notin u.small
      BY <1>1, <1>3
    <3>2. b[i] = to_hex(f[i])
      <4>1. b[i] = to_hex(g(i))
        BY DEF g
      <4> HIDE DEF b
      <4> QED  BY <1>6, <4>1
    <3>3. a[i] = IF u.digits[i] < 10 THEN 48 + u.digits[i]
                 ELSE IF i \in u.small THEN 87 + u.digits[i] ELSE 55 + u.digits[i]
      BY DEF HexChar
    <3> HIDE DEF a, b, u
    <3>4. a[i] = to_hex(f[i])
      BY <3>1, <3>3 DEF to_hex
    <3> QED  BY <3>2, <3>4
  <2>3. a = [i \in 1 .. 4 |-> a[i]] /\ b = [i \in 1 .. 4 |-> b[i]]
    OBVIOUS
  <2> HIDE DEF a, b
  <2>4. a = b
    BY <2>2, <2>3
  <2> QED  BY <2>1, <2>4
<1> QED  BY <1>8, <1>9, <1>10 DEF u

\* The token that is written for a code point.
TokenFor(c) ==
  IF c = backslash THEN [kind |-> "letter", char |-> c]
  ELSE IF c < 2 ^ 7 THEN [kind |-> "character", char |-> c]
  ELSE IF c < 65536 THEN UnitFor(c)
  ELSE [kind |-> "pair", high |-> UnitFor(55296 + (c - 65536) \div 1024),
        low |-> UnitFor(56320 + ((c - 65536) % 1024))]

\* One and two sequences laid one after the other.
LEMMA FlattenedOne ==
  ASSUME NEW S, NEW f \in Seq(Seq(S)), Len(f) = 1
  PROVE  FlattenSeq(f) = f[1]
<1>0. PICK g : /\ g \in [0 .. Len(f) -> Seq(S)] /\ g[0] = <<>>
               /\ \A i \in 1 .. Len(f) : g[i] = g[i - 1] \o f[i]
               /\ FlattenSeq(f) = g[Len(f)]
  BY FlattenedSteps
<1>1. /\ g[0] = <<>>
      /\ \A i \in 1 .. 1 : g[i] = g[i - 1] \o f[i]
      /\ FlattenSeq(f) = g[1]
  BY <1>0
<1>2. g[1] = <<>> \o f[1]
  <2>1. 1 \in 1 .. 1 /\ 1 - 1 = 0
    OBVIOUS
  <2> QED  BY <1>1, <2>1
<1>3. f[1] \in Seq(S)
  BY ElementOfSeq
<1> QED  BY <1>1, <1>2, <1>3, ConcatEmptySeq

\* The same for two sequences.
LEMMA FlattenedTwo ==
  ASSUME NEW S, NEW f \in Seq(Seq(S)), Len(f) = 2
  PROVE  FlattenSeq(f) = f[1] \o f[2]
<1>0. PICK g : /\ g \in [0 .. Len(f) -> Seq(S)] /\ g[0] = <<>>
               /\ \A i \in 1 .. Len(f) : g[i] = g[i - 1] \o f[i]
               /\ FlattenSeq(f) = g[Len(f)]
  BY FlattenedSteps
<1>1. /\ g \in [0 .. 2 -> Seq(S)] /\ g[0] = <<>>
      /\ \A i \in 1 .. 2 : g[i] = g[i - 1] \o f[i]
      /\ FlattenSeq(f) = g[2]
  BY <1>0
<1>2. g[1] = <<>> \o f[1] /\ g[2] = g[1] \o f[2]
  <2>1. 1 \in 1 .. 2 /\ 2 \in 1 .. 2 /\ 1 - 1 = 0 /\ 2 - 1 = 1
    OBVIOUS
  <2> QED  BY <1>1, <2>1
<1>3. f[1] \in Seq(S)
  BY ElementOfSeq
<1>4. <<>> \o f[1] = f[1]
  BY <1>3, ConcatEmptySeq
<1> QED  BY <1>1, <1>2, <1>4

\* A code point is not a surrogate.
LEMMA PointIs ==
  ASSUME NEW c \in CodePoints
  PROVE  c \in Nat /\ c <= 1114111 /\ c \notin high_surrogates /\ c \notin low_surrogates
BY SMTT(20) DEF CodePoints

\* What the library writes for a code point is a token that means it.
LEMMA PointWritten ==
  ASSUME NEW c \in CodePoints
  PROVE  LET t == TokenFor(c)
         IN  /\ t \in Tokens /\ t.kind \in {"character", "letter", "unit", "pair"}
             /\ IsGood(t) /\ MeaningOf(t) = <<c>> /\ convert_from_32(c) = CharsOf(t)
<1>1. /\ c \in Nat /\ c <= 1114111
      /\ c < 65536 => c \notin high_surrogates /\ c \notin low_surrogates
  BY SMTT(20), PointIs
<1>2. 2 ^ 7 = 128
  OBVIOUS
<1> DEFINE t == TokenFor(c)
<1>3. CASE c = backslash
  <2>1. t = [kind |-> "letter", char |-> c]
    BY <1>3 DEF TokenFor
  <2>2. t \in Tokens
    <3>1. c \in 0 .. 127 \ {letter_u}
      BY <1>3 DEF backslash, letter_u
    <3> QED  BY <2>1, <3>1 DEF Tokens
  <2>3. t.kind = "letter" /\ t.char = c
    BY <2>1
  <2> HIDE DEF t
  <2>4. IsGood(t)
    BY <1>3, <2>3 DEF IsGood, IsEscape
  <2>5. MeaningOf(t) = <<c>>
    <3>1. Control(c) = c
      BY <1>3 DEF Control, backslash
    <3>2. MeaningOf(t) = <<Control(t.char)>>
      BY <2>3 DEF MeaningOf
    <3> QED  BY <2>3, <3>1, <3>2
  <2>6. convert_from_32(c) = CharsOf(t)
    <3>1. CharsOf(t) = <<backslash, t.char>>
      BY <2>3 DEF CharsOf
    <3>2. convert_from_32(c) = <<c, c>>
      BY <1>3 DEF convert_from_32
    <3> QED  BY <1>3, <2>3, <3>1, <3>2
  <2> QED  BY <2>2, <2>3, <2>4, <2>5, <2>6 DEF t
<1>4. CASE c # backslash /\ c < 128
  <2>1. t = [kind |-> "character", char |-> c]
    BY <1>2, <1>4 DEF TokenFor
  <2>2. t \in Tokens
    <3>1. c \in 0 .. 127 \ {backslash}
      BY SMTT(20), <1>1, <1>4
    <3> QED  BY <2>1, <3>1 DEF Tokens
  <2>3. t.kind = "character" /\ t.char = c
    BY <2>1
  <2> HIDE DEF t
  <2>4. IsGood(t)
    BY <2>3 DEF IsGood
  <2>5. MeaningOf(t) = <<c>>
    BY <2>3 DEF MeaningOf
  <2>6. convert_from_32(c) = CharsOf(t)
    <3>1. CharsOf(t) = <<t.char>>
      BY <2>3 DEF CharsOf
    <3>2. convert_from_32(c) = <<c>>
      BY <1>2, <1>4 DEF convert_from_32
    <3> QED  BY <2>3, <3>1, <3>2
  <2> QED  BY <2>2, <2>3, <2>4, <2>5, <2>6 DEF t
<1>5. CASE c # backslash /\ c >= 128 /\ c < 65536
  <2>1. t = UnitFor(c)
    BY SMTT(20), <1>1, <1>2, <1>5 DEF TokenFor
  <2>2. t \in CodeUnits /\ UnitOf(t) = c /\ CharsOfUnit(t) = Escape(c)
    BY SMTT(20), <1>1, <1>5, <2>1, UnitForIs
  <2>3. t.kind = "unit"
    BY <2>1 DEF UnitFor
  <2> HIDE DEF t
  <2>4. t \in Tokens
    BY <2>2 DEF Tokens
  <2>5. ~IsHigh(t) /\ ~IsLow(t)
    BY SMTT(20), <1>1, <1>5, <2>2 DEF IsHigh, IsLow
  <2>6. IsGood(t)
    BY <2>3, <2>5 DEF IsGood
  <2>7. MeaningOf(t) = <<c>>
    BY <2>2, <2>3, <2>5 DEF MeaningOf
  <2>8. convert_from_32(c) = CharsOf(t)
    <3> DEFINE f == [i \in DOMAIN t32_16(c) |-> Escape(t32_16(c)[i])]
    <3>1. CharsOf(t) = Escape(c) /\ CharsOf(t) \in Seq(Characters)
      <4>1. CharsOf(t) = CharsOfUnit(t)
        BY <2>3 DEF CharsOf
      <4> QED  BY <2>2, <2>4, <4>1, CharsType
    <3>2. convert_from_32(c) = FlattenSeq(f)
      BY SMTT(20), <1>1, <1>2, <1>5 DEF convert_from_32
    <3>3. t32_16(c) = <<c>>
      BY <1>5 DEF t32_16
    <3>4. f = <<Escape(c)>>
      BY <3>3
    <3> HIDE DEF f
    <3> DEFINE x == Escape(c)
    <3> HIDE DEF x
    <3>5. x \in Seq(Characters) /\ f = <<x>>
      BY <3>1, <3>4 DEF x
    <3>6. f \in Seq(Seq(Characters)) /\ Len(f) = 1 /\ f[1] = x
      BY <3>5
    <3>7. FlattenSeq(f) = x
      BY <3>6, FlattenedOne
    <3> QED  BY <3>1, <3>2, <3>7 DEF x
  <2> QED  BY <2>3, <2>4, <2>6, <2>7, <2>8 DEF t
<1>6. CASE c >= 65536
  <2> DEFINE q == (c - 65536) \div 1024
             r == (c - 65536) % 1024
             h == 55296 + q
             l == 56320 + r
             a == UnitFor(h)
             b == UnitFor(l)
  <2>1. q \in 0 .. 1023 /\ r \in 0 .. 1023 /\ c - 65536 = 1024 * q + r
    BY SMTT(20), <1>1, <1>6
  <2>2. t = [kind |-> "pair", high |-> a, low |-> b]
    BY SMTT(20), <1>1, <1>2, <1>6 DEF TokenFor, backslash
  <2>3. t32_16(c) = <<h, l>>
    BY SMTT(20), <1>1, <1>6 DEF t32_16
  <2> HIDE DEF q, r
  <2>4. /\ h \in Nat /\ h < 65536 /\ l \in Nat /\ l < 65536
        /\ h \in high_surrogates /\ l \in low_surrogates
        /\ 65536 + 1024 * (h - 55296) + (l - 56320) = c
    BY SMTT(20), <1>1, <2>1 DEF high_surrogates, low_surrogates
  <2> HIDE DEF h, l
  <2>5. /\ a \in CodeUnits /\ UnitOf(a) = h /\ CharsOfUnit(a) = Escape(h)
        /\ b \in CodeUnits /\ UnitOf(b) = l /\ CharsOfUnit(b) = Escape(l)
    BY <2>4, UnitForIs
  <2>6. IsHigh(a) /\ IsLow(b)
    <3>1. a.kind = "unit" /\ b.kind = "unit"
      BY DEF UnitFor
    <3> QED  BY <2>4, <2>5, <3>1 DEF IsHigh, IsLow
  <2> HIDE DEF a, b
  <2>7. t \in Tokens
    <3> DEFINE H == {u \in CodeUnits : IsHigh(u)}
               L == {u \in CodeUnits : IsLow(u)}
    <3>1. a \in H /\ b \in L
      BY <2>5, <2>6
    <3> HIDE DEF H, L
    <3>2. t \in [kind : {"pair"}, high : H, low : L]
      BY <2>2, <3>1
    <3> QED  BY <3>2 DEF Tokens, H, L
  <2>8. t.kind = "pair" /\ t.high = a /\ t.low = b
    BY <2>2
  <2> HIDE DEF t
  <2>9. IsGood(t)
    BY <2>8 DEF IsGood
  <2>10. MeaningOf(t) = <<c>>
    <3>1. MeaningOf(t) = <<65536 + 1024 * (UnitOf(t.high) - 55296) + (UnitOf(t.low) - 56320)>>
      BY <2>8 DEF MeaningOf
    <3> QED  BY <2>4, <2>5, <2>8, <3>1
  <2>11. convert_from_32(c) = CharsOf(t)
    <3> DEFINE f == [i \in DOMAIN t32_16(c) |-> Escape(t32_16(c)[i])]
               x == Escape(h)
               y == Escape(l)
    <3>1. CharsOf(t) = x \o y
      <4>1. CharsOf(t) = CharsOfUnit(t.high) \o CharsOfUnit(t.low)
        BY <2>8 DEF CharsOf
      <4> QED  BY <2>5, <2>8, <4>1
    <3>2. convert_from_32(c) = FlattenSeq(f)
      BY SMTT(20), <1>1, <1>2, <1>6 DEF convert_from_32, backslash
    <3>3. f = <<x, y>>
      BY <2>3
    <3>4. x \in Seq(Characters) /\ y \in Seq(Characters)
      BY <2>5, UnitChars
    <3> HIDE DEF f, x, y
    <3>5. f \in Seq(Seq(Characters)) /\ Len(f) = 2 /\ f[1] = x /\ f[2] = y
      BY <3>3, <3>4
    <3>6. FlattenSeq(f) = x \o y
      BY <3>5, FlattenedTwo
    <3> QED  BY <3>1, <3>2, <3>6
  <2> QED  BY <2>7, <2>8, <2>9, <2>10, <2>11 DEF t
<1> QED  BY SMTT(20), <1>1, <1>3, <1>4, <1>5, <1>6

\* Sequences of one element each, laid one after the other.
LEMMA FlattenedSingles ==
  ASSUME NEW p \in Seq(Nat)
  PROVE  FlattenSeq([i \in 1 .. Len(p) |-> <<p[i]>>]) = p
<1> DEFINE n == Len(p)
           f == [i \in 1 .. n |-> <<p[i]>>]
           off == [i \in 0 .. n |-> i]
           all == FlattenSeq(f)
<1>1. n \in Nat /\ \A i \in 1 .. n : p[i] \in Nat
  BY LenProperties, ElementOfSeq
<1> HIDE DEF n
<1>2. f \in Seq(Seq(Nat)) /\ Len(f) = n
  <2>1. \A i \in 1 .. n : <<p[i]>> \in Seq(Nat)
    BY <1>1
  <2>2. [i \in 1 .. n |-> <<p[i]>>] \in Seq(Seq(Nat))
    BY <1>1, <2>1, IsASeq
  <2> QED  BY <1>1, <2>2
<1>3. \A i \in 1 .. n : Len(f[i]) = 1 /\ f[i][1] = p[i]
  OBVIOUS
<1>4. /\ off \in [0 .. n -> Nat] /\ off[0] = 0
      /\ \A i \in 0 .. n : off[i] = i
  BY <1>1
<1> HIDE DEF f, off
<1>5. Offsets(f, off)
  <2>1. \A i \in 1 .. n : i - 1 \in 0 .. n /\ i \in 0 .. n
    BY <1>1
  <2>2. \A i \in 1 .. n : off[i] = off[i - 1] + Len(f[i])
    <3> TAKE i \in 1 .. n
    <3>1. off[i] = i /\ off[i - 1] = i - 1 /\ Len(f[i]) = 1
      BY <1>3, <1>4, <2>1
    <3> QED  BY <3>1
  <2> QED  BY <1>2, <1>4, <2>2 DEF Offsets
<1>6. all \in Seq(Nat) /\ Joined(f, off, all)
  BY <1>2, <1>5, Flattened
<1> HIDE DEF all
<1>7. Len(all) = n
  <2>1. n \in 0 .. n
    BY <1>1
  <2> QED  BY <1>2, <1>4, <1>6, <2>1 DEF Joined
<1>8. \A i \in 1 .. n : all[i] = p[i]
  <2> TAKE i \in 1 .. n
  <2>1. i - 1 \in 0 .. n /\ 1 \in 1 .. Len(f[i]) /\ (i - 1) + 1 = i /\ off[i - 1] = i - 1
    BY <1>1, <1>3, <1>4
  <2>2. all[off[i - 1] + 1] = f[i][1]
    BY <1>2, <1>6, <2>1 DEF Joined
  <2> QED  BY <1>3, <2>1, <2>2
<1>9. all = p
  BY <1>6, <1>7, <1>8, SeqEqual DEF n
<1> QED  BY <1>9 DEF all, f, n

\* What the library writes for a text is read as that text.
THEOREM TextRoundTrip ==
  \A points \in Seq(CodePoints) :
    LET read == DecodeText(EncodeText(points))
    IN  EncodeText(points) \in Seq(Characters) /\ read.out = points /\ read.well_formed
<1> SUFFICES ASSUME NEW points \in Seq(CodePoints)
             PROVE  LET read == DecodeText(EncodeText(points))
                    IN  /\ EncodeText(points) \in Seq(Characters)
                        /\ read.out = points /\ read.well_formed
  OBVIOUS
<1> DEFINE n == Len(points)
           tokens == [i \in 1 .. n |-> TokenFor(points[i])]
<1>1. /\ n \in Nat /\ DOMAIN points = 1 .. n
      /\ \A i \in 1 .. n : points[i] \in CodePoints
  BY LenProperties, ElementOfSeq
<1> HIDE DEF n
<1>2. /\ tokens \in Seq(Tokens) /\ Len(tokens) = n /\ DOMAIN tokens = 1 .. n
  <2>1. \A i \in 1 .. n : TokenFor(points[i]) \in Tokens
    BY <1>1, PointWritten
  <2>2. [i \in 1 .. n |-> TokenFor(points[i])] \in Seq(Tokens)
    BY <1>1, <2>1, IsASeq
  <2> QED  BY <1>1, <2>2
<1>3. \A i \in 1 .. n :
        /\ tokens[i].kind \in {"character", "letter", "unit", "pair"}
        /\ IsGood(tokens[i]) /\ MeaningOf(tokens[i]) = <<points[i]>>
        /\ convert_from_32(points[i]) = CharsOf(tokens[i])
  <2> TAKE i \in 1 .. n
  <2>1. tokens[i] = TokenFor(points[i]) /\ points[i] \in CodePoints
    BY <1>1
  <2> HIDE DEF tokens
  <2> QED  BY <2>1, PointWritten
<1> HIDE DEF tokens
<1>4. IsTokens(tokens)
  <2>1. \A i \in 1 .. n : tokens[i].kind # "cut" /\ ~IsLow(tokens[i])
    BY <1>3 DEF IsGood, IsLow
  <2> QED  BY <1>2, <2>1 DEF IsTokens
<1> DEFINE A == [i \in DOMAIN tokens |-> CharsOf(tokens[i])]
           B == [i \in DOMAIN tokens |-> MeaningOf(tokens[i])]
           fine == \A i \in DOMAIN tokens : IsGood(tokens[i])
<1>5. /\ FlattenSeq(A) \in Seq(Characters)
      /\ DecodeText(FlattenSeq(A)).out = FlattenSeq(B)
      /\ DecodeText(FlattenSeq(A)).well_formed = fine
  BY <1>4, TextRead
<1>6. fine
  BY <1>2, <1>3
<1>7. EncodeText(points) = FlattenSeq(A)
  <2>1. [i \in DOMAIN points |-> convert_from_32(points[i])] = A
    BY <1>1, <1>2, <1>3
  <2> HIDE DEF A
  <2> QED  BY <2>1 DEF EncodeText
<1>8. FlattenSeq(B) = points
  <2>1. B = [i \in 1 .. n |-> <<points[i]>>]
    BY <1>2, <1>3
  <2>2. points \in Seq(Nat)
    <3>1. \A i \in 1 .. n : points[i] \in Nat
      BY <1>1, PointIs
    <3>2. points = [i \in 1 .. n |-> points[i]]
      BY <1>1, LenProperties
    <3>3. [i \in 1 .. n |-> points[i]] \in Seq(Nat)
      BY <1>1, <3>1, IsASeq
    <3> QED  BY <3>2, <3>3
  <2> HIDE DEF B
  <2> QED  BY <2>1, <2>2, FlattenedSingles DEF n
<1> HIDE DEF A, B, fine
<1> QED  BY <1>5, <1>6, <1>7, <1>8

\* What is written of a text are characters.
LEMMA WrittenType ==
  ASSUME NEW t, IsText(t)
  PROVE  WrittenAs(t) \in Seq(Characters)
<1>1. CASE t.by = "library" /\ t.points \in Seq(CodePoints)
  BY <1>1, TextRoundTrip DEF WrittenAs
<1>2. CASE t.by = "another" /\ IsTokens(t.tokens)
  BY <1>2, TextRead DEF WrittenAs
<1> QED  BY <1>1, <1>2 DEF IsText

\* A text is read back as what it means, whoever wrote it.
LEMMA TextMeant ==
  ASSUME NEW t, IsText(t)
  PROVE  LET read == DecodeText(WrittenAs(t))
         IN  read.out = MeantBy(t) /\ read.well_formed = WellFormed(t)
<1>1. CASE t.by = "library" /\ t.points \in Seq(CodePoints)
  <2>1. WrittenAs(t) = EncodeText(t.points) /\ MeantBy(t) = t.points /\ WellFormed(t) = TRUE
    BY <1>1 DEF WrittenAs, MeantBy, WellFormed
  <2>2. /\ DecodeText(EncodeText(t.points)).out = t.points
        /\ DecodeText(EncodeText(t.points)).well_formed = TRUE
    BY <1>1, TextRoundTrip
  <2> QED  BY <2>1, <2>2
<1>2. CASE t.by = "another" /\ IsTokens(t.tokens)
  <2> DEFINE A == [i \in DOMAIN t.tokens |-> CharsOf(t.tokens[i])]
             B == [i \in DOMAIN t.tokens |-> MeaningOf(t.tokens[i])]
             fine == \A i \in DOMAIN t.tokens : IsGood(t.tokens[i])
  <2>1. WrittenAs(t) = FlattenSeq(A) /\ MeantBy(t) = FlattenSeq(B)
    BY <1>2 DEF WrittenAs, MeantBy
  <2>2. WellFormed(t) = fine
    BY <1>2 DEF WellFormed
  <2>3. /\ DecodeText(FlattenSeq(A)).out = FlattenSeq(B)
        /\ DecodeText(FlattenSeq(A)).well_formed = fine
    BY <1>2, TextRead
  <2> HIDE DEF A, B, fine
  <2> QED  BY <2>1, <2>2, <2>3
<1> QED  BY <1>1, <1>2 DEF IsText

\* The header of a message, in bits, is read as the characters that were written.
LEMMA HeaderText ==
  ASSUME NEW chars \in Seq(Characters),
         NEW bits, bits = [i \in DOMAIN chars |-> BitsOf(chars[i])]
  PROVE  [i \in DOMAIN bits |-> Number(bits[i])] = chars
<1>1. /\ DOMAIN bits = DOMAIN chars /\ DOMAIN chars = 1 .. Len(chars)
      /\ \A i \in DOMAIN chars : bits[i] = BitsOf(chars[i])
  BY LenProperties
<1>2. \A i \in DOMAIN chars : chars[i] \in 0 .. MaxLength
  <2> TAKE i \in DOMAIN chars
  <2>1. chars[i] \in Characters
    BY <1>1, ElementOfSeq
  <2> QED  BY <2>1, SMT DEF Characters, MaxLength
<1>3. \A i \in DOMAIN chars : Number(bits[i]) = chars[i]
  BY <1>1, <1>2, NumberOfBits
<1>4. [i \in DOMAIN bits |-> Number(bits[i])] = [i \in DOMAIN chars |-> chars[i]]
  BY <1>1, <1>3
<1>5. chars = [i \in DOMAIN chars |-> chars[i]]
  BY <1>1, LenProperties
<1> QED  BY <1>4, <1>5

\* Text that the header of a property exchange message carries is what its handler
\* reads, whatever code points the library wrote, and whatever tokens another sender
\* wrote, well formed or not.
THEOREM TextCarried == Spec => []TextSurvives
<1>1. Prompt => TextSurvives
  <2> SUFFICES ASSUME Prompt, NEW c \in ToSet(calls), NEW w \in Written, ToldOf(c, w)
               PROVE  LET read == DecodeText([i \in DOMAIN c[3].header |->
                                                Number(c[3].header[i])])
                      IN  /\ read.out = MeantBy(w.text)
                          /\ read.well_formed = WellFormed(w.text)
    BY DEF TextSurvives
  <2>1. IsText(w.text)
    BY WrittenAssumption
  <2> DEFINE chars == WrittenAs(w.text)
             bits  == c[3].header
  <2>2. bits = [i \in DOMAIN chars |-> BitsOf(chars[i])]
    BY ExchangeTold, WrittenAssumption
  <2>3. chars \in Seq(Characters)
    BY <2>1, WrittenType
  <2> HIDE DEF chars, bits
  <2>4. [i \in DOMAIN bits |-> Number(bits[i])] = chars
    BY <2>2, <2>3, HeaderText
  <2> QED  BY <2>1, <2>4, TextMeant DEF chars, bits
<1> QED  BY CalledPromptly, <1>1, PTL
===============================================================================
