--------------------------- MODULE UmpMessagesProofs ---------------------------
(* Proofs about module UmpMessages: every class of ump_types.hpp is laid out so   *)
(* that its fields do not overlap, that the dispatcher reads its message type and  *)
(* status where it put them, and that its callback gets back what was set, for    *)
(* every set of values and contents and every bound on the edits.                 *)
EXTENDS UmpMessages, FiniteSetTheorems, SequenceTheorems, TLAPS

-------------------------------------------------------------------------------
(* Bytes and their bits.                                                         *)

Bit(b, bits) == IF b \in bits THEN 1 ELSE 0
Sum(bits) ==
  Bit(0, bits) + 2 * Bit(1, bits) + 4 * Bit(2, bits) + 8 * Bit(3, bits)
    + 16 * Bit(4, bits) + 32 * Bit(5, bits) + 64 * Bit(6, bits)
    + 128 * Bit(7, bits)

\* The number of a set of bits is the sum of their weights, and a byte.
LEMMA NumberSum ==
  /\ DOMAIN Number = SUBSET (0 .. 7)
  /\ \A bits \in SUBSET (0 .. 7) : Number[bits] = Sum(bits) /\ Number[bits] \in Byte
<1>1. \A bits \in SUBSET (0 .. 7) : Number[bits] = Sum(bits)
  BY DEF Number, Sum, Bit
<1>2. \A bits \in SUBSET (0 .. 7) : Sum(bits) \in Byte
  BY DEF Sum, Bit, Byte
<1> QED  BY <1>1, <1>2 DEF Number

(* Bytes that are the same number have the same bits.                            *)
LEMMA NumberInjective ==
  ASSUME NEW s \in SUBSET (0 .. 7), NEW t \in SUBSET (0 .. 7), Number[s] = Number[t]
  PROVE  s = t
<1>1. Sum(s) = Sum(t)
  BY NumberSum
<1>2. /\ 0 \in s <=> 0 \in t
      /\ 1 \in s <=> 1 \in t
      /\ 2 \in s <=> 2 \in t
      /\ 3 \in s <=> 3 \in t
      /\ 4 \in s <=> 4 \in t
      /\ 5 \in s <=> 5 \in t
      /\ 6 \in s <=> 6 \in t
      /\ 7 \in s <=> 7 \in t
  BY <1>1 DEF Sum, Bit
<1>3. \A b \in 0 .. 7 : b \in s <=> b \in t
  BY <1>2
<1> QED  BY <1>3

\* Every byte is the number of some bits.
LEMMA NumberSurjective ==
  ASSUME NEW n \in Byte
  PROVE  \E bits \in SUBSET (0 .. 7) : Number[bits] = n
<1>1. \A m \in Nat : \E b \in {0, 1}, half \in Nat : m = b + 2 * half
  <2> SUFFICES ASSUME NEW m \in Nat
               PROVE  \E b \in {0, 1}, half \in Nat : m = b + 2 * half
    OBVIOUS
  <2>1. (m % 2) \in {0, 1} /\ m \div 2 \in Nat /\ m = (m % 2) + 2 * (m \div 2)
    OBVIOUS
  <2> QED  BY <2>1
<1>2. PICK b0 \in {0, 1}, n1 \in Nat : n = b0 + 2 * n1
  <2>1. n \in Nat
    BY DEF Byte
  <2> QED  BY <1>1, <2>1
<1>3. PICK b1 \in {0, 1}, n2 \in Nat : n1 = b1 + 2 * n2
  BY <1>1
<1>4. PICK b2 \in {0, 1}, n3 \in Nat : n2 = b2 + 2 * n3
  BY <1>1
<1>5. PICK b3 \in {0, 1}, n4 \in Nat : n3 = b3 + 2 * n4
  BY <1>1
<1>6. PICK b4 \in {0, 1}, n5 \in Nat : n4 = b4 + 2 * n5
  BY <1>1
<1>7. PICK b5 \in {0, 1}, n6 \in Nat : n5 = b5 + 2 * n6
  BY <1>1
<1>8. PICK b6 \in {0, 1}, b7 \in Nat : n6 = b6 + 2 * b7
  BY <1>1
<1> DEFINE bits == {b \in 0 .. 7 :
               \/ (b = 0 /\ b0 = 1) \/ (b = 1 /\ b1 = 1) \/ (b = 2 /\ b2 = 1)
               \/ (b = 3 /\ b3 = 1) \/ (b = 4 /\ b4 = 1) \/ (b = 5 /\ b5 = 1)
               \/ (b = 6 /\ b6 = 1) \/ (b = 7 /\ b7 = 1)}
<1>9. b7 \in {0, 1}
  BY <1>2, <1>3, <1>4, <1>5, <1>6, <1>7, <1>8 DEF Byte
<1>10. bits \in SUBSET (0 .. 7)
  OBVIOUS
<1>11. /\ Bit(0, bits) = b0 /\ Bit(1, bits) = b1 /\ Bit(2, bits) = b2
       /\ Bit(3, bits) = b3 /\ Bit(4, bits) = b4 /\ Bit(5, bits) = b5
       /\ Bit(6, bits) = b6 /\ Bit(7, bits) = b7
  <2>1. /\ 0 \in bits <=> b0 = 1
        /\ 1 \in bits <=> b1 = 1
        /\ 2 \in bits <=> b2 = 1
        /\ 3 \in bits <=> b3 = 1
        /\ 4 \in bits <=> b4 = 1
        /\ 5 \in bits <=> b5 = 1
        /\ 6 \in bits <=> b6 = 1
        /\ 7 \in bits <=> b7 = 1
    OBVIOUS
  <2> HIDE DEF bits
  <2> QED  BY <1>9, <2>1 DEF Bit
<1> HIDE DEF bits
<1>12. Sum(bits) = n
  BY <1>2, <1>3, <1>4, <1>5, <1>6, <1>7, <1>8, <1>11 DEF Sum, Byte
<1> QED  BY <1>10, <1>12, NumberSum

\* The bits of a number and the number of bits are inverse to each other.
LEMMA BitsOfNumber ==
  /\ \A n \in Byte : Bits[n] \in SUBSET (0 .. 7) /\ Number[Bits[n]] = n
  /\ \A s \in SUBSET (0 .. 7) : Bits[Number[s]] = s
<1>1. ASSUME NEW n \in Byte
      PROVE  Bits[n] \in SUBSET (0 .. 7) /\ Number[Bits[n]] = n
  BY NumberSurjective DEF Bits
<1>2. ASSUME NEW s \in SUBSET (0 .. 7)
      PROVE  Bits[Number[s]] = s
  BY <1>1, NumberSum, NumberInjective
<1> QED  BY <1>1, <1>2

(* The bits of a number below sixteen.                                           *)
LEMMA NibbleBits ==
  ASSUME NEW n \in 0 .. 15
  PROVE  /\ Bits[n] \in SUBSET (0 .. 3)
         /\ n = Bit(0, Bits[n]) + 2 * Bit(1, Bits[n]) + 4 * Bit(2, Bits[n])
                  + 8 * Bit(3, Bits[n])
<1>1. Bits[n] \in SUBSET (0 .. 7) /\ Sum(Bits[n]) = n
  <2>1. n \in Byte
    BY DEF Byte
  <2>2. Bits[n] \in SUBSET (0 .. 7) /\ Number[Bits[n]] = n
    BY <2>1, BitsOfNumber
  <2> QED  BY <2>2, NumberSum
<1>2. /\ 4 \notin Bits[n] /\ 5 \notin Bits[n] /\ 6 \notin Bits[n] /\ 7 \notin Bits[n]
      /\ n = Bit(0, Bits[n]) + 2 * Bit(1, Bits[n]) + 4 * Bit(2, Bits[n])
                  + 8 * Bit(3, Bits[n])
  BY <1>1 DEF Sum, Bit
<1> QED  BY <1>1, <1>2

-------------------------------------------------------------------------------
(* Words and their bytes.                                                        *)

ByteAt(w, n) == {b \in 0 .. 7 : b + n \in w}

(* The bytes of a word are its bits, and give them back.                         *)
LEMMA RoundTrip ==
  ASSUME NEW w \in SUBSET (0 .. 31)
  PROVE  /\ Bytes(w) \in Word
         /\ Bytes(w) = <<Number[ByteAt(w, 24)], Number[ByteAt(w, 16)],
                         Number[ByteAt(w, 8)], Number[ByteAt(w, 0)]>>
         /\ FromBytes(Bytes(w)) = w
<1>1. Bytes(w) = <<Number[ByteAt(w, 24)], Number[ByteAt(w, 16)],
                   Number[ByteAt(w, 8)], Number[ByteAt(w, 0)]>>
  BY DEF Bytes, ByteAt
<1>2. \A n \in Nat : ByteAt(w, n) \in SUBSET (0 .. 7)
  BY DEF ByteAt
<1>3. \A n \in Nat : Number[ByteAt(w, n)] \in Byte /\ Bits[Number[ByteAt(w, n)]] = ByteAt(w, n)
  BY <1>2, NumberSum, BitsOfNumber
<1>4. \A i \in 1 .. 4 : Bits[Bytes(w)[i]] = ByteAt(w, 8 * (4 - i))
  <2>1. \A i \in 1 .. 4 : i = 1 \/ i = 2 \/ i = 3 \/ i = 4
    OBVIOUS
  <2> QED  BY <1>1, <1>3, <2>1
<1>5. FromBytes(Bytes(w)) = UNION {{8 * (4 - i) + b : b \in ByteAt(w, 8 * (4 - i))} : i \in 1 .. 4}
  BY <1>4 DEF FromBytes
<1>6. ASSUME NEW x \in FromBytes(Bytes(w))
      PROVE  x \in w
  <2>1. PICK i \in 1 .. 4 : x \in {8 * (4 - i) + b : b \in ByteAt(w, 8 * (4 - i))}
    BY <1>5, <1>6
  <2>2. PICK b \in ByteAt(w, 8 * (4 - i)) : x = 8 * (4 - i) + b
    BY <2>1
  <2> QED  BY <2>2 DEF ByteAt
<1>7. ASSUME NEW x \in w
      PROVE  x \in FromBytes(Bytes(w))
  <2> DEFINE i == 4 - x \div 8
             b == (x % 8)
  <2>1. i \in 1 .. 4 /\ b \in 0 .. 7 /\ x = 8 * (4 - i) + b
    OBVIOUS
  <2>2. b \in ByteAt(w, 8 * (4 - i))
    <3> HIDE DEF i, b
    <3> QED  BY <2>1 DEF ByteAt
  <2> HIDE DEF i, b
  <2> QED  BY <1>5, <2>1, <2>2
<1> QED  BY <1>1, <1>3, <1>6, <1>7 DEF Word

-------------------------------------------------------------------------------
(* The layouts of the classes.                                                   *)

\* The fields of a word lie between bits lo and hi, and no two of them have a bit
\* in common, but for one field under two names.
Apart(p, q) == p[1] + p[2] <= q[1] \/ q[1] + q[2] <= p[1]
Within(word, lo, hi) ==
  \A f \in DOMAIN word :
    /\ word[f] \in Nat \X Nat
    /\ lo <= word[f][1] /\ word[f][1] + word[f][2] <= hi
    /\ \A g \in DOMAIN word : f = g \/ {f, g} = Aliases \/ Apart(word[f], word[g])

HeadNames == {"mt", "group", "status", "channel", "number_of_bytes", "mds_id",
              "format", "form", "address", "status_bank"}
StatusPlace(mt) ==
  IF mt = MT_SYSTEM THEN <<16, 8>>
  ELSE IF mt = MT_STREAM THEN <<16, 10>>
  ELSE IF mt = MT_FLEX THEN <<0, 8>>
  ELSE <<20, 4>>

\* What the messages of a type have in common, above bit lo of their first word.
Shared(word, mt, lo) ==
  /\ mt \in 0 .. 15 /\ lo \in 0 .. 32
  /\ Within(word, lo, 32) /\ DOMAIN word \subseteq HeadNames
  /\ "mt" \in DOMAIN word /\ word["mt"] = <<28, 4>>
  /\ "status" \in DOMAIN word /\ word["status"] = StatusPlace(mt)
  /\ "status_bank" \in DOMAIN word <=> mt = MT_FLEX
  /\ mt = MT_FLEX => word["status_bank"] = <<8, 8>>
\* What a class adds to a word, with names of its own.
Own(word, hi, names) == Within(word, 0, hi) /\ \A f \in DOMAIN word : f \notin names
NoCommon(word, other) == \A f \in DOMAIN word : f \notin DOMAIN other

Layout(c) ==
  /\ "mt" \in DOMAIN c /\ c.mt \in 0 .. 15
  /\ DOMAIN c.words = 1 .. MessageSize(c.mt) /\ Len(c.words) = MessageSize(c.mt)
  /\ \A i \in DOMAIN c.words : Within(c.words[i], 0, 32)
  /\ \A i \in DOMAIN c.words : \A j \in DOMAIN c.words :
       i # j => NoCommon(c.words[i], c.words[j])
  /\ "mt" \in DOMAIN c.words[1] /\ c.words[1]["mt"] = <<28, 4>>
  /\ "status" \in DOMAIN c.words[1] /\ c.words[1]["status"] = StatusPlace(c.mt)
  /\ "status_bank" \in Fields(c) <=> c.mt = MT_FLEX
  /\ c.mt = MT_FLEX => /\ "status_bank" \in DOMAIN c.words[1]
                       /\ c.words[1]["status_bank"] = <<8, 8>>

\* The class of a message type and status, without fields of the names.
Good(c, mt, status, names) ==
  /\ Layout(c) /\ c.mt = mt /\ c.status = status /\ {"mt", "status"} \subseteq c.fixed
  /\ \A f \in Fields(c) : f \in names => f \in HeadNames

\* The first words that the messages of a type share are laid out as Shared says.
LEMMA UtilityHead == Shared(Utility, MT_UTILITY, 20)
BY DEF Shared, Within, Apart, Utility, HeadNames, StatusPlace, Aliases, MT_UTILITY,
       MT_SYSTEM, MT_STREAM, MT_FLEX

\* The same for system messages.
LEMMA SystemHead == Shared(System, MT_SYSTEM, 16)
BY DEF Shared, Within, Apart, System, HeadNames, StatusPlace, Aliases, MT_UTILITY,
       MT_SYSTEM, MT_STREAM, MT_FLEX

\* The same for channel voice messages of either protocol.
LEMMA ChannelHead == Shared(Channel, MT_M1CVM, 16) /\ Shared(Channel, MT_M2CVM, 16)
BY DEF Shared, Within, Apart, Channel, HeadNames, StatusPlace, Aliases, MT_M1CVM, MT_M2CVM,
       MT_SYSTEM, MT_STREAM, MT_FLEX

\* The same for seven- and eight-bit system exclusive messages.
LEMMA SysexHead == Shared(Sysex, MT_DATA64, 16) /\ Shared(Sysex, MT_DATA128, 16)
BY DEF Shared, Within, Apart, Sysex, HeadNames, StatusPlace, Aliases, MT_DATA64, MT_DATA128,
       MT_SYSTEM, MT_STREAM, MT_FLEX

\* The same for mixed data sets.
LEMMA MdsHead == Shared(Mds, MT_DATA128, 16)
BY DEF Shared, Within, Apart, Mds, HeadNames, StatusPlace, Aliases, MT_DATA64, MT_DATA128,
       MT_SYSTEM, MT_STREAM, MT_FLEX

\* The same for stream messages.
LEMMA StreamHead == Shared(Stream, MT_STREAM, 16)
BY DEF Shared, Within, Apart, Stream, HeadNames, StatusPlace, Aliases,
       MT_SYSTEM, MT_STREAM, MT_FLEX

\* The same for flex data messages.
LEMMA FlexHead == Shared(Flex, MT_FLEX, 0)
BY DEF Shared, Within, Apart, Flex, HeadNames, StatusPlace, Aliases,
       MT_SYSTEM, MT_STREAM, MT_FLEX

\* f ++ g is f where f is defined, and g elsewhere.
LEMMA Merged ==
  ASSUME NEW f, NEW g
  PROVE  /\ DOMAIN (f ++ g) = DOMAIN f \union DOMAIN g
         /\ \A x \in DOMAIN f : (f ++ g)[x] = f[x]
         /\ \A x \in DOMAIN g : x \notin DOMAIN f => (f ++ g)[x] = g[x]
BY DEF ++

\* What a class adds below its head does not touch the head, and gives a word.
LEMMA FirstWord ==
  ASSUME NEW mt, NEW lo, NEW h, NEW t, NEW names,
         Shared(h, mt, lo), HeadNames \subseteq names, Own(t, lo, names)
  PROVE  /\ Within(h ++ t, 0, 32)
         /\ "mt" \in DOMAIN (h ++ t) /\ (h ++ t)["mt"] = <<28, 4>>
         /\ "status" \in DOMAIN (h ++ t) /\ (h ++ t)["status"] = StatusPlace(mt)
         /\ "status_bank" \in DOMAIN (h ++ t) <=> mt = MT_FLEX
         /\ mt = MT_FLEX => (h ++ t)["status_bank"] = <<8, 8>>
         /\ \A f \in DOMAIN (h ++ t) : f \in names => f \in HeadNames
         /\ \A w : Own(w, 32, names) /\ NoCommon(w, t) => NoCommon(w, h ++ t)
<1> DEFINE w == h ++ t
<1>1. /\ DOMAIN w = DOMAIN h \union DOMAIN t
      /\ \A x \in DOMAIN h : w[x] = h[x]
      /\ \A x \in DOMAIN t : x \notin DOMAIN h /\ w[x] = t[x]
  <2>1. DOMAIN h \subseteq HeadNames
    BY DEF Shared
  <2>2. \A x \in DOMAIN t : x \notin HeadNames
    BY DEF Own
  <2>3. /\ DOMAIN w = DOMAIN h \union DOMAIN t
        /\ \A x \in DOMAIN h : w[x] = h[x]
        /\ \A x \in DOMAIN t : x \notin DOMAIN h => w[x] = t[x]
    BY Merged
  <2> QED  BY <2>1, <2>2, <2>3
<1> HIDE DEF w
<1>2. Within(w, 0, 32)
  <2> SUFFICES ASSUME NEW f \in DOMAIN w
               PROVE  /\ w[f] \in Nat \X Nat
                      /\ 0 <= w[f][1] /\ w[f][1] + w[f][2] <= 32
                      /\ \A g \in DOMAIN w : f = g \/ {f, g} = Aliases \/ Apart(w[f], w[g])
    BY DEF Within
  <2>1. CASE f \in DOMAIN h
    BY <1>1, <2>1 DEF Shared, Own, Within, Apart
  <2>2. CASE f \in DOMAIN t
    BY <1>1, <2>2 DEF Shared, Own, Within, Apart
  <2> QED  BY <1>1, <2>1, <2>2
<1>3. \A v : Own(v, 32, names) /\ NoCommon(v, t) => NoCommon(v, w)
  BY <1>1 DEF Own, NoCommon, Shared
<1>4. /\ "mt" \in DOMAIN w /\ w["mt"] = <<28, 4>>
      /\ "status" \in DOMAIN w /\ w["status"] = StatusPlace(mt)
      /\ "status_bank" \in DOMAIN w <=> mt = MT_FLEX
      /\ mt = MT_FLEX => w["status_bank"] = <<8, 8>>
  BY <1>1 DEF Shared, Own, HeadNames
<1>5. \A f \in DOMAIN w : f \in names => f \in HeadNames
  BY <1>1 DEF Shared, Own
<1> QED  BY <1>2, <1>3, <1>4, <1>5 DEF w

\* A head and the fields below it make a class of one word.
LEMMA OneWord ==
  ASSUME NEW mt, NEW status, NEW lo, NEW h, NEW t, NEW names,
         Shared(h, mt, lo), HeadNames \subseteq names, MessageSize(mt) = 1,
         Own(t, lo, names)
  PROVE  Good(Type(mt, status, <<h ++ t>>), mt, status, names)
<1> DEFINE w == h ++ t
           c == Type(mt, status, <<w>>)
<1> HIDE DEF w
<1>1. /\ c.mt = mt /\ c.status = status /\ c.words = <<w>> /\ c.fixed = {"mt", "status"}
      /\ "mt" \in DOMAIN c
  BY DEF Type
<1> HIDE DEF c
<1>2. /\ Within(w, 0, 32)
      /\ "mt" \in DOMAIN w /\ w["mt"] = <<28, 4>>
      /\ "status" \in DOMAIN w /\ w["status"] = StatusPlace(mt)
      /\ "status_bank" \in DOMAIN w <=> mt = MT_FLEX
      /\ mt = MT_FLEX => w["status_bank"] = <<8, 8>>
      /\ \A f \in DOMAIN w : f \in names => f \in HeadNames
  BY FirstWord DEF w
<1>3. Fields(c) = DOMAIN w
  BY <1>1 DEF Fields
<1>4. mt \in 0 .. 15
  BY DEF Shared
<1>5. Layout(c)
  BY <1>1, <1>2, <1>3, <1>4 DEF Layout
<1>6. \A f \in Fields(c) : f \in names => f \in HeadNames
  BY <1>2, <1>3
<1>7. Good(c, mt, status, names)
  BY <1>1, <1>5, <1>6 DEF Good
<1> QED  BY <1>7 DEF c, w

\* A head, the fields below it and a second word make a class of two words.
LEMMA TwoWords ==
  ASSUME NEW mt, NEW status, NEW lo, NEW h, NEW t, NEW w2, NEW names,
         Shared(h, mt, lo), HeadNames \subseteq names, MessageSize(mt) = 2,
         Own(t, lo, names), Own(w2, 32, names), NoCommon(w2, t)
  PROVE  Good(Type(mt, status, <<h ++ t, w2>>), mt, status, names)
<1> DEFINE w == h ++ t
           c == Type(mt, status, <<w, w2>>)
<1> HIDE DEF w
<1>1. /\ c.mt = mt /\ c.status = status /\ c.words = <<w, w2>>
      /\ c.fixed = {"mt", "status"} /\ "mt" \in DOMAIN c
  BY DEF Type
<1> HIDE DEF c
<1>2. /\ Within(w, 0, 32) /\ NoCommon(w2, w)
      /\ "mt" \in DOMAIN w /\ w["mt"] = <<28, 4>>
      /\ "status" \in DOMAIN w /\ w["status"] = StatusPlace(mt)
      /\ "status_bank" \in DOMAIN w <=> mt = MT_FLEX
      /\ mt = MT_FLEX => w["status_bank"] = <<8, 8>>
      /\ \A f \in DOMAIN w : f \in names => f \in HeadNames
  BY FirstWord DEF w
<1>3. Fields(c) = DOMAIN w \union DOMAIN w2
  BY <1>1 DEF Fields
<1>4. mt \in 0 .. 15 /\ "status_bank" \notin DOMAIN w2 /\ Within(w2, 0, 32)
  BY DEF Shared, Own, HeadNames
<1>5. NoCommon(w, w2)
  BY <1>2 DEF NoCommon
<1>6. \A i \in 1 .. 2 : \A j \in 1 .. 2 : i # j => NoCommon(c.words[i], c.words[j])
  BY <1>1, <1>2, <1>5
<1>7. DOMAIN c.words = 1 .. 2 /\ Len(c.words) = 2 /\ \A i \in 1 .. 2 : Within(c.words[i], 0, 32)
  BY <1>1, <1>2, <1>4
<1>8. Layout(c)
  BY <1>1, <1>2, <1>3, <1>4, <1>6, <1>7 DEF Layout
<1>9. \A f \in Fields(c) : f \in names => f \in HeadNames
  BY <1>2, <1>3 DEF Own
<1>10. Good(c, mt, status, names)
  BY <1>1, <1>8, <1>9 DEF Good
<1> QED  BY <1>10 DEF c, w

Owned(t, w2, w3, w4, lo, names) ==
  /\ Own(t, lo, names) /\ Own(w2, 32, names) /\ Own(w3, 32, names) /\ Own(w4, 32, names)
  /\ NoCommon(w2, t) /\ NoCommon(w3, t) /\ NoCommon(w4, t)
  /\ NoCommon(w3, w2) /\ NoCommon(w4, w2) /\ NoCommon(w4, w3)

\* A head, the fields below it and three more words make a class of four words.
LEMMA FourWords ==
  ASSUME NEW mt, NEW status, NEW lo, NEW h, NEW t, NEW w2, NEW w3, NEW w4,
         NEW names, Shared(h, mt, lo), HeadNames \subseteq names, MessageSize(mt) = 4,
         Owned(t, w2, w3, w4, lo, names)
  PROVE  Good(Type(mt, status, <<h ++ t, w2, w3, w4>>), mt, status, names)
<1> DEFINE w == h ++ t
           c == Type(mt, status, <<w, w2, w3, w4>>)
<1> HIDE DEF w
<1>1. /\ c.mt = mt /\ c.status = status /\ c.words = <<w, w2, w3, w4>>
      /\ c.fixed = {"mt", "status"} /\ "mt" \in DOMAIN c
  BY DEF Type
<1> HIDE DEF c
<1>2. /\ Within(w, 0, 32) /\ NoCommon(w2, w) /\ NoCommon(w3, w) /\ NoCommon(w4, w)
      /\ "mt" \in DOMAIN w /\ w["mt"] = <<28, 4>>
      /\ "status" \in DOMAIN w /\ w["status"] = StatusPlace(mt)
      /\ "status_bank" \in DOMAIN w <=> mt = MT_FLEX
      /\ mt = MT_FLEX => w["status_bank"] = <<8, 8>>
      /\ \A f \in DOMAIN w : f \in names => f \in HeadNames
  BY FirstWord DEF w, Owned
<1>3. Fields(c) = DOMAIN w \union DOMAIN w2 \union DOMAIN w3 \union DOMAIN w4
  <2>1. \A x : x \in Fields(c) <=> \E i \in 1 .. 4 : x \in DOMAIN c.words[i]
    BY <1>1 DEF Fields
  <2>2. \A i \in 1 .. 4 : i = 1 \/ i = 2 \/ i = 3 \/ i = 4
    OBVIOUS
  <2>3. \A x : x \in Fields(c) <=> \/ x \in DOMAIN w \/ x \in DOMAIN w2
                                  \/ x \in DOMAIN w3 \/ x \in DOMAIN w4
    BY <1>1, <2>1, <2>2
  <2> QED  BY <2>3
<1>4. /\ mt \in 0 .. 15
      /\ "status_bank" \notin DOMAIN w2
      /\ "status_bank" \notin DOMAIN w3
      /\ "status_bank" \notin DOMAIN w4
      /\ Within(w2, 0, 32) /\ Within(w3, 0, 32) /\ Within(w4, 0, 32)
  BY DEF Shared, Own, HeadNames, Owned
<1>5. /\ NoCommon(w, w2) /\ NoCommon(w, w3) /\ NoCommon(w, w4)
      /\ NoCommon(w2, w3) /\ NoCommon(w2, w4) /\ NoCommon(w3, w4)
  BY <1>2 DEF NoCommon, Owned
<1>6. \A i \in 1 .. 4 : \A j \in 1 .. 4 : i # j => NoCommon(c.words[i], c.words[j])
  BY <1>1, <1>2, <1>5 DEF Owned
<1>7. DOMAIN c.words = 1 .. 4 /\ Len(c.words) = 4 /\ \A i \in 1 .. 4 : Within(c.words[i], 0, 32)
  BY <1>1, <1>2, <1>4
<1>8. Layout(c)
  BY <1>1, <1>2, <1>3, <1>4, <1>6, <1>7 DEF Layout
<1>9. \A f \in Fields(c) : f \in names => f \in HeadNames
  BY <1>2, <1>3 DEF Own, Owned
<1>10. Good(c, mt, status, names)
  BY <1>1, <1>8, <1>9 DEF Good
<1> QED  BY <1>10 DEF c, w

\* A head alone is a head with nothing added.
LEMMA Alone == ASSUME NEW h, h = [x \in DOMAIN h |-> h[x]] PROVE h ++ <<>> = h
BY DEF ++

\* Nothing added is laid out as it must be.
LEMMA Empty == \A hi, names : Own(<<>>, hi, names)
BY DEF Own, Within

\* The number of words of each message type.
LEMMA Sizes ==
  /\ MessageSize(MT_UTILITY) = 1 /\ MessageSize(MT_SYSTEM) = 1 /\ MessageSize(MT_M1CVM) = 1
  /\ MessageSize(MT_DATA64) = 2 /\ MessageSize(MT_M2CVM) = 2
  /\ MessageSize(MT_DATA128) = 4 /\ MessageSize(MT_FLEX) = 4 /\ MessageSize(MT_STREAM) = 4
BY DEF MessageSize, MT_UTILITY, MT_SYSTEM, MT_M1CVM, MT_DATA64, MT_M2CVM, MT_DATA128,
       MT_FLEX, MT_STREAM

\* No class but those that hold bytes has a field with this name.
Reserved == HeadNames \union {"data0"}

\* A utility message is a class if the fields it adds are its own.
LEMMA UtilityClass ==
  ASSUME NEW status, NEW t, Own(t, 20, Reserved)
  PROVE  Good(Type(MT_UTILITY, status, <<Utility ++ t>>), MT_UTILITY, status, Reserved)
BY OneWord, UtilityHead, Sizes DEF Reserved

\* So is one that adds none.
LEMMA UtilityBare ==
  ASSUME NEW status
  PROVE  Good(Type(MT_UTILITY, status, <<Utility>>), MT_UTILITY, status, Reserved)
<1>1. Utility ++ <<>> = Utility
  BY Alone DEF Utility
<1> QED  BY <1>1, UtilityClass, Empty, Zenon

\* The same for system messages.
LEMMA SystemClass ==
  ASSUME NEW status, NEW t, Own(t, 16, Reserved)
  PROVE  Good(Type(MT_SYSTEM, status, <<System ++ t>>), MT_SYSTEM, status, Reserved)
BY OneWord, SystemHead, Sizes DEF Reserved

\* So is a system message that adds no field.
LEMMA SystemBare ==
  ASSUME NEW status
  PROVE  Good(Type(MT_SYSTEM, status, <<System>>), MT_SYSTEM, status, Reserved)
<1>1. System ++ <<>> = System
  BY Alone DEF System
<1> QED  BY <1>1, SystemClass, Empty, Zenon

\* The same for MIDI 1.0 channel voice messages.
LEMMA M1cvmClass ==
  ASSUME NEW status, NEW t, Own(t, 16, Reserved)
  PROVE  Good(Type(MT_M1CVM, status, <<Channel ++ t>>), MT_M1CVM, status, Reserved)
BY OneWord, ChannelHead, Sizes DEF Reserved

\* The same for MIDI 2.0 channel voice messages.
LEMMA M2cvmClass ==
  ASSUME NEW status, NEW t, NEW w2,
         Own(t, 16, Reserved) /\ Own(w2, 32, Reserved) /\ NoCommon(w2, t)
  PROVE  Good(Type(MT_M2CVM, status, <<Channel ++ t, w2>>), MT_M2CVM, status, Reserved)
BY TwoWords, ChannelHead, Sizes DEF Reserved

\* So is one whose first word adds no field.
LEMMA M2cvmBare ==
  ASSUME NEW status, NEW w2, Own(w2, 32, Reserved)
  PROVE  Good(Type(MT_M2CVM, status, <<Channel, w2>>), MT_M2CVM, status, Reserved)
<1>1. Channel ++ <<>> = Channel
  BY Alone DEF Channel
<1>2. NoCommon(w2, <<>>)
  BY DEF NoCommon
<1> QED  BY <1>1, <1>2, M2cvmClass, Empty, Zenon

\* The same for mixed data sets.
LEMMA MdsClass ==
  ASSUME NEW status, NEW t, NEW w2, NEW w3, NEW w4, Owned(t, w2, w3, w4, 16, Reserved)
  PROVE  Good(Type(MT_DATA128, status, <<Mds ++ t, w2, w3, w4>>), MT_DATA128, status,
              Reserved)
BY FourWords, MdsHead, Sizes DEF Reserved

\* The same for stream messages.
LEMMA StreamClass ==
  ASSUME NEW status, NEW t, NEW w2, NEW w3, NEW w4, Owned(t, w2, w3, w4, 16, Reserved)
  PROVE  Good(Type(MT_STREAM, status, <<Stream ++ t, w2, w3, w4>>), MT_STREAM, status,
              Reserved)
BY FourWords, StreamHead, Sizes DEF Reserved

\* So is a stream message whose first word adds no field.
LEMMA StreamBare ==
  ASSUME NEW status, NEW w2, NEW w3, NEW w4, Owned(<<>>, w2, w3, w4, 16, Reserved)
  PROVE  Good(Type(MT_STREAM, status, <<Stream, w2, w3, w4>>), MT_STREAM, status,
              Reserved)
<1>1. Stream ++ <<>> = Stream
  BY Alone DEF Stream
<1> QED  BY <1>1, StreamClass, Zenon

\* So is a flex data message, whose first word adds no field.
LEMMA FlexBare ==
  ASSUME NEW status, NEW w2, NEW w3, NEW w4, Owned(<<>>, w2, w3, w4, 0, Reserved)
  PROVE  Good(Type(MT_FLEX, status, <<Flex, w2, w3, w4>>), MT_FLEX, status, Reserved)
<1>1. Flex ++ <<>> = Flex
  BY Alone DEF Flex
<1>2. Good(Type(MT_FLEX, status, <<Flex ++ <<>>, w2, w3, w4>>), MT_FLEX, status, Reserved)
  BY FourWords, FlexHead, Sizes DEF Reserved
<1> QED  BY <1>1, <1>2, Zenon

\* The utility messages, class by class.
LEMMA UtilityClasses ==
  /\ Good(utility_noop, MT_UTILITY, 0, Reserved)
  /\ Good(utility_jr_clock, MT_UTILITY, 1, Reserved)
  /\ Good(utility_jr_timestamp, MT_UTILITY, 2, Reserved)
  /\ Good(utility_delta_clockstamp_tpqn, MT_UTILITY, 3, Reserved)
  /\ Good(utility_delta_clockstamp, MT_UTILITY, 4, Reserved)
<1>1. Good(utility_noop, MT_UTILITY, 0, Reserved)
  BY UtilityBare DEF utility_noop
<1>2. Good(utility_jr_clock, MT_UTILITY, 1, Reserved)
  <2> DEFINE t == [sender_clock_time |-> <<0, 16>>]
  <2>1. Own(t, 20, Reserved)
    BY DEF Own, Within, Apart, Reserved, HeadNames
  <2> QED  BY <2>1, UtilityClass, Zenon DEF utility_jr_clock
<1>3. Good(utility_jr_timestamp, MT_UTILITY, 2, Reserved)
  <2> DEFINE t == [timestamp |-> <<0, 16>>]
  <2>1. Own(t, 20, Reserved)
    BY DEF Own, Within, Apart, Reserved, HeadNames
  <2> QED  BY <2>1, UtilityClass, Zenon DEF utility_jr_timestamp
<1>4. Good(utility_delta_clockstamp_tpqn, MT_UTILITY, 3, Reserved)
  <2> DEFINE t == [ticks_pqn |-> <<0, 16>>]
  <2>1. Own(t, 20, Reserved)
    BY DEF Own, Within, Apart, Reserved, HeadNames
  <2> QED  BY <2>1, UtilityClass, Zenon DEF utility_delta_clockstamp_tpqn
<1>5. Good(utility_delta_clockstamp, MT_UTILITY, 4, Reserved)
  <2> DEFINE t == [num_ticks |-> <<0, 20>>]
  <2>1. Own(t, 20, Reserved)
    BY DEF Own, Within, Apart, Reserved, HeadNames
  <2> QED  BY <2>1, UtilityClass, Zenon DEF utility_delta_clockstamp
<1> QED
  BY <1>1, <1>2, <1>3, <1>4, <1>5

\* The system messages, class by class.
LEMMA SystemClasses ==
  /\ Good(system_midi_time_code, MT_SYSTEM, 241, Reserved)
  /\ Good(system_song_position_pointer, MT_SYSTEM, 242, Reserved)
  /\ Good(system_song_select, MT_SYSTEM, 243, Reserved)
  /\ Good(system_tune_request, MT_SYSTEM, 246, Reserved)
  /\ Good(system_timing_clock, MT_SYSTEM, 248, Reserved)
  /\ Good(system_sequence_start, MT_SYSTEM, 250, Reserved)
  /\ Good(system_sequence_continue, MT_SYSTEM, 251, Reserved)
  /\ Good(system_sequence_stop, MT_SYSTEM, 252, Reserved)
  /\ Good(system_active_sensing, MT_SYSTEM, 254, Reserved)
  /\ Good(system_reset, MT_SYSTEM, 255, Reserved)
<1>1. Good(system_midi_time_code, MT_SYSTEM, 241, Reserved)
  <2> DEFINE t == [time_code |-> <<8, 7>>]
  <2>1. Own(t, 16, Reserved)
    BY DEF Own, Within, Apart, Reserved, HeadNames
  <2> QED  BY <2>1, SystemClass, Zenon DEF system_midi_time_code
<1>2. Good(system_song_position_pointer, MT_SYSTEM, 242, Reserved)
  <2> DEFINE t == [position_lsb |-> <<8, 7>>, position_msb |-> <<0, 7>>]
  <2>1. Own(t, 16, Reserved)
    BY DEF Own, Within, Apart, Reserved, HeadNames
  <2> QED  BY <2>1, SystemClass, Zenon DEF system_song_position_pointer
<1>3. Good(system_song_select, MT_SYSTEM, 243, Reserved)
  <2> DEFINE t == [song |-> <<8, 7>>]
  <2>1. Own(t, 16, Reserved)
    BY DEF Own, Within, Apart, Reserved, HeadNames
  <2> QED  BY <2>1, SystemClass, Zenon DEF system_song_select
<1>4. Good(system_tune_request, MT_SYSTEM, 246, Reserved)
  BY SystemBare DEF system_tune_request
<1>5. Good(system_timing_clock, MT_SYSTEM, 248, Reserved)
  BY SystemBare DEF system_timing_clock
<1>6. Good(system_sequence_start, MT_SYSTEM, 250, Reserved)
  BY SystemBare DEF system_sequence_start
<1>7. Good(system_sequence_continue, MT_SYSTEM, 251, Reserved)
  BY SystemBare DEF system_sequence_continue
<1>8. Good(system_sequence_stop, MT_SYSTEM, 252, Reserved)
  BY SystemBare DEF system_sequence_stop
<1>9. Good(system_active_sensing, MT_SYSTEM, 254, Reserved)
  BY SystemBare DEF system_active_sensing
<1>10. Good(system_reset, MT_SYSTEM, 255, Reserved)
  BY SystemBare DEF system_reset
<1> QED
  BY <1>1, <1>2, <1>3, <1>4, <1>5, <1>6, <1>7, <1>8, <1>9, <1>10

\* The MIDI 1.0 channel voice messages, class by class.
LEMMA M1cvmClasses ==
  /\ Good(m1cvm_note_on, MT_M1CVM, 9, Reserved)
  /\ Good(m1cvm_note_off, MT_M1CVM, 8, Reserved)
  /\ Good(m1cvm_poly_pressure, MT_M1CVM, 10, Reserved)
  /\ Good(m1cvm_control_change, MT_M1CVM, 11, Reserved)
  /\ Good(m1cvm_program_change, MT_M1CVM, 12, Reserved)
  /\ Good(m1cvm_channel_pressure, MT_M1CVM, 13, Reserved)
  /\ Good(m1cvm_pitch_bend, MT_M1CVM, 14, Reserved)
<1>1. Good(m1cvm_note_on, MT_M1CVM, 9, Reserved)
  <2> DEFINE t == [note |-> <<8, 7>>, velocity |-> <<0, 7>>]
  <2>1. Own(t, 16, Reserved)
    BY DEF Own, Within, Apart, Reserved, HeadNames
  <2> QED  BY <2>1, M1cvmClass, Zenon DEF m1cvm_note_on
<1>2. Good(m1cvm_note_off, MT_M1CVM, 8, Reserved)
  <2> DEFINE t == [note |-> <<8, 7>>, velocity |-> <<0, 7>>]
  <2>1. Own(t, 16, Reserved)
    BY DEF Own, Within, Apart, Reserved, HeadNames
  <2> QED  BY <2>1, M1cvmClass, Zenon DEF m1cvm_note_off
<1>3. Good(m1cvm_poly_pressure, MT_M1CVM, 10, Reserved)
  <2> DEFINE t == [note |-> <<8, 7>>, pressure |-> <<0, 7>>]
  <2>1. Own(t, 16, Reserved)
    BY DEF Own, Within, Apart, Reserved, HeadNames
  <2> QED  BY <2>1, M1cvmClass, Zenon DEF m1cvm_poly_pressure
<1>4. Good(m1cvm_control_change, MT_M1CVM, 11, Reserved)
  <2> DEFINE t == [controller |-> <<8, 7>>, value |-> <<0, 7>>]
  <2>1. Own(t, 16, Reserved)
    BY DEF Own, Within, Apart, Reserved, HeadNames
  <2> QED  BY <2>1, M1cvmClass, Zenon DEF m1cvm_control_change
<1>5. Good(m1cvm_program_change, MT_M1CVM, 12, Reserved)
  <2> DEFINE t == [program |-> <<8, 7>>]
  <2>1. Own(t, 16, Reserved)
    BY DEF Own, Within, Apart, Reserved, HeadNames
  <2> QED  BY <2>1, M1cvmClass, Zenon DEF m1cvm_program_change
<1>6. Good(m1cvm_channel_pressure, MT_M1CVM, 13, Reserved)
  <2> DEFINE t == [data |-> <<8, 7>>]
  <2>1. Own(t, 16, Reserved)
    BY DEF Own, Within, Apart, Reserved, HeadNames
  <2> QED  BY <2>1, M1cvmClass, Zenon DEF m1cvm_channel_pressure
<1>7. Good(m1cvm_pitch_bend, MT_M1CVM, 14, Reserved)
  <2> DEFINE t == [lsb_data |-> <<8, 7>>, msb_data |-> <<0, 7>>]
  <2>1. Own(t, 16, Reserved)
    BY DEF Own, Within, Apart, Reserved, HeadNames
  <2> QED  BY <2>1, M1cvmClass, Zenon DEF m1cvm_pitch_bend
<1> QED
  BY <1>1, <1>2, <1>3, <1>4, <1>5, <1>6, <1>7

\* The MIDI 2.0 channel voice messages, class by class.
LEMMA M2cvmClasses ==
  /\ Good(m2cvm_note_off, MT_M2CVM, 8, Reserved)
  /\ Good(m2cvm_note_on, MT_M2CVM, 9, Reserved)
  /\ Good(m2cvm_poly_pressure, MT_M2CVM, 10, Reserved)
  /\ Good(m2cvm_rpn_per_note_controller, MT_M2CVM, 0, Reserved)
  /\ Good(m2cvm_nrpn_per_note_controller, MT_M2CVM, 1, Reserved)
  /\ Good(m2cvm_rpn_controller, MT_M2CVM, 2, Reserved)
  /\ Good(m2cvm_nrpn_controller, MT_M2CVM, 3, Reserved)
  /\ Good(m2cvm_rpn_relative_controller, MT_M2CVM, 4, Reserved)
  /\ Good(m2cvm_nrpn_relative_controller, MT_M2CVM, 5, Reserved)
  /\ Good(m2cvm_per_note_management, MT_M2CVM, 15, Reserved)
  /\ Good(m2cvm_control_change, MT_M2CVM, 11, Reserved)
  /\ Good(m2cvm_program_change, MT_M2CVM, 12, Reserved)
  /\ Good(m2cvm_channel_pressure, MT_M2CVM, 13, Reserved)
  /\ Good(m2cvm_pitch_bend, MT_M2CVM, 14, Reserved)
  /\ Good(m2cvm_per_note_pitch_bend, MT_M2CVM, 6, Reserved)
<1>1. Good(m2cvm_note_off, MT_M2CVM, 8, Reserved)
  <2> DEFINE t  == [note |-> <<8, 7>>, attribute_type |-> <<0, 8>>]
             w2 == [velocity |-> <<16, 16>>, attribute |-> <<0, 16>>]
  <2>1. Own(t, 16, Reserved) /\ Own(w2, 32, Reserved) /\ NoCommon(w2, t)
    BY DEF Own, Within, Apart, Reserved, HeadNames, NoCommon
  <2> QED  BY <2>1, M2cvmClass, Zenon DEF m2cvm_note_off
<1>2. Good(m2cvm_note_on, MT_M2CVM, 9, Reserved)
  <2> DEFINE t  == [note |-> <<8, 7>>, attribute_type |-> <<0, 8>>]
             w2 == [velocity |-> <<16, 16>>, attribute |-> <<0, 16>>]
  <2>1. Own(t, 16, Reserved) /\ Own(w2, 32, Reserved) /\ NoCommon(w2, t)
    BY DEF Own, Within, Apart, Reserved, HeadNames, NoCommon
  <2> QED  BY <2>1, M2cvmClass, Zenon DEF m2cvm_note_on
<1>3. Good(m2cvm_poly_pressure, MT_M2CVM, 10, Reserved)
  <2> DEFINE t  == [note |-> <<8, 7>>]
             w2 == [pressure |-> <<0, 32>>]
  <2>1. Own(t, 16, Reserved) /\ Own(w2, 32, Reserved) /\ NoCommon(w2, t)
    BY DEF Own, Within, Apart, Reserved, HeadNames, NoCommon
  <2> QED  BY <2>1, M2cvmClass, Zenon DEF m2cvm_poly_pressure
<1>4. Good(m2cvm_rpn_per_note_controller, MT_M2CVM, 0, Reserved)
  <2> DEFINE t  == [reserved |-> <<15, 1>>, note |-> <<8, 7>>, index |-> <<0, 8>>]
             w2 == Value
  <2>1. Own(t, 16, Reserved) /\ Own(w2, 32, Reserved) /\ NoCommon(w2, t)
    BY DEF Own, Within, Apart, Reserved, HeadNames, NoCommon, Value
  <2> QED  BY <2>1, M2cvmClass, Zenon DEF m2cvm_rpn_per_note_controller
<1>5. Good(m2cvm_nrpn_per_note_controller, MT_M2CVM, 1, Reserved)
  <2> DEFINE t  == [reserved |-> <<15, 1>>, note |-> <<8, 7>>, index |-> <<0, 8>>]
             w2 == Value
  <2>1. Own(t, 16, Reserved) /\ Own(w2, 32, Reserved) /\ NoCommon(w2, t)
    BY DEF Own, Within, Apart, Reserved, HeadNames, NoCommon, Value
  <2> QED  BY <2>1, M2cvmClass, Zenon DEF m2cvm_nrpn_per_note_controller
<1>6. Good(m2cvm_rpn_controller, MT_M2CVM, 2, Reserved)
  <2> DEFINE t  == Parameter
             w2 == Value
  <2>1. Own(t, 16, Reserved) /\ Own(w2, 32, Reserved) /\ NoCommon(w2, t)
    BY DEF Own, Within, Apart, Reserved, HeadNames, NoCommon, Parameter, Value
  <2> QED  BY <2>1, M2cvmClass, Zenon DEF m2cvm_rpn_controller
<1>7. Good(m2cvm_nrpn_controller, MT_M2CVM, 3, Reserved)
  <2> DEFINE t  == Parameter
             w2 == Value
  <2>1. Own(t, 16, Reserved) /\ Own(w2, 32, Reserved) /\ NoCommon(w2, t)
    BY DEF Own, Within, Apart, Reserved, HeadNames, NoCommon, Parameter, Value
  <2> QED  BY <2>1, M2cvmClass, Zenon DEF m2cvm_nrpn_controller
<1>8. Good(m2cvm_rpn_relative_controller, MT_M2CVM, 4, Reserved)
  <2> DEFINE t  == Parameter
             w2 == Value
  <2>1. Own(t, 16, Reserved) /\ Own(w2, 32, Reserved) /\ NoCommon(w2, t)
    BY DEF Own, Within, Apart, Reserved, HeadNames, NoCommon, Parameter, Value
  <2> QED  BY <2>1, M2cvmClass, Zenon DEF m2cvm_rpn_relative_controller
<1>9. Good(m2cvm_nrpn_relative_controller, MT_M2CVM, 5, Reserved)
  <2> DEFINE t  == [reserved0 |-> <<15, 1>>, bank |-> <<8, 7>>, reserved1 |-> <<7, 1>>,
                    index |-> <<0, 7>>]
             w2 == Value
  <2>1. Own(t, 16, Reserved) /\ Own(w2, 32, Reserved) /\ NoCommon(w2, t)
    BY DEF Own, Within, Apart, Reserved, HeadNames, NoCommon, Value
  <2> QED  BY <2>1, M2cvmClass, Zenon DEF m2cvm_nrpn_relative_controller
<1>10. Good(m2cvm_per_note_management, MT_M2CVM, 15, Reserved)
  <2> DEFINE t  == [reserved |-> <<15, 1>>, note |-> <<8, 7>>,
                    option_flags |-> <<0, 1>>, detach |-> <<1, 1>>,
                    set_to_default |-> <<0, 1>>]
             w2 == Value
  <2>1. Own(t, 16, Reserved) /\ Own(w2, 32, Reserved) /\ NoCommon(w2, t)
    BY DEF Own, Within, Apart, Reserved, HeadNames, NoCommon, Aliases, Value
  <2> QED  BY <2>1, M2cvmClass, Zenon DEF m2cvm_per_note_management
<1>11. Good(m2cvm_control_change, MT_M2CVM, 11, Reserved)
  <2> DEFINE t  == [controller |-> <<8, 7>>]
             w2 == Value
  <2>1. Own(t, 16, Reserved) /\ Own(w2, 32, Reserved) /\ NoCommon(w2, t)
    BY DEF Own, Within, Apart, Reserved, HeadNames, NoCommon, Value
  <2> QED  BY <2>1, M2cvmClass, Zenon DEF m2cvm_control_change
<1>12. Good(m2cvm_program_change, MT_M2CVM, 12, Reserved)
  <2> DEFINE t  == [option_flags |-> <<1, 7>>, bank_valid |-> <<0, 1>>]
             w2 == [program |-> <<24, 8>>, bank_msb |-> <<8, 7>>, bank_lsb |-> <<0, 7>>]
  <2>1. Own(t, 16, Reserved) /\ Own(w2, 32, Reserved) /\ NoCommon(w2, t)
    BY DEF Own, Within, Apart, Reserved, HeadNames, NoCommon
  <2> QED  BY <2>1, M2cvmClass, Zenon DEF m2cvm_program_change
<1>13. Good(m2cvm_channel_pressure, MT_M2CVM, 13, Reserved)
  <2> DEFINE w2 == Value
  <2>1. Own(w2, 32, Reserved)
    BY DEF Own, Within, Apart, Reserved, HeadNames, NoCommon, Value
  <2> QED  BY <2>1, M2cvmBare, Zenon DEF m2cvm_channel_pressure
<1>14. Good(m2cvm_pitch_bend, MT_M2CVM, 14, Reserved)
  <2> DEFINE w2 == Value
  <2>1. Own(w2, 32, Reserved)
    BY DEF Own, Within, Apart, Reserved, HeadNames, NoCommon, Value
  <2> QED  BY <2>1, M2cvmBare, Zenon DEF m2cvm_pitch_bend
<1>15. Good(m2cvm_per_note_pitch_bend, MT_M2CVM, 6, Reserved)
  <2> DEFINE t  == [note |-> <<8, 7>>]
             w2 == Value
  <2>1. Own(t, 16, Reserved) /\ Own(w2, 32, Reserved) /\ NoCommon(w2, t)
    BY DEF Own, Within, Apart, Reserved, HeadNames, NoCommon, Value
  <2> QED  BY <2>1, M2cvmClass, Zenon DEF m2cvm_per_note_pitch_bend
<1> QED
  BY <1>1, <1>2, <1>3, <1>4, <1>5, <1>6, <1>7, <1>8, <1>9, <1>10, <1>11, <1>12, <1>13,
     <1>14, <1>15

\* The mixed data sets.
LEMMA MdsClasses ==
  /\ Good(data128_mds_header, MT_DATA128, 8, Reserved)
  /\ Good(data128_mds_payload, MT_DATA128, 9, Reserved)
<1>1. Good(data128_mds_header, MT_DATA128, 8, Reserved)
  <2> DEFINE t  == [bytes_in_chunk |-> <<0, 16>>]
             w2 == [chunks_in_mds |-> <<16, 16>>, chunk_num |-> <<0, 16>>]
             w3 == [manufacturer_id |-> <<16, 16>>, device_id |-> <<0, 16>>]
             w4 == [sub_id_1 |-> <<16, 16>>, sub_id_2 |-> <<0, 16>>]
  <2>1. Owned(t, w2, w3, w4, 16, Reserved)
    BY DEF Owned, Own, Within, Apart, Reserved, HeadNames, NoCommon
  <2> QED  BY <2>1, MdsClass, Zenon DEF data128_mds_header
<1>2. Good(data128_mds_payload, MT_DATA128, 9, Reserved)
  <2> DEFINE t  == [value0 |-> <<0, 16>>]
             w2 == [value1 |-> <<0, 32>>]
             w3 == [value2 |-> <<0, 32>>]
             w4 == [value3 |-> <<0, 32>>]
  <2>1. Owned(t, w2, w3, w4, 16, Reserved)
    BY DEF Owned, Own, Within, Apart, Reserved, HeadNames, NoCommon
  <2> QED  BY <2>1, MdsClass, Zenon DEF data128_mds_payload
<1> QED
  BY <1>1, <1>2

\* The stream messages, class by class.
LEMMA StreamClasses ==
  /\ Good(stream_endpoint_discovery, MT_STREAM, 0, Reserved)
  /\ Good(stream_endpoint_info_notification, MT_STREAM, 1, Reserved)
  /\ Good(stream_device_identity_notification, MT_STREAM, 2, Reserved)
  /\ Good(stream_endpoint_name_notification, MT_STREAM, 3, Reserved)
  /\ Good(stream_product_instance_id_notification, MT_STREAM, 4, Reserved)
  /\ Good(stream_jr_configuration_request, MT_STREAM, 5, Reserved)
  /\ Good(stream_jr_configuration_notification, MT_STREAM, 6, Reserved)
  /\ Good(stream_function_block_discovery, MT_STREAM, 16, Reserved)
  /\ Good(stream_function_block_info_notification, MT_STREAM, 17, Reserved)
  /\ Good(stream_function_block_name_notification, MT_STREAM, 18, Reserved)
  /\ Good(stream_start_of_clip, MT_STREAM, 32, Reserved)
  /\ Good(stream_end_of_clip, MT_STREAM, 33, Reserved)
<1>1. Good(stream_endpoint_discovery, MT_STREAM, 0, Reserved)
  <2> DEFINE t  == [version_major |-> <<8, 8>>, version_minor |-> <<0, 8>>]
             w2 == [filter |-> <<0, 8>>]
             w3 == [value2 |-> <<0, 32>>]
             w4 == [value3 |-> <<0, 32>>]
  <2>1. Owned(t, w2, w3, w4, 16, Reserved)
    BY DEF Owned, Own, Within, Apart, Reserved, HeadNames, NoCommon
  <2> QED  BY <2>1, StreamClass, Zenon DEF stream_endpoint_discovery
<1>2. Good(stream_endpoint_info_notification, MT_STREAM, 1, Reserved)
  <2> DEFINE t  == [version_major |-> <<8, 8>>, version_minor |-> <<0, 8>>]
             w2 == [static_function_blocks |-> <<31, 1>>,
                    number_function_blocks |-> <<24, 7>>,
                    midi2_protocol_capability |-> <<9, 1>>,
                    midi1_protocol_capability |-> <<8, 1>>,
                    receive_jr_timestamp_capability |-> <<1, 1>>,
                    transmit_jr_timestamp_capability |-> <<0, 1>>]
             w3 == [value2 |-> <<0, 32>>]
             w4 == [value3 |-> <<0, 32>>]
  <2>1. Owned(t, w2, w3, w4, 16, Reserved)
    BY DEF Owned, Own, Within, Apart, Reserved, HeadNames, NoCommon
  <2> QED  BY <2>1, StreamClass, Zenon DEF stream_endpoint_info_notification
<1>3. Good(stream_device_identity_notification, MT_STREAM, 2, Reserved)
  <2> DEFINE w2 == [dev_manuf_sysex_id_1 |-> <<16, 7>>,
                    dev_manuf_sysex_id_2 |-> <<8, 7>>,
                    dev_manuf_sysex_id_3 |-> <<0, 7>>]
             w3 == [device_family_lsb |-> <<24, 7>>, device_family_msb |-> <<16, 7>>,
                    device_family_model_lsb |-> <<8, 7>>,
                    device_family_model_msb |-> <<0, 7>>]
             w4 == [sw_revision_1 |-> <<24, 7>>, sw_revision_2 |-> <<16, 7>>,
                    sw_revision_3 |-> <<8, 7>>, sw_revision_4 |-> <<0, 7>>]
  <2>1. Owned(<<>>, w2, w3, w4, 16, Reserved)
    BY DEF Owned, Own, Within, Apart, Reserved, HeadNames, NoCommon
  <2> QED  BY <2>1, StreamBare, Zenon DEF stream_device_identity_notification
<1>4. Good(stream_endpoint_name_notification, MT_STREAM, 3, Reserved)
  <2> DEFINE t  == [name1 |-> <<8, 8>>, name2 |-> <<0, 8>>]
             w2 == [name3 |-> <<24, 8>>, name4 |-> <<16, 8>>, name5 |-> <<8, 8>>,
                    name6 |-> <<0, 8>>]
             w3 == [name7 |-> <<24, 8>>, name8 |-> <<16, 8>>, name9 |-> <<8, 8>>,
                    name10 |-> <<0, 8>>]
             w4 == [name11 |-> <<24, 8>>, name12 |-> <<16, 8>>, name13 |-> <<8, 8>>,
                    name14 |-> <<0, 8>>]
  <2>1. Owned(t, w2, w3, w4, 16, Reserved)
    BY DEF Owned, Own, Within, Apart, Reserved, HeadNames, NoCommon
  <2> QED  BY <2>1, StreamClass, Zenon DEF stream_endpoint_name_notification
<1>5. Good(stream_product_instance_id_notification, MT_STREAM, 4, Reserved)
  <2> DEFINE t  == [pid1 |-> <<8, 8>>, pid2 |-> <<0, 8>>]
             w2 == [pid3 |-> <<24, 8>>, pid4 |-> <<16, 8>>, pid5 |-> <<8, 8>>,
                    pid6 |-> <<0, 8>>]
             w3 == [pid7 |-> <<24, 8>>, pid8 |-> <<16, 8>>, pid9 |-> <<8, 8>>,
                    pid10 |-> <<0, 8>>]
             w4 == [pid11 |-> <<24, 8>>, pid12 |-> <<16, 8>>, pid13 |-> <<8, 8>>,
                    pid14 |-> <<0, 8>>]
  <2>1. Owned(t, w2, w3, w4, 16, Reserved)
    BY DEF Owned, Own, Within, Apart, Reserved, HeadNames, NoCommon
  <2> QED  BY <2>1, StreamClass, Zenon DEF stream_product_instance_id_notification
<1>6. Good(stream_jr_configuration_request, MT_STREAM, 5, Reserved)
  <2> DEFINE t  == [protocol |-> <<8, 8>>, rxjr |-> <<1, 1>>, txjr |-> <<0, 1>>]
             w2 == [value1 |-> <<0, 32>>]
             w3 == [value2 |-> <<0, 32>>]
             w4 == [value3 |-> <<0, 32>>]
  <2>1. Owned(t, w2, w3, w4, 16, Reserved)
    BY DEF Owned, Own, Within, Apart, Reserved, HeadNames, NoCommon
  <2> QED  BY <2>1, StreamClass, Zenon DEF stream_jr_configuration_request
<1>7. Good(stream_jr_configuration_notification, MT_STREAM, 6, Reserved)
  <2> DEFINE t  == [protocol |-> <<8, 8>>, rxjr |-> <<1, 1>>, txjr |-> <<0, 1>>]
             w2 == [value1 |-> <<0, 32>>]
             w3 == [value2 |-> <<0, 32>>]
             w4 == [value3 |-> <<0, 32>>]
  <2>1. Owned(t, w2, w3, w4, 16, Reserved)
    BY DEF Owned, Own, Within, Apart, Reserved, HeadNames, NoCommon
  <2> QED  BY <2>1, StreamClass, Zenon DEF stream_jr_configuration_notification
<1>8. Good(stream_function_block_discovery, MT_STREAM, 16, Reserved)
  <2> DEFINE t  == [block_num |-> <<8, 8>>, filter |-> <<0, 8>>]
             w2 == [value1 |-> <<0, 32>>]
             w3 == [value2 |-> <<0, 32>>]
             w4 == [value3 |-> <<0, 32>>]
  <2>1. Owned(t, w2, w3, w4, 16, Reserved)
    BY DEF Owned, Own, Within, Apart, Reserved, HeadNames, NoCommon
  <2> QED  BY <2>1, StreamClass, Zenon DEF stream_function_block_discovery
<1>9. Good(stream_function_block_info_notification, MT_STREAM, 17, Reserved)
  <2> DEFINE t  == [block_active |-> <<15, 1>>, block_num |-> <<8, 7>>,
                    ui_hint |-> <<4, 2>>, midi1 |-> <<2, 2>>, direction |-> <<0, 2>>]
             w2 == [first_group |-> <<24, 8>>, num_spanned |-> <<16, 8>>,
                    ci_message_version |-> <<8, 8>>, max_sys8_streams |-> <<0, 8>>]
             w3 == [value2 |-> <<0, 32>>]
             w4 == [value3 |-> <<0, 32>>]
  <2>1. Owned(t, w2, w3, w4, 16, Reserved)
    BY DEF Owned, Own, Within, Apart, Reserved, HeadNames, NoCommon
  <2> QED  BY <2>1, StreamClass, Zenon DEF stream_function_block_info_notification
<1>10. Good(stream_function_block_name_notification, MT_STREAM, 18, Reserved)
  <2> DEFINE t  == [block_num |-> <<8, 8>>, name0 |-> <<0, 8>>]
             w2 == [name1 |-> <<24, 8>>, name2 |-> <<16, 8>>, name3 |-> <<8, 8>>,
                    name4 |-> <<0, 8>>]
             w3 == [name5 |-> <<24, 8>>, name6 |-> <<16, 8>>, name7 |-> <<8, 8>>,
                    name8 |-> <<0, 8>>]
             w4 == [name9 |-> <<24, 8>>, name10 |-> <<16, 8>>, name11 |-> <<8, 8>>,
                    name12 |-> <<0, 8>>]
  <2>1. Owned(t, w2, w3, w4, 16, Reserved)
    BY DEF Owned, Own, Within, Apart, Reserved, HeadNames, NoCommon
  <2> QED  BY <2>1, StreamClass, Zenon DEF stream_function_block_name_notification
<1>11. Good(stream_start_of_clip, MT_STREAM, 32, Reserved)
  <2> DEFINE w2 == [value1 |-> <<0, 32>>]
             w3 == [value2 |-> <<0, 32>>]
             w4 == [value3 |-> <<0, 32>>]
  <2>1. Owned(<<>>, w2, w3, w4, 16, Reserved)
    BY DEF Owned, Own, Within, Apart, Reserved, HeadNames, NoCommon
  <2> QED  BY <2>1, StreamBare, Zenon DEF stream_start_of_clip
<1>12. Good(stream_end_of_clip, MT_STREAM, 33, Reserved)
  <2> DEFINE w2 == [value1 |-> <<0, 32>>]
             w3 == [value2 |-> <<0, 32>>]
             w4 == [value3 |-> <<0, 32>>]
  <2>1. Owned(<<>>, w2, w3, w4, 16, Reserved)
    BY DEF Owned, Own, Within, Apart, Reserved, HeadNames, NoCommon
  <2> QED  BY <2>1, StreamBare, Zenon DEF stream_end_of_clip
<1> QED
  BY <1>1, <1>2, <1>3, <1>4, <1>5, <1>6, <1>7, <1>8, <1>9, <1>10, <1>11, <1>12

\* The flex data messages with fields of their own.
LEMMA FlexClasses ==
  /\ Good(flex_set_tempo, MT_FLEX, 0, Reserved)
  /\ Good(flex_set_time_signature, MT_FLEX, 1, Reserved)
  /\ Good(flex_set_metronome, MT_FLEX, 2, Reserved)
  /\ Good(flex_set_key_signature, MT_FLEX, 5, Reserved)
<1>1. Good(flex_set_tempo, MT_FLEX, 0, Reserved)
  <2> DEFINE w2 == [value1 |-> <<0, 32>>]
             w3 == [value2 |-> <<0, 32>>]
             w4 == [value3 |-> <<0, 32>>]
  <2>1. Owned(<<>>, w2, w3, w4, 0, Reserved)
    BY DEF Owned, Own, Within, Apart, Reserved, HeadNames, NoCommon
  <2> QED  BY <2>1, FlexBare, Zenon DEF flex_set_tempo
<1>2. Good(flex_set_time_signature, MT_FLEX, 1, Reserved)
  <2> DEFINE w2 == [numerator |-> <<24, 8>>, denominator |-> <<16, 8>>,
                    number_of_32_notes |-> <<8, 8>>]
             w3 == [value2 |-> <<0, 32>>]
             w4 == [value3 |-> <<0, 32>>]
  <2>1. Owned(<<>>, w2, w3, w4, 0, Reserved)
    BY DEF Owned, Own, Within, Apart, Reserved, HeadNames, NoCommon
  <2> QED  BY <2>1, FlexBare, Zenon DEF flex_set_time_signature
<1>3. Good(flex_set_metronome, MT_FLEX, 2, Reserved)
  <2> DEFINE w2 == [num_clocks_per_primary_click |-> <<24, 8>>,
                    bar_accent_part_1 |-> <<16, 8>>, bar_accent_part_2 |-> <<8, 8>>,
                    bar_accent_part_3 |-> <<0, 8>>]
             w3 == [num_subdivision_clicks_1 |-> <<24, 8>>,
                    num_subdivision_clicks_2 |-> <<16, 8>>]
             w4 == [value3 |-> <<0, 32>>]
  <2>1. Owned(<<>>, w2, w3, w4, 0, Reserved)
    BY DEF Owned, Own, Within, Apart, Reserved, HeadNames, NoCommon
  <2> QED  BY <2>1, FlexBare, Zenon DEF flex_set_metronome
<1>4. Good(flex_set_key_signature, MT_FLEX, 5, Reserved)
  <2> DEFINE w2 == [sharps_flats |-> <<28, 4>>, tonic_note |-> <<24, 4>>]
             w3 == [value2 |-> <<0, 32>>]
             w4 == [value3 |-> <<0, 32>>]
  <2>1. Owned(<<>>, w2, w3, w4, 0, Reserved)
    BY DEF Owned, Own, Within, Apart, Reserved, HeadNames, NoCommon
  <2> QED  BY <2>1, FlexBare, Zenon DEF flex_set_key_signature
<1> QED
  BY <1>1, <1>2, <1>3, <1>4

\* Which fields have no setter does not matter to the layout.
LEMMA Refixed ==
  ASSUME NEW mt, NEW status, NEW ws, NEW fixed, NEW names,
         Good(Type(mt, status, ws), mt, status, names), {"mt", "status"} \subseteq fixed
  PROVE  Good([Type(mt, status, ws) EXCEPT !.fixed = fixed], mt, status, names)
<1> DEFINE c == Type(mt, status, ws)
           d == [Type(mt, status, ws) EXCEPT !.fixed = fixed]
<1>1. /\ d.mt = c.mt /\ d.status = c.status /\ d.words = c.words /\ d.fixed = fixed
      /\ DOMAIN d = DOMAIN c
  BY DEF Type
<1>2. Good(c, mt, status, names)
  OBVIOUS
<1> HIDE DEF c, d
<1>3. Fields(d) = Fields(c)
  BY <1>1 DEF Fields
<1>4. Layout(d)
  BY <1>1, <1>2, <1>3 DEF Good, Layout
<1>5. Good(d, mt, status, names)
  BY <1>1, <1>2, <1>3, <1>4 DEF Good
<1> QED  BY <1>5 DEF d

\* The chord name, whose form and status bank have no setter either.
LEMMA ChordClass == Good(flex_set_chord_name, MT_FLEX, 6, Reserved)
<1> DEFINE w2 == [tonic_sharps_flats |-> <<28, 4>>,
        chord_tonic |-> <<24, 4>>, chord_type |-> <<16, 8>>,
        alter_1_type |-> <<12, 4>>, alter_1_degree |-> <<8, 4>>,
        alter_2_type |-> <<4, 4>>, alter_2_degree |-> <<0, 4>>]
           w3 == [alter_3_type |-> <<28, 4>>, alter_3_degree |-> <<24, 4>>,
        alter_4_type |-> <<20, 4>>, alter_4_degree |-> <<16, 4>>]
           w4 == [bass_sharps_flats |-> <<28, 4>>, bass_note |-> <<24, 4>>,
        bass_chord_type |-> <<16, 8>>, bass_alter_1_type |-> <<12, 4>>,
        bass_alter_1_degree |-> <<8, 4>>, bass_alter_2_type |-> <<4, 4>>,
        bass_alter_2_degree |-> <<0, 4>>]
           c == Type(MT_FLEX, 6, <<Flex, w2, w3, w4>>)
<1>1. Owned(<<>>, w2, w3, w4, 0, Reserved)
  BY DEF Owned, Own, Within, Apart, Reserved, HeadNames, NoCommon
<1>2. Good(c, MT_FLEX, 6, Reserved)
  BY <1>1, FlexBare, Zenon
<1>3. flex_set_chord_name = [c EXCEPT !.fixed = {"mt", "status", "form", "status_bank"}]
  BY Zenon DEF flex_set_chord_name
<1>4. {"mt", "status"} \subseteq {"mt", "status", "form", "status_bank"}
  OBVIOUS
<1> HIDE DEF w2, w3, w4
<1> QED  BY <1>2, <1>3, <1>4, Refixed, Zenon

-------------------------------------------------------------------------------
(* The classes that hold bytes.                                                  *)

\* A class with room for n bytes of the width, and a field for their number or not.
Holds(c, n, width, counted) ==
  /\ n \in 1 .. 13
  /\ \A i \in 1 .. n : \E k \in DOMAIN c.words :
       DataFields[i] \in DOMAIN c.words[k] /\ c.words[k][DataFields[i]][2] = width
  /\ \A i \in 1 .. 13 : i > n => DataFields[i] \notin Fields(c)
  /\ "number_of_bytes" \in Fields(c) <=> counted
  /\ counted => /\ "number_of_bytes" \in DOMAIN c.words[1]
                /\ c.words[1]["number_of_bytes"][2] = 4

\* The names of the data fields are distinct and in no head.
LEMMA DataIndex ==
  /\ DOMAIN DataFields = 1 .. 13
  /\ \A i \in 1 .. 13 : \A j \in 1 .. 13 : DataFields[i] = DataFields[j] => i = j
  /\ \A i \in 1 .. 13 : DataFields[i] \notin HeadNames
  /\ DataFields[1] = "data0" /\ DataFields[2] = "data1" /\ DataFields[3] = "data2"
  /\ DataFields[4] = "data3" /\ DataFields[5] = "data4" /\ DataFields[6] = "data5"
  /\ DataFields[7] = "data6" /\ DataFields[8] = "data7" /\ DataFields[9] = "data8"
  /\ DataFields[10] = "data9" /\ DataFields[11] = "data10" /\ DataFields[12] = "data11"
  /\ DataFields[13] = "data12"
BY DEF DataFields, HeadNames

\* The fields of a class of four words.
LEMMA FieldsOfFour ==
  ASSUME NEW c, NEW w1, NEW w2, NEW w3, NEW w4, c.words = <<w1, w2, w3, w4>>
  PROVE  Fields(c) = DOMAIN w1 \union DOMAIN w2 \union DOMAIN w3 \union DOMAIN w4
<1>1. \A x : x \in Fields(c) <=> \E i \in 1 .. 4 : x \in DOMAIN c.words[i]
  BY DEF Fields
<1>2. \A i \in 1 .. 4 : i = 1 \/ i = 2 \/ i = 3 \/ i = 4
  OBVIOUS
<1>3. \A x : x \in Fields(c) <=> \/ x \in DOMAIN w1 \/ x \in DOMAIN w2
                              \/ x \in DOMAIN w3 \/ x \in DOMAIN w4
  BY <1>1, <1>2
<1> QED  BY <1>3

\* The words of a class and the fields without a setter.
LEMMA WordsOfType ==
  ASSUME NEW mt, NEW status, NEW ws
  PROVE  /\ Type(mt, status, ws).words = ws
         /\ Type(mt, status, ws).fixed = {"mt", "status"}
BY DEF Type

\* Seven-bit system exclusive messages hold six bytes and their number.
LEMMA Sysex7Class ==
  ASSUME NEW status
  PROVE  /\ Good(data64_sysex7(status), MT_DATA64, status, HeadNames)
         /\ Holds(data64_sysex7(status), 6, 7, TRUE)
         /\ data64_sysex7(status).fixed = {"mt", "status"}
<1> DEFINE t == [data0 |-> <<8, 7>>, data1 |-> <<0, 7>>]
           w2 == [data2 |-> <<24, 7>>, data3 |-> <<16, 7>>,
                  data4 |-> <<8, 7>>, data5 |-> <<0, 7>>]
           c == data64_sysex7(status)
<1>1. Own(t, 16, HeadNames) /\ Own(w2, 32, HeadNames) /\ NoCommon(w2, t)
  BY DEF Own, Within, Apart, HeadNames, NoCommon
<1>2. Good(Type(MT_DATA64, status, <<Sysex ++ t, w2>>), MT_DATA64, status, HeadNames)
  <2> HIDE DEF t, w2
  <2> QED  BY <1>1, TwoWords, SysexHead, Sizes
<1>3. c = Type(MT_DATA64, status, <<Sysex ++ t, w2>>)
  BY Zenon DEF data64_sysex7
<1>4. c.words = <<Sysex ++ t, w2>>
  <2> HIDE DEF t, w2, c
  <2> QED  BY <1>3, WordsOfType
<1>5. /\ DOMAIN (Sysex ++ t) = DOMAIN Sysex \union DOMAIN t
      /\ \A f \in DOMAIN Sysex : (Sysex ++ t)[f] = Sysex[f]
      /\ \A f \in DOMAIN t : f \notin DOMAIN Sysex => (Sysex ++ t)[f] = t[f]
  BY Merged
<1>6. /\ DOMAIN (Sysex ++ t) = {"mt", "group", "status", "number_of_bytes", "data0", "data1"}
      /\ (Sysex ++ t)["number_of_bytes"] = <<16, 4>>
      /\ (Sysex ++ t)["data0"] = <<8, 7>>
      /\ (Sysex ++ t)["data1"] = <<0, 7>>
  BY <1>5 DEF Sysex
<1>7. Fields(c) = DOMAIN (Sysex ++ t) \union DOMAIN w2
  BY <1>4 DEF Fields
<1>8. Holds(c, 6, 7, TRUE)
  <2>1. /\ DOMAIN c.words = 1 .. 2
        /\ DataFields[1] \in DOMAIN c.words[1] /\ c.words[1][DataFields[1]][2] = 7
        /\ DataFields[2] \in DOMAIN c.words[1] /\ c.words[1][DataFields[2]][2] = 7
        /\ DataFields[3] \in DOMAIN c.words[2] /\ c.words[2][DataFields[3]][2] = 7
        /\ DataFields[4] \in DOMAIN c.words[2] /\ c.words[2][DataFields[4]][2] = 7
        /\ DataFields[5] \in DOMAIN c.words[2] /\ c.words[2][DataFields[5]][2] = 7
        /\ DataFields[6] \in DOMAIN c.words[2] /\ c.words[2][DataFields[6]][2] = 7
    BY <1>4, <1>6, DataIndex
  <2>7. /\ "number_of_bytes" \in DOMAIN c.words[1]
        /\ c.words[1]["number_of_bytes"][2] = 4
    BY <1>4, <1>6
  <2>2. /\ DataFields[7] \notin Fields(c)
        /\ DataFields[8] \notin Fields(c)
        /\ DataFields[9] \notin Fields(c)
        /\ DataFields[10] \notin Fields(c)
        /\ DataFields[11] \notin Fields(c)
        /\ DataFields[12] \notin Fields(c)
        /\ DataFields[13] \notin Fields(c)
    BY <1>6, <1>7, DataIndex
  <2>3. \A i \in 1 .. 13 : i = 1 \/ i = 2 \/ i = 3 \/ i = 4 \/ i = 5 \/ i = 6 \/ i = 7
                             \/ i = 8 \/ i = 9 \/ i = 10 \/ i = 11 \/ i = 12 \/ i = 13
    OBVIOUS
  <2>4. \A i \in 1 .. 6 : \E k \in DOMAIN c.words :
          DataFields[i] \in DOMAIN c.words[k] /\ c.words[k][DataFields[i]][2] = 7
    <3> HIDE DEF c
    <3> QED  BY <2>1, <2>3
  <2>5. \A i \in 1 .. 13 : i > 6 => DataFields[i] \notin Fields(c)
    <3> HIDE DEF c
    <3> QED  BY <2>2, <2>3
  <2>6. "number_of_bytes" \in Fields(c) <=> TRUE
    BY <1>6, <1>7
  <2> HIDE DEF c
  <2> QED  BY <2>4, <2>5, <2>6, <2>7 DEF Holds
<1>9. c.fixed = {"mt", "status"}
  <2> HIDE DEF t, w2, c
  <2> QED  BY <1>3, WordsOfType
<1> QED  BY <1>2, <1>3, <1>8, <1>9

\* Eight-bit system exclusive messages hold thirteen bytes and their number.
LEMMA Sysex8Class ==
  ASSUME NEW status
  PROVE  /\ Good(data128_sysex8(status), MT_DATA128, status, HeadNames)
         /\ Holds(data128_sysex8(status), 13, 8, TRUE)
         /\ data128_sysex8(status).fixed = {"mt", "status"}
<1> DEFINE t == [stream_id |-> <<8, 8>>, data0 |-> <<0, 8>>]
           w2 == [data1 |-> <<24, 8>>, data2 |-> <<16, 8>>,
                  data3 |-> <<8, 8>>, data4 |-> <<0, 8>>]
           w3 == [data5 |-> <<24, 8>>, data6 |-> <<16, 8>>,
                  data7 |-> <<8, 8>>, data8 |-> <<0, 8>>]
           w4 == [data9 |-> <<24, 8>>, data10 |-> <<16, 8>>,
                  data11 |-> <<8, 8>>, data12 |-> <<0, 8>>]
           c == data128_sysex8(status)
<1>1. Owned(t, w2, w3, w4, 16, HeadNames)
  BY DEF Owned, Own, Within, Apart, HeadNames, NoCommon
<1>2. Good(Type(MT_DATA128, status, <<Sysex ++ t, w2, w3, w4>>), MT_DATA128, status, HeadNames)
  <2> HIDE DEF t, w2, w3, w4
  <2> QED  BY <1>1, FourWords, SysexHead, Sizes
<1>3. c = Type(MT_DATA128, status, <<Sysex ++ t, w2, w3, w4>>)
  BY Zenon DEF data128_sysex8
<1>4. c.words = <<Sysex ++ t, w2, w3, w4>>
  <2> HIDE DEF t, w2, w3, w4, c
  <2> QED  BY <1>3, WordsOfType
<1>5. /\ DOMAIN (Sysex ++ t) = DOMAIN Sysex \union DOMAIN t
      /\ \A f \in DOMAIN Sysex : (Sysex ++ t)[f] = Sysex[f]
      /\ \A f \in DOMAIN t : f \notin DOMAIN Sysex => (Sysex ++ t)[f] = t[f]
  BY Merged
<1>6. /\ DOMAIN (Sysex ++ t) = {"mt", "group", "status", "number_of_bytes", "stream_id", "data0"}
      /\ (Sysex ++ t)["number_of_bytes"] = <<16, 4>>
      /\ (Sysex ++ t)["data0"] = <<0, 8>>
  BY <1>5 DEF Sysex
<1>7. Fields(c) = DOMAIN (Sysex ++ t) \union DOMAIN w2 \union DOMAIN w3 \union DOMAIN w4
  BY <1>4, FieldsOfFour
<1>8. Holds(c, 13, 8, TRUE)
  <2>1. /\ DOMAIN c.words = 1 .. 4
        /\ DataFields[1] \in DOMAIN c.words[1] /\ c.words[1][DataFields[1]][2] = 8
        /\ DataFields[2] \in DOMAIN c.words[2] /\ c.words[2][DataFields[2]][2] = 8
        /\ DataFields[3] \in DOMAIN c.words[2] /\ c.words[2][DataFields[3]][2] = 8
        /\ DataFields[4] \in DOMAIN c.words[2] /\ c.words[2][DataFields[4]][2] = 8
        /\ DataFields[5] \in DOMAIN c.words[2] /\ c.words[2][DataFields[5]][2] = 8
        /\ DataFields[6] \in DOMAIN c.words[3] /\ c.words[3][DataFields[6]][2] = 8
        /\ DataFields[7] \in DOMAIN c.words[3] /\ c.words[3][DataFields[7]][2] = 8
        /\ DataFields[8] \in DOMAIN c.words[3] /\ c.words[3][DataFields[8]][2] = 8
        /\ DataFields[9] \in DOMAIN c.words[3] /\ c.words[3][DataFields[9]][2] = 8
        /\ DataFields[10] \in DOMAIN c.words[4] /\ c.words[4][DataFields[10]][2] = 8
        /\ DataFields[11] \in DOMAIN c.words[4] /\ c.words[4][DataFields[11]][2] = 8
        /\ DataFields[12] \in DOMAIN c.words[4] /\ c.words[4][DataFields[12]][2] = 8
        /\ DataFields[13] \in DOMAIN c.words[4] /\ c.words[4][DataFields[13]][2] = 8
    BY <1>4, <1>6, DataIndex
  <2>7. /\ "number_of_bytes" \in DOMAIN c.words[1]
        /\ c.words[1]["number_of_bytes"][2] = 4
    BY <1>4, <1>6
  <2>3. \A i \in 1 .. 13 : i = 1 \/ i = 2 \/ i = 3 \/ i = 4 \/ i = 5 \/ i = 6 \/ i = 7
                             \/ i = 8 \/ i = 9 \/ i = 10 \/ i = 11 \/ i = 12 \/ i = 13
    OBVIOUS
  <2>4. \A i \in 1 .. 13 : \E k \in DOMAIN c.words :
          DataFields[i] \in DOMAIN c.words[k] /\ c.words[k][DataFields[i]][2] = 8
    <3> HIDE DEF c
    <3> QED  BY <2>1, <2>3
  <2>5. \A i \in 1 .. 13 : ~ (i > 13)
    OBVIOUS
  <2>6. "number_of_bytes" \in Fields(c) <=> TRUE
    BY <1>6, <1>7
  <2> HIDE DEF c
  <2> QED  BY <2>4, <2>5, <2>6, <2>7 DEF Holds
<1>9. c.fixed = {"mt", "status"}
  <2> HIDE DEF t, w2, w3, w4, c
  <2> QED  BY <1>3, WordsOfType
<1> QED  BY <1>2, <1>3, <1>8, <1>9

\* Text holds twelve bytes and has no field for their number.
LEMMA TextClass ==
  /\ Layout(flex_text_common) /\ flex_text_common.mt = MT_FLEX
  /\ flex_text_common.fixed = {"mt"} /\ flex_text_common.status = 0
  /\ Holds(flex_text_common, 12, 8, FALSE)
<1> DEFINE w2 == [data0 |-> <<24, 8>>, data1 |-> <<16, 8>>,
                  data2 |-> <<8, 8>>, data3 |-> <<0, 8>>]
           w3 == [data4 |-> <<24, 8>>, data5 |-> <<16, 8>>,
                  data6 |-> <<8, 8>>, data7 |-> <<0, 8>>]
           w4 == [data8 |-> <<24, 8>>, data9 |-> <<16, 8>>,
                  data10 |-> <<8, 8>>, data11 |-> <<0, 8>>]
           c == flex_text_common
           d == Type(MT_FLEX, 0, <<Flex, w2, w3, w4>>)
<1>1. Owned(<<>>, w2, w3, w4, 0, HeadNames)
  BY DEF Owned, Own, Within, Apart, HeadNames, NoCommon
<1>2. Good(Type(MT_FLEX, 0, <<Flex ++ <<>>, w2, w3, w4>>), MT_FLEX, 0, HeadNames)
  <2> HIDE DEF w2, w3, w4
  <2> QED  BY <1>1, FourWords, FlexHead, Sizes
<1>3. Good(d, MT_FLEX, 0, HeadNames)
  <2>1. Flex ++ <<>> = Flex
    BY Alone DEF Flex
  <2> QED  BY <1>2, <2>1, Zenon
<1>4. c = [d EXCEPT !.fixed = {"mt"}]
  BY Zenon DEF flex_text_common
<1>5. d.words = <<Flex, w2, w3, w4>> /\ d.mt = MT_FLEX /\ "mt" \in DOMAIN d
  BY DEF Type
<1>6. /\ c.words = <<Flex, w2, w3, w4>> /\ c.mt = MT_FLEX /\ c.fixed = {"mt"}
      /\ DOMAIN c = DOMAIN d /\ c.status = 0
  <2>1. DOMAIN d = {"mt", "status", "words", "fixed"} /\ d.status = 0
    BY DEF Type
  <2> HIDE DEF d, c, w2, w3, w4
  <2> QED  BY <1>4, <1>5, <2>1
<1>7. Fields(c) = DOMAIN Flex \union DOMAIN w2 \union DOMAIN w3 \union DOMAIN w4
  <2>1. c.words = <<Flex, w2, w3, w4>>
    BY <1>6
  <2> HIDE DEF c, w2, w3, w4
  <2> QED  BY <2>1, FieldsOfFour
<1>8. Layout(c)
  <2>1. c.words = d.words /\ c.mt = d.mt /\ "mt" \in DOMAIN c
    BY <1>5, <1>6
  <2> HIDE DEF c, d
  <2>2. Fields(c) = Fields(d)
    BY <2>1 DEF Fields
  <2> QED  BY <1>3, <2>1, <2>2 DEF Good, Layout
<1>9. Holds(c, 12, 8, FALSE)
  <2>1. /\ DOMAIN c.words = 1 .. 4
        /\ DataFields[1] \in DOMAIN c.words[2] /\ c.words[2][DataFields[1]][2] = 8
        /\ DataFields[2] \in DOMAIN c.words[2] /\ c.words[2][DataFields[2]][2] = 8
        /\ DataFields[3] \in DOMAIN c.words[2] /\ c.words[2][DataFields[3]][2] = 8
        /\ DataFields[4] \in DOMAIN c.words[2] /\ c.words[2][DataFields[4]][2] = 8
        /\ DataFields[5] \in DOMAIN c.words[3] /\ c.words[3][DataFields[5]][2] = 8
        /\ DataFields[6] \in DOMAIN c.words[3] /\ c.words[3][DataFields[6]][2] = 8
        /\ DataFields[7] \in DOMAIN c.words[3] /\ c.words[3][DataFields[7]][2] = 8
        /\ DataFields[8] \in DOMAIN c.words[3] /\ c.words[3][DataFields[8]][2] = 8
        /\ DataFields[9] \in DOMAIN c.words[4] /\ c.words[4][DataFields[9]][2] = 8
        /\ DataFields[10] \in DOMAIN c.words[4] /\ c.words[4][DataFields[10]][2] = 8
        /\ DataFields[11] \in DOMAIN c.words[4] /\ c.words[4][DataFields[11]][2] = 8
        /\ DataFields[12] \in DOMAIN c.words[4] /\ c.words[4][DataFields[12]][2] = 8
    BY <1>6, DataIndex
  <2>2. /\ DataFields[13] \notin Fields(c)
    BY <1>7, DataIndex DEF Flex
  <2>3. \A i \in 1 .. 13 : i = 1 \/ i = 2 \/ i = 3 \/ i = 4 \/ i = 5 \/ i = 6 \/ i = 7
                             \/ i = 8 \/ i = 9 \/ i = 10 \/ i = 11 \/ i = 12 \/ i = 13
    OBVIOUS
  <2>4. \A i \in 1 .. 12 : \E k \in DOMAIN c.words :
          DataFields[i] \in DOMAIN c.words[k] /\ c.words[k][DataFields[i]][2] = 8
    <3> HIDE DEF c
    <3> QED  BY <2>1, <2>3
  <2>5. \A i \in 1 .. 13 : i > 12 => DataFields[i] \notin Fields(c)
    <3> HIDE DEF c
    <3> QED  BY <2>2, <2>3
  <2>6. "number_of_bytes" \in Fields(c) <=> FALSE
    BY <1>7 DEF Flex
  <2> HIDE DEF c
  <2> QED  BY <2>4, <2>5, <2>6 DEF Holds
<1> QED  BY <1>6, <1>8, <1>9

-------------------------------------------------------------------------------
(* The callbacks and their classes.                                              *)

\* What a callback of message type mt and status may rely on.
Known(c, mt, status) ==
  /\ Layout(c) /\ c.mt = mt /\ "mt" \in c.fixed
  /\ status # Text => c.status = status /\ "status" \in c.fixed
  /\ status = Text => c = flex_text_common
  /\ "data0" \in Fields(c) =>
       /\ Holds(c, 6, 7, TRUE) \/ Holds(c, 13, 8, TRUE) \/ Holds(c, 12, 8, FALSE)
       /\ c.fixed \subseteq {"mt", "status"}

\* A class without data fields is one a callback may rely on.
LEMMA KnownIfReserved ==
  ASSUME NEW c, NEW mt, NEW status, Good(c, mt, status, Reserved), status # Text
  PROVE  Known(c, mt, status)
<1>1. "data0" \notin Fields(c)
  BY DEF Good, Reserved, HeadNames
<1>2. "mt" \in c.fixed /\ "status" \in c.fixed
  BY DEF Good
<1> QED  BY <1>1, <1>2 DEF Known, Good

\* So is one that holds bytes.
LEMMA KnownIfHolds ==
  ASSUME NEW c, NEW mt, NEW status, Good(c, mt, status, HeadNames), status # Text,
         Holds(c, 6, 7, TRUE) \/ Holds(c, 13, 8, TRUE), c.fixed = {"mt", "status"}
  PROVE  Known(c, mt, status)
<1>2. "mt" \in c.fixed /\ "status" \in c.fixed
  BY DEF Good
<1> QED  BY <1>2 DEF Known, Good

\* The statuses of a table are those that have a handler, and each has one class.
Table(backend, mt, statuses) ==
  /\ \A p \in backend : p = <<p[1], p[2]>> /\ p[1] \in statuses /\ Known(p[2], mt, p[1])
  /\ \A status \in statuses : \E p \in backend : p[1] = status
  /\ \A p \in backend : \A q \in backend : p[1] = q[1] => p = q

\* Each status of a utility message with a handler has one class, laid out for it.
LEMMA UtilityTable == Table(utility, MT_UTILITY, UtilityStatus)
<1>1. \A p \in utility : Known(p[2], MT_UTILITY, p[1])
  BY UtilityClasses, KnownIfReserved DEF utility, Text
<1>2. \A p \in utility : p = <<p[1], p[2]>> /\ p[1] \in UtilityStatus
  BY DEF utility, UtilityStatus
<1>3. \A status \in UtilityStatus : \E p \in utility : p[1] = status
  BY DEF utility, UtilityStatus
<1>4. \A p \in utility : \A q \in utility : p[1] = q[1] => p = q
  BY DEF utility
<1> QED  BY <1>1, <1>2, <1>3, <1>4 DEF Table

\* The same for system messages.
LEMMA SystemTable == Table(system, MT_SYSTEM, SystemStatus)
<1>1. \A p \in system : Known(p[2], MT_SYSTEM, p[1])
  BY SystemClasses, KnownIfReserved DEF system, Text,
         TIMING_CODE, SPP, SONG_SELECT, TUNE_REQUEST, TIMING_CLOCK, SEQUENCE_START,
         SEQUENCE_CONTINUE, SEQUENCE_STOP, ACTIVE_SENSING, SYSTEM_RESET
<1>2. \A p \in system : p = <<p[1], p[2]>> /\ p[1] \in SystemStatus
  BY DEF system, SystemStatus,
         TIMING_CODE, SPP, SONG_SELECT, TUNE_REQUEST, TIMING_CLOCK, SEQUENCE_START,
         SEQUENCE_CONTINUE, SEQUENCE_STOP, ACTIVE_SENSING, SYSTEM_RESET
<1>3. \A status \in SystemStatus : \E p \in system : p[1] = status
  BY DEF system, SystemStatus,
         TIMING_CODE, SPP, SONG_SELECT, TUNE_REQUEST, TIMING_CLOCK, SEQUENCE_START,
         SEQUENCE_CONTINUE, SEQUENCE_STOP, ACTIVE_SENSING, SYSTEM_RESET
<1>4. \A p \in system : \A q \in system : p[1] = q[1] => p = q
  BY DEF system,
         TIMING_CODE, SPP, SONG_SELECT, TUNE_REQUEST, TIMING_CLOCK, SEQUENCE_START,
         SEQUENCE_CONTINUE, SEQUENCE_STOP, ACTIVE_SENSING, SYSTEM_RESET
<1> QED  BY <1>1, <1>2, <1>3, <1>4 DEF Table

\* The same for MIDI 1.0 channel voice messages.
LEMMA M1cvmTable == Table(m1cvm, MT_M1CVM, M1cvmStatus)
<1>1. \A p \in m1cvm : Known(p[2], MT_M1CVM, p[1])
  BY M1cvmClasses, KnownIfReserved DEF m1cvm, Text
<1>2. \A p \in m1cvm : p = <<p[1], p[2]>> /\ p[1] \in M1cvmStatus
  BY DEF m1cvm, M1cvmStatus
<1>3. \A status \in M1cvmStatus : \E p \in m1cvm : p[1] = status
  BY DEF m1cvm, M1cvmStatus
<1>4. \A p \in m1cvm : \A q \in m1cvm : p[1] = q[1] => p = q
  BY DEF m1cvm
<1> QED  BY <1>1, <1>2, <1>3, <1>4 DEF Table

\* The same for seven-bit system exclusive messages.
LEMMA Data64Table == Table(data64, MT_DATA64, Data64Status)
<1>1. \A p \in data64 : /\ p = <<p[1], p[2]>> /\ p[1] \in Data64Status
                        /\ p[2] = data64_sysex7(p[1])
  BY DEF data64
<1>2. \A status \in Data64Status : <<status, data64_sysex7(status)>> \in data64
  BY DEF data64
<1>3. \A status \in Data64Status : Known(data64_sysex7(status), MT_DATA64, status)
  <2>1. \A status \in Data64Status : status # Text
    BY DEF Data64Status, Text, SYSEX7_IN_1, SYSEX7_START, SYSEX7_CONTINUE, SYSEX7_END
  <2>2. ASSUME NEW status \in Data64Status
        PROVE  Known(data64_sysex7(status), MT_DATA64, status)
    <3>1. /\ Good(data64_sysex7(status), MT_DATA64, status, HeadNames)
          /\ Holds(data64_sysex7(status), 6, 7, TRUE)
          /\ data64_sysex7(status).fixed = {"mt", "status"}
      BY Sysex7Class
    <3> QED  BY <2>1, <3>1, KnownIfHolds, Zenon
  <2> QED  BY <2>2
<1>4. \A p \in data64 : \A q \in data64 : p[1] = q[1] => p = q
  BY <1>1
<1>5. \A status \in Data64Status : \E p \in data64 : p[1] = status
  BY <1>2
<1>6. \A p \in data64 : Known(p[2], MT_DATA64, p[1])
  BY <1>1, <1>3
<1> QED  BY <1>1, <1>4, <1>5, <1>6 DEF Table

\* The same for MIDI 2.0 channel voice messages.
LEMMA M2cvmTable == Table(m2cvm, MT_M2CVM, M2cvmStatus)
<1>1. \A p \in m2cvm : Known(p[2], MT_M2CVM, p[1])
  BY M2cvmClasses, KnownIfReserved DEF m2cvm, Text
<1>2. \A p \in m2cvm : p = <<p[1], p[2]>> /\ p[1] \in M2cvmStatus
  BY DEF m2cvm, M2cvmStatus
<1>3. \A status \in M2cvmStatus : \E p \in m2cvm : p[1] = status
  BY DEF m2cvm, M2cvmStatus
<1>4. \A p \in m2cvm : \A q \in m2cvm : p[1] = q[1] => p = q
  BY DEF m2cvm
<1> QED  BY <1>1, <1>2, <1>3, <1>4 DEF Table

\* The same for 128-bit data messages.
LEMMA Data128Table == Table(data128, MT_DATA128, Data128Status)
<1>1. \A p \in data128 :
        /\ p = <<p[1], p[2]>>
        /\ \/ p[1] \in 0 .. 3 /\ p[2] = data128_sysex8(p[1])
           \/ p[1] = 8 /\ p[2] = data128_mds_header
           \/ p[1] = 9 /\ p[2] = data128_mds_payload
  BY DEF data128
<1>2. /\ \A status \in 0 .. 3 : <<status, data128_sysex8(status)>> \in data128
      /\ <<8, data128_mds_header>> \in data128 /\ <<9, data128_mds_payload>> \in data128
  BY DEF data128
<1>3. /\ \A status \in 0 .. 3 : Known(data128_sysex8(status), MT_DATA128, status)
      /\ Known(data128_mds_header, MT_DATA128, 8)
      /\ Known(data128_mds_payload, MT_DATA128, 9)
  <2>1. \A status \in 0 .. 9 : status # Text
    BY DEF Text
  <2>2. ASSUME NEW status \in 0 .. 3
        PROVE  Known(data128_sysex8(status), MT_DATA128, status)
    <3>1. /\ Good(data128_sysex8(status), MT_DATA128, status, HeadNames)
          /\ Holds(data128_sysex8(status), 13, 8, TRUE)
          /\ data128_sysex8(status).fixed = {"mt", "status"}
      BY Sysex8Class
    <3>2. status # Text
      BY DEF Text
    <3> QED  BY <3>1, <3>2, KnownIfHolds, Zenon
  <2> QED  BY <2>1, <2>2, MdsClasses, KnownIfReserved
<1>4. \A status : status \in Data128Status <=> status \in 0 .. 3 \/ status = 8 \/ status = 9
  BY DEF Data128Status
<1>5. \A p \in data128 : Known(p[2], MT_DATA128, p[1]) /\ p[1] \in Data128Status
  BY <1>1, <1>3, <1>4
<1>6. \A p \in data128 : \A q \in data128 : p[1] = q[1] => p = q
  BY <1>1
<1>7. \A status \in Data128Status : \E p \in data128 : p[1] = status
  BY <1>2, <1>4
<1> QED  BY <1>1, <1>5, <1>6, <1>7 DEF Table

\* The same for stream messages.
LEMMA StreamTable == Table(stream, MT_STREAM, StreamStatus)
<1>1. \A p \in stream : Known(p[2], MT_STREAM, p[1])
  BY StreamClasses, KnownIfReserved DEF stream, Text
<1>2. \A p \in stream : p = <<p[1], p[2]>> /\ p[1] \in StreamStatus
  BY DEF stream, StreamStatus
<1>3. \A status \in StreamStatus : \E p \in stream : p[1] = status
  BY DEF stream, StreamStatus
<1>4. \A p \in stream : \A q \in stream : p[1] = q[1] => p = q
  BY DEF stream
<1> QED  BY <1>1, <1>2, <1>3, <1>4 DEF Table

\* Text, which is selected by any status bank but 0.
LEMMA TextKnown == Known(flex_text_common, MT_FLEX, Text)
BY TextClass DEF Known

\* The same for flex data messages.
LEMMA FlexTable == Table(flex_data, MT_FLEX, FlexStatus)
<1>1. \A p \in flex_data : Known(p[2], MT_FLEX, p[1])
  BY FlexClasses, ChordClass, TextKnown, KnownIfReserved DEF flex_data, Text
<1>2. \A p \in flex_data : p = <<p[1], p[2]>> /\ p[1] \in FlexStatus
  BY DEF flex_data, FlexStatus
<1>3. \A status \in FlexStatus : \E p \in flex_data : p[1] = status
  BY DEF flex_data, FlexStatus
<1>4. \A p \in flex_data : \A q \in flex_data : p[1] = q[1] => p = q
  BY DEF flex_data, Text
<1> QED  BY <1>1, <1>2, <1>3, <1>4 DEF Table

-------------------------------------------------------------------------------

\* The message types are different numbers below sixteen.
LEMMA TypesDiffer ==
  /\ MT_UTILITY \in 0 .. 15 /\ MT_SYSTEM \in 0 .. 15 /\ MT_M1CVM \in 0 .. 15
  /\ MT_DATA64 \in 0 .. 15 /\ MT_M2CVM \in 0 .. 15 /\ MT_DATA128 \in 0 .. 15
  /\ MT_FLEX \in 0 .. 15 /\ MT_STREAM \in 0 .. 15
  /\ MT_UTILITY \notin {MT_SYSTEM, MT_M1CVM, MT_DATA64, MT_M2CVM, MT_DATA128, MT_FLEX, MT_STREAM}
  /\ MT_SYSTEM \notin {MT_M1CVM, MT_DATA64, MT_M2CVM, MT_DATA128, MT_FLEX, MT_STREAM}
  /\ MT_M1CVM \notin {MT_DATA64, MT_M2CVM, MT_DATA128, MT_FLEX, MT_STREAM}
  /\ MT_DATA64 \notin {MT_M2CVM, MT_DATA128, MT_FLEX, MT_STREAM}
  /\ MT_M2CVM \notin {MT_DATA128, MT_FLEX, MT_STREAM}
  /\ MT_DATA128 \notin {MT_FLEX, MT_STREAM} /\ MT_FLEX # MT_STREAM
BY DEF MT_UTILITY, MT_SYSTEM, MT_M1CVM, MT_DATA64, MT_M2CVM, MT_DATA128, MT_FLEX, MT_STREAM

(* Each callback has exactly one class.                                          *)
LEMMA BackendOf ==
  /\ \A b \in Backends : /\ b = <<b[1], <<b[2][1], b[2][2]>>>>
                         /\ <<b[1], b[2][1]>> \in Handlers /\ Known(b[2][2], b[1], b[2][1])
  /\ \A h \in Handlers : \E b \in Backends : h = <<b[1], b[2][1]>>
  /\ \A b \in Backends : \A d \in Backends : b[1] = d[1] /\ b[2][1] = d[2][1] => b = d
<1> DEFINE In(b, mt, backend) == b[1] = mt /\ b[2] \in backend /\ b = <<b[1], b[2]>>
<1>1. \A b : b \in Backends <=>
        \/ In(b, MT_UTILITY, utility) \/ In(b, MT_SYSTEM, system) \/ In(b, MT_M1CVM, m1cvm)
        \/ In(b, MT_DATA64, data64) \/ In(b, MT_M2CVM, m2cvm) \/ In(b, MT_DATA128, data128)
        \/ In(b, MT_FLEX, flex_data) \/ In(b, MT_STREAM, stream)
  BY DEF Backends
<1>2. \A mt, status : <<mt, status>> \in Handlers <=>
        \/ mt = MT_UTILITY /\ status \in UtilityStatus
        \/ mt = MT_SYSTEM /\ status \in SystemStatus
        \/ mt = MT_M1CVM /\ status \in M1cvmStatus
        \/ mt = MT_DATA64 /\ status \in Data64Status
        \/ mt = MT_M2CVM /\ status \in M2cvmStatus
        \/ mt = MT_DATA128 /\ status \in Data128Status
        \/ mt = MT_FLEX /\ status \in FlexStatus
        \/ mt = MT_STREAM /\ status \in StreamStatus
  BY DEF Handlers
<1> HIDE DEF In
<1>3. ASSUME NEW b \in Backends
      PROVE  /\ b = <<b[1], <<b[2][1], b[2][2]>>>>
             /\ <<b[1], b[2][1]>> \in Handlers /\ Known(b[2][2], b[1], b[2][1])
  BY <1>1, <1>2, UtilityTable, SystemTable, M1cvmTable, Data64Table, M2cvmTable,
     Data128Table, FlexTable, StreamTable DEF In, Table
<1>4. \A h \in Handlers : \E b \in Backends : h = <<b[1], b[2][1]>>
  <2> SUFFICES ASSUME NEW h \in Handlers
               PROVE  \E b \in Backends : h = <<b[1], b[2][1]>>
    OBVIOUS
  <2>1. PICK mt, status : h = <<mt, status>>
    BY DEF Handlers
  <2>2. \A m, backend, statuses :
          Table(backend, m, statuses) /\ mt = m /\ status \in statuses =>
            \E p \in backend :
              LET b == <<m, p>> IN b[1] = mt /\ b[2][1] = status /\ In(b, m, backend)
    BY DEF Table, In
  <2>3. \E b \in Backends : b[1] = mt /\ b[2][1] = status
    <3>1. CASE mt = MT_UTILITY /\ status \in UtilityStatus
      BY <1>1, <2>2, <3>1, UtilityTable
    <3>2. CASE mt = MT_SYSTEM /\ status \in SystemStatus
      BY <1>1, <2>2, <3>2, SystemTable
    <3>3. CASE mt = MT_M1CVM /\ status \in M1cvmStatus
      BY <1>1, <2>2, <3>3, M1cvmTable
    <3>4. CASE mt = MT_DATA64 /\ status \in Data64Status
      BY <1>1, <2>2, <3>4, Data64Table
    <3>5. CASE mt = MT_M2CVM /\ status \in M2cvmStatus
      BY <1>1, <2>2, <3>5, M2cvmTable
    <3>6. CASE mt = MT_DATA128 /\ status \in Data128Status
      BY <1>1, <2>2, <3>6, Data128Table
    <3>7. CASE mt = MT_FLEX /\ status \in FlexStatus
      BY <1>1, <2>2, <3>7, FlexTable
    <3>8. CASE mt = MT_STREAM /\ status \in StreamStatus
      BY <1>1, <2>2, <3>8, StreamTable
    <3> QED  BY <1>2, <2>1, <3>1, <3>2, <3>3, <3>4, <3>5, <3>6, <3>7, <3>8
  <2> QED  BY <2>1, <2>3
<1>5. ASSUME NEW b \in Backends, NEW d \in Backends, b[1] = d[1], b[2][1] = d[2][1]
      PROVE  b = d
  <2>1. \A mt, backend, statuses :
          Table(backend, mt, statuses) /\ In(b, mt, backend) /\ In(d, mt, backend) => b = d
    BY <1>5 DEF Table, In
  <2> QED  BY <1>1, <1>5, <2>1, TypesDiffer, UtilityTable, SystemTable, M1cvmTable, Data64Table,
              M2cvmTable, Data128Table, FlexTable, StreamTable DEF In
<1> QED  BY <1>3, <1>4, <1>5

(* A class and its callback.                                                     *)
LEMMA ClassOfHandler ==
  /\ \A h \in Handlers : ClassOf[h] \in Classes /\ Known(ClassOf[h], h[1], h[2])
  /\ \A c \in Classes : \E h \in Handlers : h = <<h[1], h[2]>> /\ c = ClassOf[h]
<1>1. ASSUME NEW h \in Handlers
      PROVE  /\ ClassOf[h] \in Classes
             /\ <<h[1], <<h[2], ClassOf[h]>>>> \in Backends /\ h = <<h[1], h[2]>>
  <2>1. PICK b \in Backends : h = <<b[1], b[2][1]>>
    BY BackendOf
  <2>2. b[2][2] \in Classes /\ <<h[1], <<h[2], b[2][2]>>>> \in Backends
    BY <2>1, BackendOf DEF Classes
  <2>3. ClassOf[h] = CHOOSE class \in Classes : <<h[1], <<h[2], class>>>> \in Backends
    BY DEF ClassOf
  <2> QED  BY <2>1, <2>2, <2>3
<1>2. ASSUME NEW h \in Handlers
      PROVE  Known(ClassOf[h], h[1], h[2])
  <2> DEFINE b == <<h[1], <<h[2], ClassOf[h]>>>>
  <2>1. b \in Backends
    BY <1>1
  <2>2. Known(b[2][2], b[1], b[2][1])
    BY <2>1, BackendOf
  <2> QED  BY <2>2
<1>3. ASSUME NEW c \in Classes
      PROVE  \E h \in Handlers : h = <<h[1], h[2]>> /\ c = ClassOf[h]
  <2>1. PICK b \in Backends : c = b[2][2]
    BY DEF Classes
  <2> DEFINE h == <<b[1], b[2][1]>>
             d == <<h[1], <<h[2], ClassOf[h]>>>>
  <2>2. h \in Handlers /\ h = <<h[1], h[2]>>
    BY BackendOf
  <2>3. d \in Backends /\ d[1] = b[1] /\ d[2][1] = b[2][1] /\ d[2][2] = ClassOf[h]
    BY <1>1, <2>2
  <2>4. b = d
    <3> HIDE DEF d, h
    <3> QED  BY <2>3, BackendOf
  <2>5. c = ClassOf[h]
    <3> HIDE DEF d, h
    <3> QED  BY <2>1, <2>3, <2>4
  <2> HIDE DEF h
  <2> QED  BY <2>2, <2>5
<1> QED  BY <1>1, <1>2, <1>3

-------------------------------------------------------------------------------
(* Getters and setters.                                                          *)

Object(c, ws) == ws \in Seq(SUBSET (0 .. 31)) /\ Len(ws) = MessageSize(c.mt)

(* A field is in one word, and getters read its bits there.                      *)
LEMMA Place ==
  ASSUME NEW c, Layout(c), NEW f \in Fields(c)
  PROVE  /\ WordOf(c, f) \in 1 .. MessageSize(c.mt)
         /\ f \in DOMAIN c.words[WordOf(c, f)]
         /\ \A i \in DOMAIN c.words : f \in DOMAIN c.words[i] => i = WordOf(c, f)
         /\ FieldOf(c, f) = c.words[WordOf(c, f)][f]
         /\ FieldOf(c, f)[1] \in Nat /\ FieldOf(c, f)[2] \in Nat
         /\ FieldOf(c, f)[1] + FieldOf(c, f)[2] <= 32
<1>1. PICK i \in DOMAIN c.words : f \in DOMAIN c.words[i]
  BY DEF Fields
<1>2. \A j \in DOMAIN c.words : f \in DOMAIN c.words[j] => j = i
  BY <1>1 DEF Layout, NoCommon
<1>3. WordOf(c, f) = i
  BY <1>1, <1>2 DEF WordOf
<1>4. c.words[i][f] \in Nat \X Nat /\ c.words[i][f][1] + c.words[i][f][2] <= 32
  BY <1>1 DEF Layout, Within
<1> QED  BY <1>1, <1>2, <1>3, <1>4 DEF FieldOf, Layout

\* A getter returns the bits of the word from the place of the field on.
LEMMA GetBits ==
  ASSUME NEW c, Layout(c), NEW f \in Fields(c), NEW ws
  PROVE  /\ Get(c, ws, f) \subseteq AllOnes(c, f)
         /\ \A x \in AllOnes(c, f) :
              x \in Get(c, ws, f) <=> x + FieldOf(c, f)[1] \in ws[WordOf(c, f)]
<1> DEFINE i == WordOf(c, f)
           p == FieldOf(c, f)[1]
           n == FieldOf(c, f)[2]
<1>1. p \in Nat /\ n \in Nat
  BY Place
<1>2. /\ Get(c, ws, f) = {b - p : b \in ws[i] \intersect (p .. p + n - 1)}
      /\ AllOnes(c, f) = 0 .. n - 1
  BY DEF Get, BitsOf, AllOnes
<1> HIDE DEF i, p, n
<1>3. ASSUME NEW x \in 0 .. n - 1, x + p \in ws[i]
      PROVE  x \in {b - p : b \in ws[i] \intersect (p .. p + n - 1)}
  <2>1. x + p \in ws[i] \intersect (p .. p + n - 1) /\ x = (x + p) - p
    BY <1>1, <1>3
  <2> QED  BY <2>1
<1>4. \A x \in {b - p : b \in ws[i] \intersect (p .. p + n - 1)} :
        x \in 0 .. n - 1 /\ x + p \in ws[i]
  BY <1>1
<1> QED  BY <1>2, <1>3, <1>4 DEF i, p

(* Two objects with the same bits of a field give the same value.                *)
LEMMA GetSame ==
  ASSUME NEW c, Layout(c), NEW f \in Fields(c), NEW ws, NEW v,
         v \subseteq AllOnes(c, f),
         \A x \in AllOnes(c, f) : x \in v <=> x + FieldOf(c, f)[1] \in ws[WordOf(c, f)]
  PROVE  Get(c, ws, f) = v
BY GetBits

\* A function on 1 .. n is a sequence of length n.
LEMMA FunctionIsSeq ==
  ASSUME NEW S, NEW n \in Nat, NEW s \in [1 .. n -> S]
  PROVE  s \in Seq(S) /\ Len(s) = n
<1>1. s \in Seq(S)
  BY SeqDef, Zenon
<1>2. DOMAIN s = 1 .. Len(s) /\ DOMAIN s = 1 .. n /\ Len(s) \in Nat
  BY <1>1
<1> QED  BY <1>1, <1>2

\* Setters keep an object an object of its class.
LEMMA SetObject ==
  ASSUME NEW c, Layout(c), NEW ws, NEW values, \A i \in DOMAIN c.words : ws[i] \subseteq 0 .. 31,
         \A f \in Fields(c) : f \in DOMAIN values => values[f] \subseteq AllOnes(c, f)
  PROVE  Object(c, SetFields(c, ws, values))
<1> DEFINE next == SetFields(c, ws, values)
           N    == MessageSize(c.mt)
<1>1. DOMAIN c.words = 1 .. N /\ N \in Nat
  BY DEF Layout, MessageSize
<1>2. next = [i \in DOMAIN c.words |-> next[i]]
  BY DEF SetFields
<1>3. ASSUME NEW i \in DOMAIN c.words
      PROVE  next[i] \subseteq 0 .. 31
  <2> DEFINE layout == c.words[i]
             fields == DOMAIN layout \intersect DOMAIN values
  <2>1. next[i] = (ws[i] \ UNION {BitsOf(layout[f]) : f \in fields})
                    \union UNION {{b + layout[f][1] : b \in values[f]} : f \in fields}
    BY DEF SetFields
  <2>2. ASSUME NEW f \in fields, NEW b \in values[f]
        PROVE  b + layout[f][1] \in 0 .. 31
    <3>1. f \in Fields(c)
      BY DEF Fields
    <3>2. layout[f] = FieldOf(c, f)
      BY <3>1, Place
    <3>3. b \in 0 .. FieldOf(c, f)[2] - 1
      BY <3>1 DEF AllOnes
    <3> QED  BY <3>1, <3>2, <3>3, Place
  <2>3. ASSUME NEW x \in UNION {{b + layout[f][1] : b \in values[f]} : f \in fields}
        PROVE  x \in 0 .. 31
    <3>1. PICK f \in fields : x \in {b + layout[f][1] : b \in values[f]}
      BY <2>3
    <3> HIDE DEF layout, fields
    <3>2. PICK b \in values[f] : x = b + layout[f][1]
      BY <3>1
    <3> QED  BY <2>2, <3>2
  <2> HIDE DEF layout, fields, next
  <2> QED  BY <2>1, <2>3
<1>4. next \in [1 .. N -> SUBSET (0 .. 31)]
  <2> HIDE DEF next, N
  <2> QED  BY <1>1, <1>2, <1>3
<1>5. next \in Seq(SUBSET (0 .. 31)) /\ Len(next) = N
  <2> HIDE DEF next, N
  <2> QED  BY <1>1, <1>4, FunctionIsSeq
<1> QED  BY <1>5 DEF Object

(* A getter returns what was set, and the other fields keep their values, but for *)
(* the second name of a bit.                                                      *)
LEMMA GetSet ==
  ASSUME NEW c, Layout(c), NEW ws, NEW values,
         \A f \in Fields(c) : f \in DOMAIN values => values[f] \subseteq AllOnes(c, f),
         ~ (Aliases \subseteq DOMAIN values), NEW f \in Fields(c)
  PROVE  /\ f \in DOMAIN values => Get(c, SetFields(c, ws, values), f) = values[f]
         /\ f \notin DOMAIN values /\ (\A g \in DOMAIN values : {f, g} # Aliases) =>
              Get(c, SetFields(c, ws, values), f) = Get(c, ws, f)
<1> DEFINE next   == SetFields(c, ws, values)
           i      == WordOf(c, f)
           layout == c.words[i]
           fields == DOMAIN layout \intersect DOMAIN values
           p      == layout[f][1]
           n      == layout[f][2]
           clear  == UNION {BitsOf(layout[g]) : g \in fields}
           set    == UNION {{b + layout[g][1] : b \in values[g]} : g \in fields}
<1>1. /\ i \in DOMAIN c.words /\ f \in DOMAIN layout /\ FieldOf(c, f) = layout[f]
      /\ p \in Nat /\ n \in Nat
  BY Place DEF Layout
<1>2. next[i] = (ws[i] \ clear) \union set
  BY <1>1 DEF SetFields
<1>3. \A g \in fields : /\ g \in Fields(c) /\ FieldOf(c, g) = layout[g]
                        /\ layout[g][1] \in Nat /\ layout[g][2] \in Nat
  BY <1>1, Place DEF Fields
<1>4. \A g \in fields : values[g] \subseteq 0 .. layout[g][2] - 1
  BY <1>3 DEF AllOnes
<1>5. \A g \in fields : f = g \/ {f, g} = Aliases \/ Apart(layout[f], layout[g])
  BY <1>1 DEF Layout, Within
<1>6. AllOnes(c, f) = 0 .. n - 1
  BY <1>1 DEF AllOnes
<1>7. ASSUME NEW g \in fields, Apart(layout[f], layout[g]), NEW x \in 0 .. n - 1
      PROVE  /\ x + p \notin BitsOf(layout[g])
             /\ \A b \in values[g] : x + p # b + layout[g][1]
  <2> HIDE DEF fields, layout
  <2>1. \A b \in values[g] : b \in 0 .. layout[g][2] - 1
    BY <1>4
  <2> QED  BY <1>1, <1>3, <1>7, <2>1 DEF Apart, BitsOf
<1>8. CASE f \in DOMAIN values
  <2>1. f \in fields
    BY <1>1, <1>8
  <2>2. \A g \in fields : f = g \/ Apart(layout[f], layout[g])
    BY <1>5, <1>8
  <2>3. \A x \in 0 .. n - 1 : x + p \in clear
    BY <1>1, <2>1 DEF BitsOf
  <2>4. \A x \in values[f] : x + p \in set
    BY <2>1
  <2>5. ASSUME NEW x \in 0 .. n - 1, x + p \in set
        PROVE  x \in values[f]
    <3>1. PICK g \in fields : x + p \in {b + layout[g][1] : b \in values[g]}
      BY <2>5
    <3>2. PICK b \in values[g] : x + p = b + layout[g][1]
      BY <3>1
    <3>3. f = g
      BY <1>7, <2>2, <3>2
    <3>4. b \in 0 .. n - 1 /\ x + p = b + p
      BY <1>4, <3>2, <3>3
    <3> QED  BY <1>1, <3>3, <3>4
  <2>6. values[f] \subseteq AllOnes(c, f)
    BY <1>8
  <2> HIDE DEF clear, set, next, fields, layout, i
  <2>7. \A x \in AllOnes(c, f) : x \in values[f] <=> x + FieldOf(c, f)[1] \in next[i]
    BY <1>1, <1>2, <1>6, <2>3, <2>4, <2>5
  <2>8. Get(c, next, f) = values[f]
    BY <2>6, <2>7, GetSame DEF i
  <2> QED  BY <1>8, <2>8 DEF next
<1>9. CASE f \notin DOMAIN values /\ \A g \in DOMAIN values : {f, g} # Aliases
  <2>1. \A g \in fields : Apart(layout[f], layout[g])
    BY <1>5, <1>9
  <2>2. \A x \in 0 .. n - 1 : x + p \notin clear
    BY <1>7, <2>1
  <2>3. ASSUME NEW x \in 0 .. n - 1, x + p \in set
        PROVE  FALSE
    <3>1. PICK g \in fields : x + p \in {b + layout[g][1] : b \in values[g]}
      BY <2>3
    <3>2. PICK b \in values[g] : x + p = b + layout[g][1]
      BY <3>1
    <3> QED  BY <1>7, <2>1, <3>2
  <2>4. \A x \in AllOnes(c, f) : x \in Get(c, ws, f) <=> x + FieldOf(c, f)[1] \in ws[i]
    BY GetBits
  <2>5. Get(c, ws, f) \subseteq AllOnes(c, f)
    BY GetBits
  <2> HIDE DEF clear, set, next, fields, layout, i
  <2>6. \A x \in AllOnes(c, f) : x \in Get(c, ws, f) <=> x + FieldOf(c, f)[1] \in next[i]
    BY <1>1, <1>2, <1>6, <2>2, <2>3, <2>4
  <2>7. Get(c, next, f) = Get(c, ws, f)
    <3> DEFINE v == Get(c, ws, f)
    <3> HIDE DEF v
    <3> QED  BY <2>5, <2>6, GetSame DEF i, v
  <2> QED  BY <1>9, <2>7 DEF next
<1> QED  BY <1>8, <1>9

-------------------------------------------------------------------------------
(* What the dispatcher reads in the bytes of the first word.                     *)

\* Dividing a byte by sixteen leaves its high bits.
LEMMA HighNibble ==
  ASSUME NEW s \in SUBSET (0 .. 7)
  PROVE  Number[s] \div 16 = Number[{b \in 0 .. 3 : b + 4 \in s}]
<1> DEFINE t == {b \in 0 .. 3 : b + 4 \in s}
<1>1. t \in SUBSET (0 .. 7)
  OBVIOUS
<1>2. /\ Bit(0, t) = Bit(4, s) /\ Bit(1, t) = Bit(5, s)
      /\ Bit(2, t) = Bit(6, s) /\ Bit(3, t) = Bit(7, s)
      /\ Bit(4, t) = 0 /\ Bit(5, t) = 0 /\ Bit(6, t) = 0 /\ Bit(7, t) = 0
  BY DEF Bit
<1>3. /\ Bit(0, s) \in 0 .. 1 /\ Bit(1, s) \in 0 .. 1 /\ Bit(2, s) \in 0 .. 1
      /\ Bit(3, s) \in 0 .. 1 /\ Bit(4, s) \in 0 .. 1 /\ Bit(5, s) \in 0 .. 1
      /\ Bit(6, s) \in 0 .. 1 /\ Bit(7, s) \in 0 .. 1
  BY DEF Bit
<1>4. Number[s] = Sum(s) /\ Number[t] = Sum(t)
  BY <1>1, NumberSum
<1> HIDE DEF t
<1>5. Sum(s) \div 16 = Sum(t)
  BY <1>2, <1>3 DEF Sum
<1> QED  BY <1>4, <1>5 DEF t

\* The rest of a division by four are the two low bits.
LEMMA LowBits ==
  ASSUME NEW s \in SUBSET (0 .. 7)
  PROVE  /\ (Number[s] % 4) \in 0 .. 3
         /\ (Number[s] % 4) = 0 <=> 0 \notin s /\ 1 \notin s
<1>1. Number[s] = Sum(s) /\ Number[s] \in Byte
  BY NumberSum
<1>2. (Sum(s) % 4) = Bit(0, s) + 2 * Bit(1, s)
  <2>1. /\ Bit(0, s) \in 0 .. 1 /\ Bit(1, s) \in 0 .. 1 /\ Bit(2, s) \in 0 .. 1
        /\ Bit(3, s) \in 0 .. 1 /\ Bit(4, s) \in 0 .. 1 /\ Bit(5, s) \in 0 .. 1
        /\ Bit(6, s) \in 0 .. 1 /\ Bit(7, s) \in 0 .. 1
    BY DEF Bit
  <2> QED  BY <2>1 DEF Sum
<1> QED  BY <1>1, <1>2 DEF Bit, Byte

\* Bits are a number's if they are the bits of that number.
LEMMA NumberIs ==
  ASSUME NEW s \in SUBSET (0 .. 7), NEW n \in Byte
  PROVE  Number[s] = n <=> s = Bits[n]
BY BitsOfNumber

\* The bits of w from p on, as many as n says.
Cut(w, p, n) == {b \in 0 .. n - 1 : b + p \in w}

\* The value of a field of the first word are its bits from the place on.
LEMMA GetCut ==
  ASSUME NEW c, Layout(c), NEW f \in Fields(c), NEW ws, NEW p, NEW n,
         f \in DOMAIN c.words[1], c.words[1][f] = <<p, n>>
  PROVE  Get(c, ws, f) = Cut(ws[1], p, n)
<1>1. 1 \in DOMAIN c.words
  BY DEF Layout, MessageSize
<1>2. WordOf(c, f) = 1 /\ FieldOf(c, f) = <<p, n>>
  BY <1>1, Place
<1>3. AllOnes(c, f) = 0 .. n - 1 /\ FieldOf(c, f)[1] = p
  BY <1>2 DEF AllOnes
<1> DEFINE g == Get(c, ws, f)
<1>4. /\ g \subseteq AllOnes(c, f)
      /\ \A x \in AllOnes(c, f) : x \in g <=> x + p \in ws[1]
  BY <1>2, <1>3, GetBits
<1> HIDE DEF g
<1>5. g = Cut(ws[1], p, n)
  BY <1>3, <1>4 DEF Cut
<1> QED  BY <1>5 DEF g

\* What the dispatcher computes from the bytes of a word, in terms of its bits.
LEMMA ReadBytes ==
  ASSUME NEW w \in SUBSET (0 .. 31)
  PROVE  /\ MessageType(Bytes(w)) = Number[Cut(w, 28, 4)]
         /\ Bytes(w)[2] \div 16 = Number[Cut(w, 20, 4)]
         /\ Bytes(w)[2] = Number[Cut(w, 16, 8)]
         /\ Bytes(w)[3] = Number[Cut(w, 8, 8)]
         /\ Bytes(w)[4] = Number[Cut(w, 0, 8)]
         /\ (Bytes(w)[1] % 4) \in 0 .. 3
         /\ (Bytes(w)[1] % 4) = 0 <=> 24 \notin w /\ 25 \notin w
<1>1. \A n \in Nat : ByteAt(w, n) = Cut(w, n, 8) /\ ByteAt(w, n) \in SUBSET (0 .. 7)
  BY DEF ByteAt, Cut
<1>2. /\ Bytes(w)[1] = Number[ByteAt(w, 24)] /\ Bytes(w)[2] = Number[ByteAt(w, 16)]
      /\ Bytes(w)[3] = Number[ByteAt(w, 8)] /\ Bytes(w)[4] = Number[ByteAt(w, 0)]
  BY RoundTrip
<1>3. /\ {b \in 0 .. 3 : b + 4 \in ByteAt(w, 24)} = Cut(w, 28, 4)
      /\ {b \in 0 .. 3 : b + 4 \in ByteAt(w, 16)} = Cut(w, 20, 4)
  BY DEF ByteAt, Cut
<1>4. /\ Number[ByteAt(w, 24)] \div 16 = Number[Cut(w, 28, 4)]
      /\ Number[ByteAt(w, 16)] \div 16 = Number[Cut(w, 20, 4)]
  BY <1>1, <1>3, HighNibble
<1>5. 0 \in ByteAt(w, 24) <=> 24 \in w
  BY DEF ByteAt
<1>6. 1 \in ByteAt(w, 24) <=> 25 \in w
  BY DEF ByteAt
<1> QED  BY <1>1, <1>2, <1>4, <1>5, <1>6, LowBits DEF MessageType

\* The message type that the dispatcher reads is the field mt.
LEMMA TypeRead ==
  ASSUME NEW c, Layout(c), NEW ws, Object(c, ws)
  PROVE  /\ ws[1] \in SUBSET (0 .. 31)
         /\ Get(c, ws, "mt") = Cut(ws[1], 28, 4)
         /\ \A n \in 0 .. 15 :
              MessageType(Bytes(ws[1])) = n <=> Cut(ws[1], 28, 4) = Bits[n]
<1>1. Len(ws) >= 1
  BY DEF Object, MessageSize
<1>2. ws[1] \in SUBSET (0 .. 31)
  <2>1. ws \in Seq(SUBSET (0 .. 31)) /\ 1 \in 1 .. Len(ws)
    BY <1>1 DEF Object
  <2> QED  BY <2>1, ElementOfSeq
<1>3. Get(c, ws, "mt") = Cut(ws[1], 28, 4)
  <2>1. 1 \in DOMAIN c.words
    BY DEF Layout, MessageSize
  <2>2. "mt" \in Fields(c)
    BY <2>1 DEF Layout, Fields
  <2> QED  BY <2>2, GetCut DEF Layout
<1>4. Cut(ws[1], 28, 4) \in SUBSET (0 .. 7)
  BY DEF Cut
<1>5. \A n \in 0 .. 15 : n \in Byte
  BY DEF Byte
<1> QED  BY <1>2, <1>3, <1>4, <1>5, ReadBytes, NumberIs

\* The status that it reads is the field status, Text for flex data of another bank.
LEMMA StatusRead ==
  ASSUME NEW c, Layout(c), NEW ws, Object(c, ws), MessageType(Bytes(ws[1])) = c.mt,
         NEW s \in 0 .. 255
  PROVE  /\ c.mt = MT_FLEX => "status_bank" \in Fields(c)
         /\ c.mt # MT_FLEX \/ Get(c, ws, "status_bank") = {} =>
              (StatusField(Bytes(ws[1])) = s <=> Get(c, ws, "status") = Bits[s])
         /\ c.mt = MT_FLEX /\ Get(c, ws, "status_bank") # {} =>
              StatusField(Bytes(ws[1])) = Text
<1> DEFINE w == ws[1]
<1>1. w \in SUBSET (0 .. 31)
  BY TypeRead
<1>2. s \in Byte
  BY DEF Byte
<1>3. 1 \in DOMAIN c.words
  BY DEF Layout, MessageSize
<1>4. "status" \in Fields(c)
  BY <1>3 DEF Layout, Fields
<1>5. MT_SYSTEM # MT_STREAM /\ MT_SYSTEM # MT_FLEX /\ MT_STREAM # MT_FLEX
  BY TypesDiffer
<1>6. \A p \in Nat, n \in 0 .. 8 : Cut(w, p, n) \in SUBSET (0 .. 7)
  BY DEF Cut
<1> HIDE DEF w
<1>7. CASE c.mt \notin {MT_SYSTEM, MT_STREAM, MT_FLEX}
  <2>1. Get(c, ws, "status") = Cut(w, 20, 4)
    <3>1. "status" \in DOMAIN c.words[1] /\ c.words[1]["status"] = <<20, 4>>
      BY <1>7 DEF Layout, StatusPlace
    <3> QED  BY <1>4, <3>1, GetCut DEF w
  <2>2. StatusField(Bytes(w)) = Number[Cut(w, 20, 4)]
    BY <1>1, <1>7, ReadBytes DEF StatusField, w
  <2> QED  BY <1>2, <1>6, <1>7, <2>1, <2>2, NumberIs DEF w
<1>8. CASE c.mt = MT_SYSTEM
  <2>1. Get(c, ws, "status") = Cut(w, 16, 8)
    <3>1. "status" \in DOMAIN c.words[1] /\ c.words[1]["status"] = <<16, 8>>
      BY <1>8 DEF Layout, StatusPlace
    <3> QED  BY <1>4, <3>1, GetCut DEF w
  <2>2. StatusField(Bytes(w)) = Number[Cut(w, 16, 8)]
    BY <1>1, <1>8, ReadBytes DEF StatusField, w
  <2> QED  BY <1>2, <1>5, <1>6, <1>8, <2>1, <2>2, NumberIs DEF w
<1>9. CASE c.mt = MT_STREAM
  <2>1. Get(c, ws, "status") = Cut(w, 16, 10)
    <3>1. "status" \in DOMAIN c.words[1] /\ c.words[1]["status"] = <<16, 10>>
      BY <1>5, <1>9 DEF Layout, StatusPlace
    <3> QED  BY <1>4, <3>1, GetCut DEF w
  <2>2. StatusField(Bytes(w)) = 256 * (Bytes(w)[1] % 4) + Number[Cut(w, 16, 8)]
    BY <1>1, <1>5, <1>9, ReadBytes DEF StatusField, w
  <2>3. Number[Cut(w, 16, 8)] \in Byte
    BY <1>6, NumberSum
  <2>4. StatusField(Bytes(w)) = s <=> (Bytes(w)[1] % 4) = 0 /\ Number[Cut(w, 16, 8)] = s
    <3> DEFINE k == (Bytes(w)[1] % 4)
               m == Number[Cut(w, 16, 8)]
    <3>1. k \in 0 .. 3 /\ m \in 0 .. 255 /\ StatusField(Bytes(w)) = 256 * k + m
      BY <1>1, <2>2, <2>3, ReadBytes DEF Byte
    <3> HIDE DEF k, m
    <3>2. StatusField(Bytes(w)) = s <=> k = 0 /\ m = s
      BY <3>1
    <3> QED  BY <3>2 DEF k, m
  <2>5. Bits[s] \subseteq 0 .. 7
    BY <1>2, BitsOfNumber
  <2>6. Cut(w, 16, 10) = Bits[s] <=> 24 \notin w /\ 25 \notin w /\ Cut(w, 16, 8) = Bits[s]
    <3>1. /\ \A x \in 0 .. 7 : x \in Cut(w, 16, 10) <=> x \in Cut(w, 16, 8)
          /\ 8 \in Cut(w, 16, 10) <=> 24 \in w
          /\ 9 \in Cut(w, 16, 10) <=> 25 \in w
          /\ Cut(w, 16, 8) \subseteq 0 .. 7
          /\ \A x \in Cut(w, 16, 10) : x \in 0 .. 7 \/ x = 8 \/ x = 9
      BY DEF Cut
    <3>2. 8 \notin Bits[s] /\ 9 \notin Bits[s]
      BY <2>5
    <3> QED  BY <2>5, <3>1, <3>2
  <2>7. StatusField(Bytes(w)) = s <=> Get(c, ws, "status") = Bits[s]
    BY <1>1, <1>2, <1>6, <2>1, <2>4, <2>6, ReadBytes, NumberIs
  <2> QED  BY <1>5, <1>9, <2>7 DEF w
<1>10. CASE c.mt = MT_FLEX
  <2>1. /\ Get(c, ws, "status") = Cut(w, 0, 8)
        /\ "status_bank" \in Fields(c)
        /\ Get(c, ws, "status_bank") = Cut(w, 8, 8)
    <3>1. /\ "status" \in DOMAIN c.words[1] /\ c.words[1]["status"] = <<0, 8>>
          /\ "status_bank" \in DOMAIN c.words[1] /\ c.words[1]["status_bank"] = <<8, 8>>
      BY <1>5, <1>10 DEF Layout, StatusPlace
    <3>2. "status_bank" \in Fields(c)
      BY <1>3, <3>1 DEF Fields
    <3>3. Get(c, ws, "status") = Cut(w, 0, 8)
      BY <1>4, <3>1, GetCut DEF w
    <3>4. Get(c, ws, "status_bank") = Cut(w, 8, 8)
      BY <3>1, <3>2, GetCut DEF w
    <3> QED  BY <3>2, <3>3, <3>4
  <2>2. StatusField(Bytes(w)) =
          IF Number[Cut(w, 8, 8)] = 0 THEN Number[Cut(w, 0, 8)] ELSE Text
    BY <1>1, <1>5, <1>10, ReadBytes DEF StatusField, w
  <2>3. Number[Cut(w, 8, 8)] = 0 <=> Cut(w, 8, 8) = {}
    <3>1. Number[{}] = 0
      <4>1. Number[{}] = Sum({})
        BY NumberSum
      <4>2. Sum({}) = 0
        BY DEF Sum, Bit
      <4> QED  BY <4>1, <4>2
    <3>2. {} \in SUBSET (0 .. 7) /\ Cut(w, 8, 8) \in SUBSET (0 .. 7)
      BY <1>6
    <3> QED  BY <3>1, <3>2, NumberInjective
  <2> QED  BY <1>2, <1>6, <1>10, <2>1, <2>2, <2>3, NumberIs DEF w
<1> QED  BY <1>7, <1>8, <1>9, <1>10

-------------------------------------------------------------------------------
(* The invariant.                                                                *)

\* What the words of a message say of the class it was made of.
Marked(c, ws) ==
  /\ Get(c, ws, "mt") = Bits[c.mt]
  /\ "status" \in c.fixed => Get(c, ws, "status") = Bits[c.status]
\* ... and of what the client gave it.
Keeps(c, ws, want) ==
  /\ DOMAIN want = Settable(c)
  /\ \A f \in Settable(c) :
       \/ Get(c, ws, f) = want[f]
       \/ f \in Aliases /\ Aliases \subseteq Settable(c)
Carries(c, ws, data) ==
  AfterView \subseteq {{}} => \A bytes \in data : Data(c, ws) = bytes
\* An object of the class, with what the client gave it.
Faithful(c, ws, want, data) ==
  /\ c \in Classes /\ Object(c, ws) /\ Marked(c, ws)
  /\ Keeps(c, ws, want) /\ Carries(c, ws, data)

\* The message being built or sent, and the last one that was read.
Building ==
  type # NoType =>
    /\ Faithful(type, words, wanted, assigned)
    /\ sent < Len(words) /\ \A i \in 1 .. sent : message[i] = Bytes(words[i])
Reading ==
  HasRead =>
    /\ Faithful(heard.type, heard.words, heard.wanted, heard.assigned)
    /\ heard.by = Handler(Bytes(heard.words[1]))
Inv ==
  /\ type \in Classes \union {NoType}
  /\ sent \in Nat /\ message \in Seq(Word) /\ Len(message) = sent
  /\ type = NoType => sent = 0
  /\ Building /\ Reading

(* A status fits its field, and so do the numbers below two hundred and fifty-six. *)
LEMMA StatusFits ==
  ASSUME NEW h \in Handlers, h = <<h[1], h[2]>>, h[2] # Text
  PROVE  h[2] \in 0 .. 255 /\ (StatusPlace(h[1])[2] = 4 => h[2] \in 0 .. 15)
<1> DEFINE mt == h[1]
           s  == h[2]
<1>1. \/ s \in UtilityStatus \union M1cvmStatus \union M2cvmStatus \union Data128Status
      \/ mt = MT_SYSTEM /\ s \in SystemStatus
      \/ s \in Data64Status
      \/ mt = MT_STREAM /\ s \in StreamStatus
      \/ mt = MT_FLEX /\ s \in FlexStatus
  BY DEF Handlers
<1>2. SystemStatus \subseteq 0 .. 255
  BY DEF SystemStatus, TIMING_CODE, SPP, SONG_SELECT, TUNE_REQUEST, TIMING_CLOCK,
     SEQUENCE_START, SEQUENCE_CONTINUE, SEQUENCE_STOP, ACTIVE_SENSING, SYSTEM_RESET
<1>3. Data64Status \subseteq 0 .. 15
  BY DEF Data64Status, SYSEX7_IN_1, SYSEX7_START, SYSEX7_CONTINUE, SYSEX7_END
<1>4. UtilityStatus \union M1cvmStatus \union M2cvmStatus \union Data128Status \subseteq 0 .. 15
  BY DEF UtilityStatus, M1cvmStatus, M2cvmStatus, Data128Status
<1>5. StreamStatus \subseteq 0 .. 255
  BY DEF StreamStatus
<1>6. \A x \in FlexStatus : x # Text => x \in 0 .. 255
  BY DEF FlexStatus
<1>7. /\ StatusPlace(MT_SYSTEM)[2] # 4 /\ StatusPlace(MT_STREAM)[2] # 4
      /\ StatusPlace(MT_FLEX)[2] # 4
  BY TypesDiffer DEF StatusPlace
<1>8. s # Text
  OBVIOUS
<1> HIDE DEF mt, s
<1>9. s \in 0 .. 255 /\ (StatusPlace(mt)[2] = 4 => s \in 0 .. 15)
  <2>1. \A x \in 0 .. 15 : x \in 0 .. 255
    OBVIOUS
  <2> QED  BY <1>1, <1>2, <1>3, <1>4, <1>5, <1>6, <1>7, <1>8, <2>1
<1> QED  BY <1>9 DEF mt, s

\* What is known of every class, from its callback.
LEMMA KnownClass ==
  ASSUME NEW c \in Classes
  PROVE  /\ Layout(c) /\ c # NoType /\ "mt" \in c.fixed
         /\ c.status \in 0 .. 255 /\ (StatusPlace(c.mt)[2] = 4 => c.status \in 0 .. 15)
         /\ IF c = flex_text_common THEN c.mt = MT_FLEX /\ c.status = 0 /\ c.fixed = {"mt"}
            ELSE /\ "status" \in c.fixed
                 /\ <<c.mt, c.status>> \in Handlers /\ ClassOf[<<c.mt, c.status>>] = c
         /\ "data0" \in Fields(c) =>
              /\ Holds(c, 6, 7, TRUE) \/ Holds(c, 13, 8, TRUE) \/ Holds(c, 12, 8, FALSE)
              /\ c.fixed \subseteq {"mt", "status"}
<1>1. PICK h \in Handlers : h = <<h[1], h[2]>> /\ c = ClassOf[h] /\ Known(c, h[1], h[2])
  BY ClassOfHandler
<1>2. c # NoType
  <2>1. "mt" \in DOMAIN c
    BY <1>1 DEF Known, Layout
  <2>2. DOMAIN NoType = {}
    BY DEF NoType
  <2> QED  BY <2>1, <2>2
<1>3. CASE h[2] = Text
  <2>1. /\ c = flex_text_common /\ c.mt = MT_FLEX /\ c.status = 0 /\ c.fixed = {"mt"}
    BY <1>1, <1>3, TextClass DEF Known
  <2>2. c.status \in 0 .. 255 /\ c.status \in 0 .. 15
    BY <2>1
  <2>3. /\ Layout(c) /\ "mt" \in c.fixed
        /\ "data0" \in Fields(c) =>
             /\ Holds(c, 6, 7, TRUE) \/ Holds(c, 13, 8, TRUE) \/ Holds(c, 12, 8, FALSE)
             /\ c.fixed \subseteq {"mt", "status"}
    BY <1>1 DEF Known
  <2> QED  BY <1>2, <2>1, <2>2, <2>3
<1>4. CASE h[2] # Text
  <2>1. c.mt = h[1] /\ c.status = h[2] /\ "status" \in c.fixed
    BY <1>1, <1>4 DEF Known
  <2>2. c # flex_text_common
    BY <2>1, TextClass
  <2>3. c.status \in 0 .. 255 /\ (StatusPlace(c.mt)[2] = 4 => c.status \in 0 .. 15)
    BY <1>1, <1>4, <2>1, StatusFits
  <2>4. <<c.mt, c.status>> \in Handlers /\ ClassOf[<<c.mt, c.status>>] = c
    BY <1>1, <2>1
  <2> QED  BY <1>1, <1>2, <2>1, <2>2, <2>3, <2>4 DEF Known
<1> QED  BY <1>3, <1>4

-------------------------------------------------------------------------------
(* A new object.                                                                 *)

(* The constructor sets the message type and the status, and nothing else.       *)
LEMMA MadeKeeps ==
  ASSUME NEW c \in Classes
  PROVE  /\ Object(c, Made(c)) /\ Marked(c, Made(c))
         /\ \A f \in Settable(c) : Get(c, Made(c), f) = {}
<1> DEFINE empty  == [i \in DOMAIN c.words |-> {}]
           values == [mt |-> Bits[c.mt], status |-> Bits[c.status]]
<1>1. /\ Layout(c) /\ "mt" \in c.fixed /\ c.status \in 0 .. 255 /\ c.mt \in 0 .. 15
      /\ StatusPlace(c.mt)[2] = 4 => c.status \in 0 .. 15
      /\ "status" \in c.fixed \/ c.status = 0
  BY KnownClass DEF Layout
<1>2. /\ DOMAIN values = {"mt", "status"} /\ values["mt"] = Bits[c.mt]
      /\ values["status"] = Bits[c.status]
  OBVIOUS
<1>3. /\ "mt" \in Fields(c) /\ "status" \in Fields(c)
      /\ FieldOf(c, "mt") = <<28, 4>> /\ FieldOf(c, "status") = StatusPlace(c.mt)
  <2>1. 1 \in DOMAIN c.words
    BY <1>1 DEF Layout, MessageSize
  <2>2. /\ "mt" \in DOMAIN c.words[1] /\ c.words[1]["mt"] = <<28, 4>>
        /\ "status" \in DOMAIN c.words[1] /\ c.words[1]["status"] = StatusPlace(c.mt)
    BY <1>1 DEF Layout
  <2>3. "mt" \in Fields(c) /\ "status" \in Fields(c)
    BY <2>1, <2>2 DEF Fields
  <2>4. WordOf(c, "mt") = 1 /\ WordOf(c, "status") = 1
    BY <1>1, <2>1, <2>2, <2>3, Place
  <2> QED  BY <2>2, <2>3, <2>4 DEF FieldOf
<1>4. Bits[c.mt] \subseteq AllOnes(c, "mt")
  BY <1>1, <1>3, NibbleBits DEF AllOnes
<1>5. Bits[c.status] \subseteq AllOnes(c, "status")
  <2>1. Bits[c.status] \subseteq 0 .. 7
    BY <1>1, BitsOfNumber DEF Byte
  <2>2. CASE StatusPlace(c.mt)[2] = 4
    BY <1>1, <1>3, <2>2, NibbleBits DEF AllOnes
  <2>3. CASE StatusPlace(c.mt)[2] = 8 \/ StatusPlace(c.mt)[2] = 10
    BY <1>3, <2>1, <2>3 DEF AllOnes
  <2>4. StatusPlace(c.mt)[2] \in {4, 8, 10}
    BY DEF StatusPlace
  <2> QED  BY <2>2, <2>3, <2>4
<1>6. Made(c) = SetFields(c, empty, values)
  BY DEF Made
<1>7. \A f \in Fields(c) : f \in DOMAIN values => values[f] \subseteq AllOnes(c, f)
  BY <1>2, <1>4, <1>5
<1>8. ~ (Aliases \subseteq DOMAIN values)
  BY <1>2 DEF Aliases
<1>9. \A i \in DOMAIN c.words : empty[i] \subseteq 0 .. 31
  OBVIOUS
<1> HIDE DEF empty, values
<1>10. Object(c, Made(c))
  BY <1>1, <1>6, <1>7, <1>9, SetObject
<1>11. Get(c, Made(c), "mt") = Bits[c.mt] /\ Get(c, Made(c), "status") = Bits[c.status]
  BY <1>1, <1>2, <1>3, <1>6, <1>7, <1>8, GetSet
<1>12. ASSUME NEW f \in Settable(c)
       PROVE  Get(c, Made(c), f) = {}
  <2>1. f \in Fields(c) /\ f \notin c.fixed
    BY DEF Settable
  <2>2. CASE f = "status"
    <3>1. c.status = 0
      BY <1>1, <2>1, <2>2
    <3>2. Bits[0] = {}
      <4>1. Number[{}] = 0
        BY NumberSum DEF Sum, Bit
      <4> QED  BY <4>1, BitsOfNumber
    <3> QED  BY <1>11, <2>2, <3>1, <3>2
  <2>3. CASE f # "status"
    <3>1. f \notin DOMAIN values /\ \A g \in DOMAIN values : {f, g} # Aliases
      <4>1. \A g \in {"mt", "status"} : g \notin Aliases
        BY DEF Aliases
      <4> QED  BY <1>1, <1>2, <2>1, <2>3, <4>1
    <3>2. Get(c, Made(c), f) = Get(c, empty, f)
      BY <1>1, <1>6, <1>7, <1>8, <2>1, <3>1, GetSet
    <3>3. empty[WordOf(c, f)] = {}
      <4>1. WordOf(c, f) \in DOMAIN c.words
        BY <1>1, <2>1, Place DEF Layout
      <4> QED  BY <4>1 DEF empty
    <3>4. Get(c, empty, f) = {}
      BY <3>3 DEF Get
    <3> QED  BY <3>2, <3>4
  <2> QED  BY <2>2, <2>3
<1> QED  BY <1>10, <1>11, <1>12 DEF Marked

-------------------------------------------------------------------------------
(* The setters.                                                                  *)

(* Setting fields that have a setter leaves the mark of the class, and what was   *)
(* given to the other fields.                                                     *)
LEMMA SetKeeps ==
  ASSUME NEW c \in Classes, NEW ws, Object(c, ws), Marked(c, ws), NEW values,
         \A f \in Fields(c) : f \in DOMAIN values =>
           f \notin c.fixed /\ values[f] \subseteq AllOnes(c, f),
         ~ (Aliases \subseteq DOMAIN values)
  PROVE  /\ Object(c, SetFields(c, ws, values)) /\ Marked(c, SetFields(c, ws, values))
         /\ \A f \in Fields(c) :
              /\ f \in DOMAIN values => Get(c, SetFields(c, ws, values), f) = values[f]
              /\ f \notin DOMAIN values /\ (\A g \in DOMAIN values : {f, g} # Aliases) =>
                   Get(c, SetFields(c, ws, values), f) = Get(c, ws, f)
<1> DEFINE next == SetFields(c, ws, values)
<1>1. Layout(c)
  BY KnownClass
<1>2. \A i \in DOMAIN c.words : ws[i] \subseteq 0 .. 31
  <2>1. ws \in Seq(SUBSET (0 .. 31)) /\ DOMAIN c.words = 1 .. Len(ws)
    BY <1>1 DEF Object, Layout
  <2>2. \A i \in 1 .. Len(ws) : ws[i] \in SUBSET (0 .. 31)
    BY <2>1, ElementOfSeq
  <2> QED  BY <2>1, <2>2
<1>3. Object(c, next)
  BY <1>1, <1>2, SetObject
<1>4. \A f \in Fields(c) :
        /\ f \in DOMAIN values => Get(c, next, f) = values[f]
        /\ f \notin DOMAIN values /\ (\A g \in DOMAIN values : {f, g} # Aliases) =>
             Get(c, next, f) = Get(c, ws, f)
  BY <1>1, GetSet
<1>5. "mt" \in c.fixed /\ "mt" \in Fields(c) /\ "status" \in Fields(c)
  <2>1. 1 \in DOMAIN c.words
    BY <1>1 DEF Layout, MessageSize
  <2>2. "mt" \in DOMAIN c.words[1] /\ "status" \in DOMAIN c.words[1]
    BY <1>1 DEF Layout
  <2>3. "mt" \in c.fixed
    BY KnownClass
  <2> QED  BY <2>1, <2>2, <2>3 DEF Fields
<1>6. "mt" \notin Aliases /\ "status" \notin Aliases
  BY DEF Aliases
<1> HIDE DEF next
<1>7. Get(c, next, "mt") = Get(c, ws, "mt")
  <2>1. "mt" \notin DOMAIN values /\ \A g \in DOMAIN values : {"mt", g} # Aliases
    BY <1>5, <1>6
  <2> QED  BY <1>4, <1>5, <2>1
<1>8. ASSUME "status" \in c.fixed
      PROVE  Get(c, next, "status") = Get(c, ws, "status")
  <2>1. "status" \notin DOMAIN values /\ \A g \in DOMAIN values : {"status", g} # Aliases
    BY <1>5, <1>6, <1>8
  <2> QED  BY <1>4, <1>5, <2>1
<1>9. Marked(c, next)
  BY <1>7, <1>8 DEF Marked
<1> QED  BY <1>3, <1>4, <1>9 DEF next

\* A setter gives its field the value and no other field another one.
LEMMA SetFieldKeeps ==
  ASSUME NEW c \in Classes, NEW ws, Object(c, ws), Marked(c, ws), NEW want, Keeps(c, ws, want),
         NEW f \in Settable(c), NEW v, v \subseteq AllOnes(c, f)
  PROVE  LET next == SetFields(c, ws, [g \in {f} |-> v])
         IN  Object(c, next) /\ Marked(c, next) /\ Keeps(c, next, [want EXCEPT ![f] = v])
<1> DEFINE values == [g \in {f} |-> v]
           next   == SetFields(c, ws, values)
           given  == [want EXCEPT ![f] = v]
<1>1. DOMAIN values = {f} /\ values[f] = v
  OBVIOUS
<1>2. ~ (Aliases \subseteq {f})
  BY DEF Aliases
<1>3. f \in Fields(c) /\ f \notin c.fixed /\ DOMAIN want = Settable(c)
  BY DEF Settable, Keeps
<1>4. /\ DOMAIN given = Settable(c) /\ given[f] = v
      /\ \A g \in Settable(c) : g # f => given[g] = want[g]
  BY <1>3
<1> HIDE DEF values
<1>5. /\ Object(c, next) /\ Marked(c, next)
      /\ \A g \in Fields(c) :
              /\ g \in DOMAIN values => Get(c, next, g) = values[g]
              /\ g \notin DOMAIN values /\ (\A k \in DOMAIN values : {g, k} # Aliases) =>
                   Get(c, next, g) = Get(c, ws, g)
  BY <1>1, <1>2, <1>3, SetKeeps
<1> HIDE DEF next, given
<1>6. ASSUME NEW g \in Settable(c)
      PROVE  Get(c, next, g) = given[g] \/ (g \in Aliases /\ Aliases \subseteq Settable(c))
  <2>1. g \in Fields(c)
    BY DEF Settable
  <2>2. CASE g = f
    BY <1>1, <1>4, <1>5, <2>1, <2>2
  <2>3. CASE {g, f} = Aliases
    BY <2>3
  <2>4. CASE g # f /\ {g, f} # Aliases
    <3>1. Get(c, next, g) = Get(c, ws, g)
      BY <1>1, <1>5, <2>1, <2>4
    <3> QED  BY <1>4, <2>4, <3>1 DEF Keeps
  <2> QED  BY <2>2, <2>3, <2>4
<1>7. Keeps(c, next, given)
  BY <1>4, <1>6 DEF Keeps
<1> QED  BY <1>5, <1>7 DEF next, given, values

-------------------------------------------------------------------------------
(* Assigning bytes.                                                              *)

\* A class that holds bytes, with room for n of them.
Room(c, n, width) ==
  /\ n \in 1 .. 13 /\ Elements(c) = 1 .. n /\ MaxSize(c) = n
  /\ \A i \in 1 .. n : /\ DataFields[i] \in Fields(c) /\ DataFields[i] \notin c.fixed
                       /\ AllOnes(c, DataFields[i]) = 0 .. width - 1
  /\ \A i \in 1 .. 13 : i > n => DataFields[i] \notin Fields(c)
  /\ width \in 7 .. 8
  /\ IsText(c) => width = 8
  /\ ~IsText(c) => /\ "number_of_bytes" \in Fields(c) /\ "number_of_bytes" \notin c.fixed
                   /\ AllOnes(c, "number_of_bytes") = 0 .. 3

\* A class with data0 and data1 holds a number of bytes.
LEMMA HasRoom ==
  ASSUME NEW c \in Classes, IsArray(c)
  PROVE  \E n, width : Room(c, n, width)
<1>1. "data0" \in Fields(c) /\ Layout(c) /\ c.fixed \subseteq {"mt", "status"}
  BY KnownClass DEF IsArray
<1>2. PICK n, width :
        /\ Holds(c, n, width, TRUE) \/ Holds(c, n, width, FALSE)
        /\ width \in 7 .. 8 /\ (IsText(c) => width = 8)
        /\ ~IsText(c) => Holds(c, n, width, TRUE)
  <2>1. Holds(c, 6, 7, TRUE) \/ Holds(c, 13, 8, TRUE) \/ Holds(c, 12, 8, FALSE)
    BY <1>1, KnownClass
  <2>2. /\ Holds(c, 6, 7, TRUE) => ~IsText(c)
        /\ Holds(c, 12, 8, FALSE) => IsText(c)
    BY DEF Holds, IsText
  <2>3. 7 \in 7 .. 8 /\ 8 \in 7 .. 8
    OBVIOUS
  <2> QED  BY <2>1, <2>2, <2>3, Zenon
<1>3. n \in 1 .. 13 /\ \A i \in 1 .. 13 : i > n => DataFields[i] \notin Fields(c)
  BY <1>2 DEF Holds
<1>4. ASSUME NEW i \in 1 .. n
      PROVE  /\ DataFields[i] \in Fields(c) /\ DataFields[i] \notin c.fixed
             /\ AllOnes(c, DataFields[i]) = 0 .. width - 1
  <2>1. PICK k \in DOMAIN c.words :
          DataFields[i] \in DOMAIN c.words[k] /\ c.words[k][DataFields[i]][2] = width
    BY <1>2 DEF Holds
  <2>2. DataFields[i] \in Fields(c)
    BY <2>1 DEF Fields
  <2>3. FieldOf(c, DataFields[i])[2] = width
    BY <1>1, <2>1, <2>2, Place
  <2>4. DataFields[i] \notin HeadNames
    BY <1>3, DataIndex
  <2> QED  BY <1>1, <2>2, <2>3, <2>4 DEF AllOnes, HeadNames
<1>5. Elements(c) = 1 .. n
  <2>1. Elements(c) = {i \in 1 .. 13 : DataFields[i] \in Fields(c)}
    BY DataIndex DEF Elements
  <2> QED  BY <1>3, <1>4, <2>1
<1>6. MaxSize(c) = n
  <2>1. 1 \in Int /\ n \in Int /\ 1 <= n
    BY <1>3
  <2>2. Cardinality(1 .. n) = n - 1 + 1
    BY <2>1, FS_Interval
  <2> QED  BY <1>5, <2>1, <2>2 DEF MaxSize
<1>8. ASSUME ~IsText(c)
      PROVE  /\ "number_of_bytes" \in Fields(c) /\ "number_of_bytes" \notin c.fixed
             /\ AllOnes(c, "number_of_bytes") = 0 .. 3
  <2>1. 1 \in DOMAIN c.words
    BY <1>1 DEF Layout, MessageSize
  <2>2. /\ "number_of_bytes" \in DOMAIN c.words[1]
        /\ c.words[1]["number_of_bytes"][2] = 4
    BY <1>2, <1>8 DEF Holds
  <2>3. "number_of_bytes" \in Fields(c)
    BY <2>1, <2>2 DEF Fields
  <2>4. FieldOf(c, "number_of_bytes")[2] = 4
    BY <1>1, <2>1, <2>2, <2>3, Place
  <2> QED  BY <1>1, <2>3, <2>4 DEF AllOnes
<1>9. Room(c, n, width)
  BY <1>2, <1>3, <1>4, <1>5, <1>6, <1>8 DEF Room
<1> QED  BY <1>9

\* The place of a data field among them.
LEMMA IndexOf ==
  ASSUME NEW i \in 1 .. 13
  PROVE  Index(DataFields[i]) = i /\ DataFields[i] \in ToSet(DataFields)
<1>1. i \in DOMAIN DataFields /\ DOMAIN DataFields = 1 .. 13
  BY DataIndex
<1>2. \A j \in DOMAIN DataFields : DataFields[j] = DataFields[i] => j = i
  BY <1>1, DataIndex
<1> QED  BY <1>1, <1>2 DEF Index, ToSet

\* The values that an assignment gives, the bytes after the last one being {}.
Values(data, filled, size) == Stored(data, filled) ++ [number_of_bytes |-> Bits[size]]

\* The fields that an assignment sets, and their values.
LEMMA StoredValues ==
  ASSUME NEW data \in Seq(SUBSET (0 .. 7)), NEW n \in 0 .. 13, NEW size
  PROVE  /\ DOMAIN Values(data, n, size) =
              {DataFields[i] : i \in 1 .. n} \union {"number_of_bytes"}
         /\ Values(data, n, size)["number_of_bytes"] = Bits[size]
         /\ \A i \in 1 .. n : Values(data, n, size)[DataFields[i]] =
                                IF i <= Len(data) THEN data[i] ELSE {}
         /\ ~ (Aliases \subseteq DOMAIN Values(data, n, size))
         /\ \A f, g : g \in DOMAIN Values(data, n, size) => {f, g} # Aliases
<1> DEFINE names  == {DataFields[i] : i \in 1 .. n}
           stored == Stored(data, n)
           number == [number_of_bytes |-> Bits[size]]
<1>1. DOMAIN stored = names
  BY DEF Stored
<1>2. \A i \in 1 .. n : stored[DataFields[i]] = IF i <= Len(data) THEN data[i] ELSE {}
  <2>1. ASSUME NEW i \in 1 .. n
        PROVE  stored[DataFields[i]] = IF i <= Len(data) THEN data[i] ELSE {}
    <3>1. DataFields[i] \in names /\ Index(DataFields[i]) = i
      BY IndexOf
    <3> QED  BY <3>1 DEF Stored
  <2> QED  BY <2>1
<1>3. DOMAIN number = {"number_of_bytes"} /\ number["number_of_bytes"] = Bits[size]
  OBVIOUS
<1>4. "number_of_bytes" \notin names
  <2>1. \A i \in 1 .. n : DataFields[i] # "number_of_bytes"
    BY DataIndex DEF HeadNames
  <2> QED  BY <2>1
<1>5. \A f \in names \union {"number_of_bytes"} : f \notin Aliases
  <2>1. \A i \in 1 .. 13 : i = 1 \/ i = 2 \/ i = 3 \/ i = 4 \/ i = 5 \/ i = 6 \/ i = 7
                             \/ i = 8 \/ i = 9 \/ i = 10 \/ i = 11 \/ i = 12 \/ i = 13
    OBVIOUS
  <2>2. \A i \in 1 .. 13 : DataFields[i] \notin Aliases
    BY <2>1, DataIndex DEF Aliases
  <2> QED  BY <2>2 DEF Aliases
<1> HIDE DEF stored, number, names
<1>6. /\ DOMAIN (stored ++ number) = names \union {"number_of_bytes"}
      /\ \A x \in names : (stored ++ number)[x] = stored[x]
      /\ (stored ++ number)["number_of_bytes"] = Bits[size]
  <2>1. /\ DOMAIN (stored ++ number) = DOMAIN stored \union DOMAIN number
        /\ \A x \in DOMAIN stored : (stored ++ number)[x] = stored[x]
        /\ \A x \in DOMAIN number : x \notin DOMAIN stored => (stored ++ number)[x] = number[x]
    BY Merged, Zenon
  <2> QED  BY <1>1, <1>3, <1>4, <2>1
<1>7. Values(data, n, size) = stored ++ number
  BY DEF Values, stored, number
<1>8. \A i \in 1 .. n : DataFields[i] \in names
  BY DEF names
<1>9. "option_flags" \in Aliases /\ \A f, g : {f, g} = Aliases => g \in Aliases
  BY DEF Aliases
<1> QED  BY <1>2, <1>5, <1>6, <1>7, <1>8, <1>9 DEF names

(* What an assignment does to each field: the bytes it gives, the NULs that fill   *)
(* up text, the number of bytes; the other fields keep their values.               *)
LEMMA AssignedFields ==
  ASSUME NEW c \in Classes, IsArray(c), NEW ws, Object(c, ws), Marked(c, ws),
         NEW data \in Seq(SUBSET (0 .. 7)),
         \A i \in 1 .. Len(data) : data[i] \subseteq AllOnes(c, "data0")
  PROVE  LET next == Assigned(c, ws, data)
             size == Least(Len(data), MaxSize(c))
         IN  /\ Object(c, next) /\ Marked(c, next)
             /\ size \in 0 .. MaxSize(c) /\ size <= Len(data)
             /\ \A i \in 1 .. MaxSize(c) :
                  Get(c, next, DataFields[i]) =
                    IF i <= size THEN data[i]
                    ELSE IF IsText(c) THEN {} ELSE Get(c, ws, DataFields[i])
             /\ ~IsText(c) => Get(c, next, "number_of_bytes") = Bits[size]
             /\ \A f \in Fields(c) : f \notin ToSet(DataFields) /\ f # "number_of_bytes" =>
                  Get(c, next, f) = Get(c, ws, f)
<1>1. PICK n, width : Room(c, n, width)
  BY HasRoom
<1> DEFINE size   == Least(Len(data), MaxSize(c))
           filled == IF IsText(c) THEN MaxSize(c) ELSE size
           values == Values(data, filled, size)
           next   == Assigned(c, ws, data)
<1>2. n \in 1 .. 13 /\ MaxSize(c) = n /\ Len(data) \in Nat
  BY <1>1 DEF Room
<1>3. size \in 0 .. n /\ size <= Len(data) /\ (size < n => size = Len(data))
  BY <1>2 DEF Least
<1>4. filled \in 0 .. n /\ (IsText(c) => filled = n) /\ (~IsText(c) => filled = size)
  BY <1>2, <1>3
<1>5. next = SetFields(c, ws, values)
  BY DEF Assigned, Values
<1> HIDE DEF size, filled
<1>6. /\ DOMAIN values = {DataFields[i] : i \in 1 .. filled} \union {"number_of_bytes"}
      /\ values["number_of_bytes"] = Bits[size]
      /\ \A i \in 1 .. filled : values[DataFields[i]] = IF i <= Len(data) THEN data[i] ELSE {}
      /\ ~ (Aliases \subseteq DOMAIN values)
      /\ \A f, g : g \in DOMAIN values => {f, g} # Aliases
  <2>1. filled \in 0 .. 13
    BY <1>2, <1>4
  <2> QED  BY <2>1, StoredValues
<1> HIDE DEF values, next
<1>7. ASSUME NEW f \in Fields(c), f \in DOMAIN values
      PROVE  f \notin c.fixed /\ values[f] \subseteq AllOnes(c, f)
  <2>1. CASE f = "number_of_bytes"
    <3>1. ~IsText(c)
      BY <2>1 DEF IsText
    <3>2. f \notin c.fixed /\ AllOnes(c, f) = 0 .. 3
      BY <1>1, <2>1, <3>1 DEF Room
    <3>3. Bits[size] \subseteq 0 .. 3
      BY <1>2, <1>3, NibbleBits
    <3> QED  BY <1>6, <2>1, <3>2, <3>3
  <2>2. CASE f \in {DataFields[i] : i \in 1 .. filled}
    <3>1. PICK i \in 1 .. filled : f = DataFields[i]
      BY <2>2
    <3>2. i \in 1 .. n /\ 1 \in 1 .. n /\ DataFields[1] = "data0"
      BY <1>2, <1>4, DataIndex
    <3>3. /\ f \notin c.fixed /\ AllOnes(c, f) = 0 .. width - 1
          /\ AllOnes(c, "data0") = 0 .. width - 1
      BY <1>1, <3>1, <3>2 DEF Room
    <3>4. i <= Len(data) => data[i] \subseteq AllOnes(c, "data0")
      BY <1>2, <3>2
    <3> QED  BY <1>6, <3>1, <3>3, <3>4
  <2> QED  BY <1>6, <1>7, <2>1, <2>2
<1>8. /\ Object(c, next) /\ Marked(c, next)
      /\ \A f \in Fields(c) :
           /\ f \in DOMAIN values => Get(c, next, f) = values[f]
           /\ f \notin DOMAIN values => Get(c, next, f) = Get(c, ws, f)
  <2>1. ~ (Aliases \subseteq DOMAIN values)
    BY <1>6
  <2>2. \A f \in Fields(c) : f \in DOMAIN values =>
          f \notin c.fixed /\ values[f] \subseteq AllOnes(c, f)
    BY <1>7
  <2>3. /\ Object(c, SetFields(c, ws, values)) /\ Marked(c, SetFields(c, ws, values))
        /\ \A f \in Fields(c) :
             /\ f \in DOMAIN values => Get(c, SetFields(c, ws, values), f) = values[f]
             /\ f \notin DOMAIN values /\ (\A g \in DOMAIN values : {f, g} # Aliases) =>
                  Get(c, SetFields(c, ws, values), f) = Get(c, ws, f)
    BY <2>1, <2>2, SetKeeps
  <2>4. \A f : \A g \in DOMAIN values : {f, g} # Aliases
    BY <1>6
  <2> QED  BY <1>5, <2>3, <2>4
<1>9. ASSUME NEW i \in 1 .. n
      PROVE  Get(c, next, DataFields[i]) =
               IF i <= size THEN data[i]
               ELSE IF IsText(c) THEN {} ELSE Get(c, ws, DataFields[i])
  <2>1. DataFields[i] \in Fields(c)
    BY <1>1 DEF Room
  <2>2. CASE i \in 1 .. filled
    <3>1. DataFields[i] \in DOMAIN values
      BY <1>6, <2>2
    <3>2. Get(c, next, DataFields[i]) = IF i <= Len(data) THEN data[i] ELSE {}
      BY <1>6, <1>8, <2>1, <2>2, <3>1
    <3>3. i <= Len(data) <=> i <= size
      BY <1>2, <1>3
    <3>4. i <= size \/ IsText(c)
      BY <1>4, <2>2
    <3> QED  BY <3>2, <3>3, <3>4
  <2>3. CASE i \notin 1 .. filled
    <3>1. DataFields[i] \notin DOMAIN values
      <4>1. DataFields[i] # "number_of_bytes"
        BY <1>2, DataIndex DEF HeadNames
      <4>2. \A j \in 1 .. filled : DataFields[i] # DataFields[j]
        BY <1>2, <1>4, <2>3, DataIndex
      <4> QED  BY <1>6, <4>1, <4>2
    <3>2. i > size /\ ~IsText(c)
      BY <1>2, <1>3, <1>4, <2>3
    <3>3. Get(c, next, DataFields[i]) = Get(c, ws, DataFields[i])
      BY <1>8, <2>1, <3>1
    <3> QED  BY <1>3, <3>2, <3>3
  <2> QED  BY <2>2, <2>3
<1>10. ~IsText(c) => Get(c, next, "number_of_bytes") = Bits[size]
  BY <1>6, <1>8 DEF IsText
<1>11. ASSUME NEW f \in Fields(c), f \notin ToSet(DataFields), f # "number_of_bytes"
       PROVE  Get(c, next, f) = Get(c, ws, f)
  <2>1. \A i \in 1 .. filled : DataFields[i] # f
    BY <1>2, <1>4, <1>11, IndexOf
  <2>2. f \notin DOMAIN values
    BY <1>6, <1>11, <2>1
  <2> QED  BY <1>8, <2>2
<1> QED  BY <1>2, <1>3, <1>8, <1>9, <1>10, <1>11 DEF size, next

(* The bytes that an iteration reads are those that were assigned: as many as the   *)
(* number of bytes says, and in text those before the first NUL.                    *)
LEMMA ReadBack ==
  ASSUME NEW c \in Classes, IsArray(c), NEW ws, Object(c, ws), Marked(c, ws),
         NEW data \in Seq(SUBSET (0 .. 7)),
         \A i \in 1 .. Len(data) : data[i] \subseteq AllOnes(c, "data0"),
         NEW held \in 0 .. Least(Len(data), MaxSize(c)),
         ~IsText(c) => held = Least(Len(data), MaxSize(c)),
         \A i \in 1 .. Least(Len(data), MaxSize(c)) :
           IsText(c) => (data[i] = {} <=> i > held)
  PROVE  Data(c, Assigned(c, ws, data)) = SubSeq(data, 1, held)
<1> DEFINE next == Assigned(c, ws, data)
           size == Least(Len(data), MaxSize(c))
           N    == MaxSize(c)
<1>1. PICK n, width : Room(c, n, width)
  BY HasRoom
<1>2. N \in 1 .. 13 /\ Len(data) \in Nat
  BY <1>1 DEF Room
<1>3. /\ size \in 0 .. N /\ size <= Len(data)
      /\ \A i \in 1 .. N :
           Get(c, next, DataFields[i]) =
             IF i <= size THEN data[i] ELSE IF IsText(c) THEN {} ELSE Get(c, ws, DataFields[i])
      /\ ~IsText(c) => Get(c, next, "number_of_bytes") = Bits[size]
  BY AssignedFields
<1> HIDE DEF next, size, N
<1>4. held \in 0 .. size /\ held \in Nat
  BY <1>2, <1>3 DEF size
<1>5. Size(c, next) = held
  <2>1. CASE IsText(c)
    <3>1. \A i \in 1 .. N : Get(c, next, DataFields[i]) # {} <=> i <= held
      <4> SUFFICES ASSUME NEW i \in 1 .. N
                   PROVE  Get(c, next, DataFields[i]) # {} <=> i <= held
        OBVIOUS
      <4>1. CASE i <= size
        <5>1. data[i] = {} <=> i > held
          BY <1>2, <1>3, <2>1, <4>1 DEF size
        <5> QED  BY <1>2, <1>3, <1>4, <4>1, <5>1
      <4>2. CASE ~ (i <= size)
        BY <1>2, <1>3, <1>4, <2>1, <4>2
      <4> QED  BY <4>1, <4>2
    <3>2. {n_ \in 1 .. N : \A i \in 1 .. n_ : Get(c, next, DataFields[i]) # {}} = 1 .. held
      <4>1. ASSUME NEW m \in 1 .. N
            PROVE  (\A i \in 1 .. m : Get(c, next, DataFields[i]) # {}) <=> m <= held
        <5>1. ASSUME m <= held, NEW i \in 1 .. m
              PROVE  Get(c, next, DataFields[i]) # {}
          BY <1>2, <1>3, <1>4, <3>1, <5>1
        <5>2. ASSUME ~ (m <= held)
              PROVE  m \in 1 .. m /\ Get(c, next, DataFields[m]) = {}
                    <6>1. m \in 1 .. m
            BY <1>2
          <6> QED  BY <3>1, <5>2, <6>1
        <5> QED  BY <5>1, <5>2
      <4>2. \A m \in 1 .. held : m \in 1 .. N
        BY <1>2, <1>3, <1>4
      <4>3. \A m \in 1 .. N : m \in 1 .. held <=> m <= held
        BY <1>4
      <4> QED  BY <4>1, <4>2, <4>3
    <3>3. Cardinality(1 .. held) = held
      <4>1. Cardinality(1 .. held) = IF 1 > held THEN 0 ELSE held - 1 + 1
        <5>1. 1 \in Int /\ held \in Int
          BY <1>4
        <5> QED  BY <5>1, FS_Interval
      <4> QED  BY <1>4, <4>1
    <3> QED  BY <2>1, <3>2, <3>3 DEF Size, N
  <2>2. CASE ~IsText(c)
    <3>1. Size(c, next) = Number[Get(c, next, "number_of_bytes")]
      BY <2>2, Zenon DEF Size
    <3>3. held = size
      BY <2>2, Zenon DEF size
    <3>2. size \in Byte
      <4>1. size \in 0 .. N
        BY <1>3
      <4> QED  BY <1>2, <4>1 DEF Byte
    <3> QED  BY <1>3, <2>2, <3>1, <3>2, <3>3, BitsOfNumber
  <2> QED  BY <2>1, <2>2
<1>6. Data(c, next) = [i \in 1 .. held |-> Get(c, next, DataFields[i])]
  BY <1>5 DEF Data
<1>7. \A i \in 1 .. held : Get(c, next, DataFields[i]) = data[i]
  BY <1>2, <1>3, <1>4
<1>8. SubSeq(data, 1, held) = [i \in 1 .. held |-> data[i]]
  <2>1. held \in Int /\ 1 \in Int /\ data \in Seq(SUBSET (0 .. 7))
    BY <1>4
  <2>2. /\ SubSeq(data, 1, held) \in Seq(SUBSET (0 .. 7))
        /\ Len(SubSeq(data, 1, held)) = held
        /\ \A i \in 1 .. held : SubSeq(data, 1, held)[i] = data[i]
    <3>1. held <= Len(data)
      BY <1>2, <1>3, <1>4
    <3> QED  BY <1>2, <1>4, <2>1, <3>1
  <2> DEFINE s == SubSeq(data, 1, held)
  <2>3. s = [i \in 1 .. Len(s) |-> s[i]]
    BY <2>2
  <2> HIDE DEF s
  <2>4. s = [i \in 1 .. held |-> data[i]]
    BY <2>2, <2>3 DEF s
  <2> QED  BY <2>4 DEF s
<1> QED  BY <1>6, <1>7, <1>8 DEF next

-------------------------------------------------------------------------------
(* The steps that build a message.                                               *)

\* An object has one to four words.
LEMMA ObjectLength ==
  ASSUME NEW c, NEW ws, Object(c, ws)
  PROVE  Len(ws) \in 1 .. 4
BY DEF Object, MessageSize

(* An edit of a message that is not being sent.                                   *)
LEMMA Edited ==
  ASSUME Inv, type # NoType, sent = 0, UNCHANGED <<message, type, sent, heard>>,
         Faithful(type, words, wanted, assigned)'
  PROVE  Inv'
<1>1. (type \in Classes \union {NoType})' /\ (type = NoType => sent = 0)'
  BY DEF Inv
<1>2. (sent \in Nat /\ message \in Seq(Word) /\ Len(message) = sent)'
  BY DEF Inv
<1>3. Object(type', words')
  BY DEF Faithful
<1>4. Building'
  <2>1. sent' < Len(words') /\ \A i \in 1 .. sent' : message'[i] = Bytes(words'[i])
    BY <1>3, ObjectLength
  <2> QED  BY <2>1 DEF Building
<1>5. Reading'
  BY DEF Inv, Reading, HasRead
<1> QED  BY <1>1, <1>2, <1>4, <1>5 DEF Inv

\* Creating an object keeps the invariant.
LEMMA CreateStep ==
  ASSUME Inv, NEW class \in Classes, Create(class)
  PROVE  Inv'
<1>1. /\ type' = class /\ words' = Made(class) /\ assigned' = {} /\ sent' = sent
      /\ wanted' = [f \in Settable(class) |-> {}] /\ message' = message
      /\ heard' = Nothing /\ sent = 0
  BY DEF Create, Inv
<1>2. /\ Object(class, Made(class)) /\ Marked(class, Made(class))
      /\ \A f \in Settable(class) : Get(class, Made(class), f) = {}
  BY MadeKeeps
<1>3. Keeps(class, words', wanted') /\ Carries(class, words', assigned')
  BY <1>1, <1>2 DEF Keeps, Carries
<1>4. Building'
  <2>1. sent' < Len(words') /\ \A i \in 1 .. sent' : message'[i] = Bytes(words'[i])
    BY <1>1, <1>2, ObjectLength
  <2>2. Faithful(type, words, wanted, assigned)'
    BY <1>1, <1>2, <1>3 DEF Faithful
  <2> QED  BY <2>1, <2>2 DEF Building
<1>5. Reading'
  BY <1>1 DEF Reading, HasRead, Nothing
<1> QED  BY <1>1, <1>4, <1>5 DEF Inv

\* So does a setter.
LEMMA SetFieldStep ==
  ASSUME Inv, type # NoType, NEW f \in Settable(type), NEW v \in Fills,
         SetField(f, v \intersect AllOnes(type, f))
  PROVE  Inv'
<1> DEFINE bits == v \intersect AllOnes(type, f)
           next == SetFields(type, words, [g \in {f} |-> bits])
<1>1. /\ words' = next /\ wanted' = [wanted EXCEPT ![f] = bits] /\ assigned' = {}
      /\ UNCHANGED <<message, type, sent, heard>> /\ sent = 0
  BY DEF SetField, Edits
<1>2. Faithful(type, words, wanted, assigned)
  BY DEF Inv, Building
<1>3. /\ type \in Classes /\ Object(type, words) /\ Marked(type, words)
      /\ Keeps(type, words, wanted)
  BY <1>2 DEF Faithful
<1>4. bits \subseteq AllOnes(type, f)
  OBVIOUS
<1> HIDE DEF bits
<1>5. /\ Object(type, next) /\ Marked(type, next)
      /\ Keeps(type, next, [wanted EXCEPT ![f] = bits])
  BY <1>3, <1>4, SetFieldKeeps
<1> HIDE DEF next
<1>6. Faithful(type, words, wanted, assigned)'
  BY <1>1, <1>3, <1>5 DEF Faithful, Carries
<1> QED  BY <1>1, <1>6, Edited

\* So does the assignment of a range.
LEMMA AssignDataStep ==
  ASSUME Inv, type # NoType, NEW data \in Contents, AssignData(data)
  PROVE  Inv'
<1> DEFINE held == Least(Len(data), MaxSize(type))
           next == Assigned(type, words, data)
<1>1. /\ words' = next /\ assigned' = {SubSeq(data, 1, held)}
      /\ wanted' = [f \in DOMAIN wanted |->
              IF f = "number_of_bytes" THEN Bits[held]
              ELSE IF f \notin ToSet(DataFields) THEN wanted[f]
              ELSE IF Index(f) <= held THEN data[Index(f)]
              ELSE IF IsText(type) THEN {} ELSE wanted[f]]
      /\ UNCHANGED <<message, type, sent, heard>> /\ sent = 0
      /\ IsArray(type) /\ IsContent(data)
  BY DEF AssignData, Edits
<1>2. Faithful(type, words, wanted, assigned)
  BY DEF Inv, Building
<1>3. /\ type \in Classes /\ Object(type, words) /\ Marked(type, words)
      /\ Keeps(type, words, wanted) /\ DOMAIN wanted = Settable(type)
  BY <1>2 DEF Faithful, Keeps
<1>4. /\ data \in Seq(SUBSET (0 .. 7)) /\ Len(data) \in Nat
      /\ \A i \in 1 .. Len(data) : /\ data[i] \subseteq AllOnes(type, "data0")
                                   /\ IsText(type) => data[i] # {}
  BY <1>1, EditsAssumption DEF IsContent
<1>5. /\ Object(type, next) /\ Marked(type, next)
      /\ held \in 0 .. MaxSize(type) /\ held <= Len(data)
      /\ \A i \in 1 .. MaxSize(type) :
           Get(type, next, DataFields[i]) =
             IF i <= held THEN data[i]
             ELSE IF IsText(type) THEN {} ELSE Get(type, words, DataFields[i])
      /\ ~IsText(type) => Get(type, next, "number_of_bytes") = Bits[held]
      /\ \A f \in Fields(type) : f \notin ToSet(DataFields) /\ f # "number_of_bytes" =>
           Get(type, next, f) = Get(type, words, f)
  BY <1>1, <1>3, <1>4, AssignedFields
<1>6. PICK n, width : Room(type, n, width)
  BY <1>1, <1>3, HasRoom
<1>7. n \in 1 .. 13 /\ MaxSize(type) = n
  BY <1>6 DEF Room
<1>8. Data(type, next) = SubSeq(data, 1, held)
  <2>1. held \in 0 .. Least(Len(data), MaxSize(type))
    BY <1>5, <1>7
  <2>2. \A i \in 1 .. held : IsText(type) => (data[i] = {} <=> i > held)
    BY <1>4, <1>5, <1>7
  <2> QED  BY <1>1, <1>3, <1>4, <2>1, <2>2, ReadBack
<1> HIDE DEF next, held
<1>9. ASSUME NEW f \in Settable(type)
      PROVE  Get(type, next, f) = wanted'[f] \/ (f \in Aliases /\ Aliases \subseteq Settable(type))
  <2>1. f \in Fields(type)
    BY DEF Settable
  <2>2. \/ Get(type, words, f) = wanted[f]
        \/ f \in Aliases /\ Aliases \subseteq Settable(type)
    BY <1>3 DEF Keeps
  <2>3. CASE f = "number_of_bytes"
    <3>1. ~IsText(type)
      BY <2>1, <2>3 DEF IsText
    <3> QED  BY <1>1, <1>3, <1>5, <2>3, <3>1
  <2>4. CASE f # "number_of_bytes" /\ f \notin ToSet(DataFields)
    BY <1>1, <1>3, <1>5, <2>1, <2>2, <2>4
  <2>5. CASE f # "number_of_bytes" /\ f \in ToSet(DataFields)
    <3>1. PICK i \in 1 .. 13 : f = DataFields[i]
      BY <2>5, DataIndex DEF ToSet
    <3>2. Index(f) = i
      BY <3>1, IndexOf
    <3>3. i \in 1 .. n
      BY <1>6, <1>7, <2>1, <3>1 DEF Room
    <3>4. wanted'[f] = IF i <= held THEN data[i] ELSE IF IsText(type) THEN {} ELSE wanted[f]
      BY <1>1, <1>3, <2>5, <3>2
    <3>5. Get(type, next, f) = IF i <= held THEN data[i]
                               ELSE IF IsText(type) THEN {} ELSE Get(type, words, f)
      BY <1>5, <1>7, <3>1, <3>3
    <3> QED  BY <2>2, <3>4, <3>5
  <2> QED  BY <2>3, <2>4, <2>5
<1>10. Faithful(type, words, wanted, assigned)'
  <2>1. DOMAIN wanted' = Settable(type)
    BY <1>1, <1>3
  <2>2. Keeps(type, next, wanted')
    BY <1>9, <2>1 DEF Keeps
  <2>3. Carries(type, next, assigned')
    BY <1>1, <1>8 DEF Carries
  <2> QED  BY <1>1, <1>3, <1>5, <2>2, <2>3 DEF Faithful
<1> QED  BY <1>1, <1>10, Edited

\* The bytes that the u8string_view overload stores: one more than it counts.
LEMMA OneMore ==
  ASSUME NEW view \in Seq(SUBSET (0 .. 7)), NEW held \in 0 .. Len(view),
         NEW next \in SUBSET (0 .. 7)
  PROVE  LET data == Append(SubSeq(view, 1, held), next)
         IN  /\ data \in Seq(SUBSET (0 .. 7)) /\ Len(data) = held + 1
             /\ \A i \in 1 .. held : data[i] = view[i]
             /\ data[held + 1] = next
             /\ SubSeq(data, 1, held) = SubSeq(view, 1, held)
<1> DEFINE s    == SubSeq(view, 1, held)
           data == Append(s, next)
           t    == SubSeq(data, 1, held)
<1>1. held \in Nat /\ held <= Len(view) /\ Len(view) \in Nat
  OBVIOUS
<1>2. s \in Seq(SUBSET (0 .. 7)) /\ Len(s) = held /\ \A i \in 1 .. held : s[i] = view[i]
  BY <1>1
<1> HIDE DEF s
<1>3. /\ data \in Seq(SUBSET (0 .. 7)) /\ Len(data) = held + 1
      /\ \A i \in 1 .. held : data[i] = s[i]
      /\ data[held + 1] = next
  BY <1>1, <1>2
<1> HIDE DEF data
<1>4. t \in Seq(SUBSET (0 .. 7)) /\ Len(t) = held /\ \A i \in 1 .. held : t[i] = data[i]
  BY <1>1, <1>3
<1>5. t = s
  <2> HIDE DEF t
  <2>1. \A i \in 1 .. held : t[i] = s[i]
    BY <1>3, <1>4
  <2> QED  BY <1>2, <1>4, <2>1, SeqEqual
<1> QED  BY <1>2, <1>3, <1>5 DEF data, s, t

\* So does the assignment of a u8string_view, whatever follows the view in memory.
LEMMA AssignViewStep ==
  ASSUME Inv, type # NoType, NEW view \in Contents, NEW byte \in AfterView,
         AssignView(view, byte)
  PROVE  Inv'
<1> DEFINE held == Least(Len(view), MaxSize(type))
           data == Append(SubSeq(view, 1, held), byte)
           next == Assigned(type, words, data)
<1>1. /\ words' = next /\ assigned' = {SubSeq(view, 1, held)}
      /\ wanted' = [f \in DOMAIN wanted |->
                      IF f \in ToSet(DataFields) THEN Get(type, words', f) ELSE wanted[f]]
      /\ UNCHANGED <<message, type, sent, heard>> /\ sent = 0
      /\ IsArray(type) /\ IsText(type) /\ IsContent(view)
  BY DEF AssignView, Edits
<1>2. Faithful(type, words, wanted, assigned)
  BY DEF Inv, Building
<1>3. /\ type \in Classes /\ Object(type, words) /\ Marked(type, words)
      /\ Keeps(type, words, wanted) /\ DOMAIN wanted = Settable(type)
  BY <1>2 DEF Faithful, Keeps
<1>4. PICK n, width : Room(type, n, width)
  BY <1>1, <1>3, HasRoom
<1>5. /\ n \in 1 .. 13 /\ MaxSize(type) = n
      /\ AllOnes(type, "data0") = 0 .. 7
  <2>1. /\ 1 \in 1 .. n /\ width = 8 /\ n \in 1 .. 13 /\ MaxSize(type) = n
    <3>1. n \in 1 .. 13 /\ MaxSize(type) = n /\ (IsText(type) => width = 8)
      BY <1>4 DEF Room
    <3> QED  BY <1>1, <3>1
  <2>2. AllOnes(type, DataFields[1]) = 0 .. 7
    <3>1. AllOnes(type, DataFields[1]) = 0 .. width - 1
      BY <1>4, <2>1 DEF Room
    <3> QED  BY <2>1, <3>1
  <2> QED  BY <2>1, <2>2, DataIndex
<1>6. /\ view \in Seq(SUBSET (0 .. 7)) /\ Len(view) \in Nat /\ byte \in SUBSET (0 .. 7)
      /\ \A i \in 1 .. Len(view) : view[i] # {}
  BY <1>1, EditsAssumption DEF IsContent
<1>7. held \in 0 .. n /\ held <= Len(view) /\ held \in 0 .. Len(view)
  BY <1>5, <1>6 DEF Least
<1> HIDE DEF held
<1>8. /\ data \in Seq(SUBSET (0 .. 7)) /\ Len(data) = held + 1
      /\ \A i \in 1 .. held : data[i] = view[i]
      /\ data[held + 1] = byte
      /\ SubSeq(data, 1, held) = SubSeq(view, 1, held)
  BY <1>6, <1>7, OneMore
<1> HIDE DEF data
<1>9. \A i \in 1 .. Len(data) : data[i] \subseteq AllOnes(type, "data0")
  <2>1. \A i \in 1 .. Len(data) : data[i] \in SUBSET (0 .. 7)
    BY <1>8, ElementOfSeq
  <2> QED  BY <1>5, <2>1
<1>10. /\ Object(type, next) /\ Marked(type, next)
       /\ \A f \in Fields(type) : f \notin ToSet(DataFields) /\ f # "number_of_bytes" =>
            Get(type, next, f) = Get(type, words, f)
  BY <1>1, <1>3, <1>8, <1>9, AssignedFields
<1>11. ASSUME AfterView \subseteq {{}}
       PROVE  Data(type, next) = SubSeq(view, 1, held)
  <2> DEFINE size == Least(Len(data), MaxSize(type))
  <2>1. size \in 0 .. held + 1 /\ held <= size
    BY <1>5, <1>7, <1>8 DEF Least
  <2>2. byte = {}
    BY <1>11
  <2>3. \A i \in 1 .. size : data[i] = {} <=> i > held
    <3> SUFFICES ASSUME NEW i \in 1 .. size
                 PROVE  data[i] = {} <=> i > held
      OBVIOUS
    <3> HIDE DEF size
    <3>1. CASE i <= held
      <4>1. i \in 1 .. held /\ i \in 1 .. Len(view)
        BY <1>6, <1>7, <2>1, <3>1
      <4> QED  BY <1>6, <1>7, <1>8, <3>1, <4>1
    <3>2. CASE i = held + 1
      BY <1>7, <1>8, <2>2, <3>2
    <3> QED  BY <1>7, <2>1, <3>1, <3>2
  <2>4. held \in 0 .. size
    <3> HIDE DEF size
    <3> QED  BY <1>7, <2>1
  <2>5. Data(type, next) = SubSeq(data, 1, held)
    BY <1>1, <1>3, <1>8, <1>9, <2>3, <2>4, ReadBack
  <2> QED  BY <1>8, <2>5
<1> HIDE DEF next
<1>12. ASSUME NEW f \in Settable(type)
       PROVE  \/ Get(type, next, f) = wanted'[f]
              \/ f \in Aliases /\ Aliases \subseteq Settable(type)
  <2>1. f \in Fields(type) /\ f # "number_of_bytes"
    BY <1>1 DEF Settable, IsText
  <2>2. \/ Get(type, words, f) = wanted[f]
        \/ f \in Aliases /\ Aliases \subseteq Settable(type)
    BY <1>3 DEF Keeps
  <2>3. CASE f \in ToSet(DataFields)
    BY <1>1, <1>3, <2>3
  <2>4. CASE f \notin ToSet(DataFields)
    BY <1>1, <1>3, <1>10, <2>1, <2>2, <2>4
  <2> QED  BY <2>3, <2>4
<1>13. Faithful(type, words, wanted, assigned)'
  <2>1. DOMAIN wanted' = Settable(type)
    BY <1>1, <1>3
  <2>2. Keeps(type, next, wanted')
    BY <1>12, <2>1 DEF Keeps
  <2>3. Carries(type, next, assigned')
    BY <1>1, <1>11 DEF Carries
  <2> QED  BY <1>1, <1>3, <1>10, <2>2, <2>3 DEF Faithful
<1> QED  BY <1>1, <1>13, Edited

-------------------------------------------------------------------------------
(* The steps that send it.                                                       *)

(* The words passed so far and the next one.                                      *)
LEMMA SoFar ==
  ASSUME Inv, type # NoType, sent < Len(words)
  PROVE  /\ sent \in Nat /\ Len(words) \in Nat
         /\ words[sent + 1] \in SUBSET (0 .. 31)
         /\ Received(Bytes(words[sent + 1])) \in Seq(Word)
         /\ Len(Received(Bytes(words[sent + 1]))) = sent + 1
         /\ \A i \in 1 .. sent + 1 : Received(Bytes(words[sent + 1]))[i] = Bytes(words[i])
         /\ IsComplete(Bytes(words[sent + 1])) <=> sent + 1 = Len(words)
<1> DEFINE w == Bytes(words[sent + 1])
           r == Received(w)
<1>1. /\ Faithful(type, words, wanted, assigned)
      /\ \A i \in 1 .. sent : message[i] = Bytes(words[i])
      /\ message \in Seq(Word) /\ Len(message) = sent /\ sent \in Nat
  BY DEF Inv, Building
<1>2. /\ type \in Classes /\ Object(type, words) /\ Marked(type, words) /\ Layout(type)
  BY <1>1, KnownClass DEF Faithful
<1>3. /\ words \in Seq(SUBSET (0 .. 31)) /\ Len(words) \in 1 .. 4
      /\ Len(words) = MessageSize(type.mt)
  BY <1>2, ObjectLength DEF Object
<1>4. words[sent + 1] \in SUBSET (0 .. 31)
  <2>1. sent + 1 \in 1 .. Len(words)
    BY <1>1, <1>3
  <2> QED  BY <1>3, <2>1, ElementOfSeq
<1>5. w \in Word
  BY <1>4, RoundTrip
<1> HIDE DEF w
<1>6. /\ r \in Seq(Word) /\ Len(r) = sent + 1 /\ r[sent + 1] = w
      /\ \A i \in 1 .. sent : r[i] = message[i]
  BY <1>1, <1>5 DEF Received
<1>7. \A i \in 1 .. sent + 1 : r[i] = Bytes(words[i])
  <2>1. \A i \in 1 .. sent + 1 : i \in 1 .. sent \/ i = sent + 1
    BY <1>1
  <2> QED  BY <1>1, <1>6, <2>1 DEF w
<1>8. MessageType(r[1]) = type.mt
  <2>1. r[1] = Bytes(words[1])
    BY <1>1, <1>7
  <2>2. type.mt \in 0 .. 15
    BY <1>2 DEF Layout
  <2> QED  BY <1>2, <2>1, <2>2, TypeRead DEF Marked
<1>9. IsComplete(w) <=> sent + 1 = Len(words)
  <2>1. IsComplete(w) <=> Len(r) >= MessageSize(MessageType(r[1]))
    BY DEF IsComplete
  <2> HIDE DEF r
  <2>2. IsComplete(w) <=> sent + 1 >= Len(words)
    <3>1. MessageSize(MessageType(r[1])) = Len(words)
      BY <1>3, <1>8
    <3>2. Len(r) = sent + 1
      BY <1>6
    <3> QED  BY <2>1, <3>1, <3>2
  <2> QED  BY <1>1, <1>3, <2>2
<1>10. sent \in Nat /\ Len(words) \in Nat
  BY <1>1, <1>3
<1> HIDE DEF r
<1>11. /\ r \in Seq(Word) /\ Len(r) = sent + 1
       /\ \A i \in 1 .. sent + 1 : r[i] = Bytes(words[i])
  BY <1>6, <1>7
<1> QED  BY <1>4, <1>9, <1>10, <1>11, Zenon DEF w, r

\* Passing a word that does not complete the message keeps the invariant.
LEMMA SendCollectedStep ==
  ASSUME Inv, type # NoType, sent < Len(words), SendCollected
  PROVE  Inv'
<1> DEFINE r == Received(Bytes(words[sent + 1]))
<1>1. /\ ~IsComplete(Bytes(words[sent + 1])) /\ message' = r /\ sent' = sent + 1
      /\ UNCHANGED <<type, words, edits, wanted, assigned, heard>>
  BY DEF SendCollected, Collect
<1>2. /\ sent \in Nat /\ Len(words) \in Nat /\ r \in Seq(Word) /\ Len(r) = sent + 1
      /\ \A i \in 1 .. sent + 1 : r[i] = Bytes(words[i])
      /\ sent + 1 # Len(words)
  BY <1>1, SoFar
<1> HIDE DEF r
<1>3. Faithful(type, words, wanted, assigned)'
  BY <1>1 DEF Inv, Building, Faithful, Carries
<1>4. Building'
  <2>1. sent' < Len(words')
    BY <1>1, <1>2
  <2> QED  BY <1>1, <1>2, <1>3, <2>1 DEF Building
<1>5. Reading'
  BY <1>1 DEF Inv, Reading, HasRead
<1> QED  BY <1>1, <1>2, <1>4, <1>5 DEF Inv

\* So does the last word: what the callback is given is what was sent.
LEMMA SendCompletedStep ==
  ASSUME Inv, type # NoType, sent < Len(words), SendCompleted
  PROVE  Inv'
<1> DEFINE r == Received(Bytes(words[sent + 1]))
           h == Called(Handler(r[1]), r)
<1>1. /\ IsComplete(Bytes(words[sent + 1])) /\ message' = <<>> /\ heard' = h
      /\ IF sent + 1 < Len(words) THEN sent' = sent + 1 /\ UNCHANGED type
         ELSE sent' = 0 /\ type' = NoType
      /\ UNCHANGED <<words, edits, wanted, assigned>>
  BY DEF SendCompleted, Complete
<1>2. /\ sent \in Nat /\ Len(words) \in Nat /\ r \in Seq(Word) /\ Len(r) = sent + 1
      /\ \A i \in 1 .. sent + 1 : r[i] = Bytes(words[i])
      /\ sent + 1 = Len(words)
  BY <1>1, SoFar
<1>3. Faithful(type, words, wanted, assigned)
  BY DEF Inv, Building
<1> HIDE DEF r
<1>4. words = [i \in DOMAIN r |-> FromBytes(r[i])]
  <2>1. /\ words \in Seq(SUBSET (0 .. 31))
    BY <1>3 DEF Faithful, Object
  <2>2. \A i \in 1 .. Len(words) : words[i] \in SUBSET (0 .. 31)
    BY <2>1, ElementOfSeq
  <2>3. DOMAIN r = 1 .. Len(words) /\ words = [i \in 1 .. Len(words) |-> words[i]]
    BY <1>2, <2>1
  <2>4. \A i \in 1 .. Len(words) : FromBytes(r[i]) = words[i]
    BY <1>2, <2>2, RoundTrip
  <2> QED  BY <2>3, <2>4
<1>5. r[1] = Bytes(words[1])
  BY <1>2
<1>6. Reading'
  <2>1. \/ h = [by |-> Handler(r[1]), words |-> words, type |-> type, wanted |-> wanted,
                assigned |-> assigned]
        \/ h = [by |-> <<"skipped">>]
    BY <1>4, Zenon DEF Called
  <2>2. CASE h = [by |-> <<"skipped">>]
    BY <1>1, <2>2 DEF Reading, HasRead
  <2>3. CASE h = [by |-> Handler(r[1]), words |-> words, type |-> type, wanted |-> wanted,
                  assigned |-> assigned]
    <3>1. /\ heard'.by = Handler(r[1]) /\ heard'.words = words /\ heard'.type = type
          /\ heard'.wanted = wanted /\ heard'.assigned = assigned
      BY <1>1, <2>3
    <3> QED  BY <1>3, <1>5, <3>1 DEF Reading
  <2> QED  BY <2>1, <2>2, <2>3
<1>7. Building' /\ (type = NoType => sent = 0)' /\ sent' = 0 /\ type' = NoType
  BY <1>1, <1>2 DEF Building
<1> QED  BY <1>1, <1>6, <1>7 DEF Inv

\* So does giving up a message.
LEMMA AbandonStep ==
  ASSUME Inv, Abandon
  PROVE  Inv'
<1>1. message' = <<>> /\ type' = NoType /\ sent' = 0 /\ heard' = [by |-> <<"abandoned">>]
  BY DEF Abandon, ResetDispatcher
<1>2. Building' /\ Reading'
  BY <1>1 DEF Building, Reading, HasRead
<1> QED  BY <1>1, <1>2 DEF Inv

-------------------------------------------------------------------------------
(* The invariant holds in every state.                                           *)

\* The invariant holds at the start.
LEMMA InitInv == Init => Inv
<1> SUFFICES ASSUME Init PROVE Inv
  OBVIOUS
<1>1. Building /\ Reading
  BY DEF Init, Building, Reading, HasRead, Nothing
<1>2. message \in Seq(Word) /\ Len(message) = sent /\ sent = 0
  BY DEF Init
<1> QED  BY <1>1, <1>2 DEF Init, Inv

\* Every step keeps it.
LEMMA NextInv == Inv /\ [Next]_vars => Inv'
<1> SUFFICES ASSUME Inv, [Next]_vars PROVE Inv'
  OBVIOUS
<1>1. ASSUME NEW class \in Classes, Create(class)
      PROVE  Inv'
  BY <1>1, CreateStep
<1>2. ASSUME type # NoType, Edit
      PROVE  Inv'
  <2>1. CASE \E f \in Settable(type), v \in Fills : SetField(f, v \intersect AllOnes(type, f))
    BY <1>2, <2>1, SetFieldStep
  <2>2. CASE \E data \in Contents : AssignData(data)
    BY <1>2, <2>2, AssignDataStep
  <2>3. CASE \E data \in Contents : \E next \in AfterView : AssignView(data, next)
    BY <1>2, <2>3, AssignViewStep
  <2> QED  BY <1>2, <2>1, <2>2, <2>3 DEF Edit
<1>3. CASE SendWord
  BY <1>3, SendCollectedStep, SendCompletedStep DEF SendWord
<1>4. CASE Abandon
  BY <1>4, AbandonStep
<1>5. CASE UNCHANGED vars
  <2>1. Building' /\ Reading'
    BY <1>5 DEF vars, Inv, Building, Reading, Faithful, Carries, HasRead
  <2> QED  BY <1>5, <2>1 DEF vars, Inv
<1> QED  BY <1>1, <1>2, <1>3, <1>4, <1>5 DEF Next

\* The invariant holds in every state.
THEOREM InvHolds == Spec => []Inv
<1> QED  BY InitInv, NextInv, PTL DEF Spec

\* The dispatcher holds the words sent of the message being sent, and no other: for
\* every set of contents, of values, of callbacks left out and bound on the edits.
THEOREM MessagesTypes == Spec => []TypeOK
<1>1. Inv => TypeOK
  BY DEF Inv, Building, TypeOK
<1> QED  BY <1>1, InvHolds, PTL

(* The callback that is called with the words of a message, and what it may rely on. *)
LEMMA SelectedClass ==
  ASSUME NEW c \in Classes, NEW ws, Object(c, ws), Marked(c, ws), NEW by,
         by = Handler(Bytes(ws[1]))
  PROVE  /\ MessageType(Bytes(ws[1])) = c.mt
         /\ by # Unknown =>
              /\ by \in Handlers /\ by = <<c.mt, StatusField(Bytes(ws[1]))>>
              /\ Checks(ClassOf[by], ws)
<1> DEFINE w == Bytes(ws[1])
<1>1. Layout(c) /\ c.mt \in 0 .. 15
  BY KnownClass DEF Layout
<1>2. MessageType(w) = c.mt
  BY <1>1, TypeRead DEF Marked
<1> HIDE DEF w
<1>3. ASSUME by # Unknown
      PROVE  by \in Handlers /\ by = <<c.mt, StatusField(w)>>
  BY <1>2, <1>3 DEF Handler, w
<1>4. ASSUME by # Unknown
      PROVE  Checks(ClassOf[by], ws)
  <2> DEFINE d == ClassOf[by]
  <2>1. by \in Handlers /\ by = <<c.mt, StatusField(w)>>
    BY <1>3, <1>4
  <2>2. Known(d, c.mt, StatusField(w)) /\ Layout(d) /\ d.mt = c.mt
    <3>1. Known(d, by[1], by[2])
      BY <2>1, ClassOfHandler
    <3>2. by[1] = c.mt /\ by[2] = StatusField(w)
      BY <2>1
    <3>3. Known(d, c.mt, StatusField(w))
      BY <3>1, <3>2
    <3>4. Layout(d) /\ d.mt = c.mt
      BY <3>3 DEF Known
    <3> QED  BY <3>3, <3>4
  <2> HIDE DEF d
  <2>3. Object(d, ws)
    BY <2>2 DEF Object
  <2>4. Get(d, ws, "mt") = Bits[d.mt]
    <3>1. Get(d, ws, "mt") = Cut(ws[1], 28, 4) /\ Get(c, ws, "mt") = Cut(ws[1], 28, 4)
      BY <1>1, <2>2, <2>3, TypeRead
    <3> QED  BY <2>2, <3>1 DEF Marked
  <2>5. ASSUME "status" \in d.fixed
        PROVE  Get(d, ws, "status") = Bits[d.status]
    <3>1. StatusField(w) # Text
      <4>1. ASSUME StatusField(w) = Text
            PROVE  FALSE
        <5>1. d = flex_text_common
          BY <2>2, <4>1 DEF Known
        <5>2. d.fixed = {"mt"}
          BY <5>1, TextClass
        <5> QED  BY <2>5, <5>2
      <4> QED  BY <4>1
    <3>2. d.status = StatusField(w)
      BY <2>2, <3>1 DEF Known
    <3>3. d.status \in 0 .. 255
      <4>1. by = <<by[1], by[2]>> /\ by[2] = StatusField(w)
        BY <2>1
      <4> QED  BY <2>1, <3>1, <3>2, <4>1, StatusFits
    <3>4. /\ d.mt = MT_FLEX /\ Get(d, ws, "status_bank") # {} => StatusField(w) = Text
          /\ d.mt # MT_FLEX \/ Get(d, ws, "status_bank") = {} =>
               (StatusField(w) = d.status <=> Get(d, ws, "status") = Bits[d.status])
      BY <1>2, <2>2, <2>3, <3>3, StatusRead DEF w
    <3> QED  BY <3>1, <3>2, <3>4
  <2> QED  BY <2>4, <2>5 DEF Checks, d
<1> QED  BY <1>2, <1>3, <1>4 DEF w

\* Every message of every class reaches the callback for its own class, with a first
\* word that its check() accepts; flex data the class that its status bank selects.
THEOREM ClassSelected == Spec => []OwnHandler
<1>1. ASSUME Inv
      PROVE  OwnHandler
  <2> DEFINE c  == heard.type
             ws == heard.words
             w  == Bytes(ws[1])
             IsFlex == "status_bank" \in Fields(c)
  <2> SUFFICES ASSUME HasRead
               PROVE  /\ heard.by # Unknown => Checks(ClassOf[heard.by], ws)
                      /\ Len(ws) = Len(c.words)
                      /\ IsFlex /\ Get(c, ws, "status_bank") # {} =>
                           ClassOf[heard.by] = flex_text_common
                      /\ IsFlex /\ Get(c, ws, "status_bank") = {} /\ c # flex_text_common =>
                           heard.by \in {<<MT_FLEX, c.status>>}
                      /\ ~IsFlex => heard.by \in Handlers /\ ClassOf[heard.by] = c
    BY DEF OwnHandler
  <2>1. /\ c \in Classes /\ Object(c, ws) /\ Marked(c, ws) /\ heard.by = Handler(w)
    BY <1>1 DEF Inv, Reading, Faithful
  <2> HIDE DEF c, ws, w
  <2>2. /\ Layout(c) /\ c.status \in 0 .. 255
        /\ IF c = flex_text_common THEN c.mt = MT_FLEX /\ c.status = 0 /\ c.fixed = {"mt"}
           ELSE /\ "status" \in c.fixed
                /\ <<c.mt, c.status>> \in Handlers /\ ClassOf[<<c.mt, c.status>>] = c
    BY <2>1, KnownClass
  <2>3. /\ MessageType(w) = c.mt
        /\ heard.by # Unknown => Checks(ClassOf[heard.by], ws)
    BY <2>1, SelectedClass DEF w
  <2>4. Len(ws) = Len(c.words) /\ (IsFlex <=> c.mt = MT_FLEX)
    BY <2>1, <2>2 DEF Object, Layout
  <2>5. /\ c.mt # MT_FLEX \/ Get(c, ws, "status_bank") = {} =>
             (StatusField(w) = c.status <=> Get(c, ws, "status") = Bits[c.status])
        /\ c.mt = MT_FLEX /\ Get(c, ws, "status_bank") # {} => StatusField(w) = Text
    <3>1. Layout(c) /\ c.status \in 0 .. 255 /\ Object(c, ws) /\ MessageType(w) = c.mt
      BY <2>1, <2>2, <2>3
    <3>2. MessageType(Bytes(ws[1])) = c.mt
      BY <3>1 DEF w
    <3> QED  BY <3>1, <3>2, StatusRead DEF w
  <2>6. <<MT_FLEX, Text>> \in Handlers /\ ClassOf[<<MT_FLEX, Text>>] = flex_text_common
    <3>1. <<MT_FLEX, Text>> \in Handlers
      BY DEF Handlers, FlexStatus
    <3>2. Known(ClassOf[<<MT_FLEX, Text>>], MT_FLEX, Text)
      BY <3>1, ClassOfHandler
    <3> QED  BY <3>1, <3>2 DEF Known
  <2>7. \A s : StatusField(w) = s /\ <<c.mt, s>> \in Handlers => heard.by = <<c.mt, s>>
    BY <2>1, <2>3 DEF Handler
  <2>8. ASSUME IsFlex, Get(c, ws, "status_bank") # {}
        PROVE  ClassOf[heard.by] = flex_text_common
    BY <2>4, <2>5, <2>6, <2>7, <2>8
  <2>9. ASSUME c # flex_text_common, ~IsFlex \/ Get(c, ws, "status_bank") = {}
        PROVE  /\ heard.by = <<c.mt, c.status>>
               /\ heard.by \in Handlers /\ ClassOf[heard.by] = c
    <3>1. "status" \in c.fixed /\ <<c.mt, c.status>> \in Handlers
          /\ ClassOf[<<c.mt, c.status>>] = c
      BY <2>2, <2>9
    <3>2. StatusField(w) = c.status
      BY <2>1, <2>4, <2>5, <2>9, <3>1 DEF Marked
    <3> QED  BY <2>7, <3>1, <3>2
  <2>10. ~IsFlex => c # flex_text_common
    BY <2>2, <2>4
  <2> HIDE DEF IsFlex
  <2> QED  BY <2>3, <2>4, <2>8, <2>9, <2>10 DEF c, ws
<1> QED  BY <1>1, InvHolds, PTL

\* Every getter of the callback's object returns what the client's setter was given
\* last, whatever other setters were called before and after it.
THEOREM SettersIndependent == Spec => []FieldsSurvive
<1>1. Inv => FieldsSurvive
  BY DEF Inv, Reading, Faithful, Keeps, FieldsSurvive
<1> QED  BY <1>1, InvHolds, PTL

\* The bytes that the callback iterates over are those that were assigned last, cut to
\* the room of the class, if a u8string_view is followed by a NUL: the overload reads
\* the character after the view.
THEOREM DataArrives ==
  ASSUME AfterView \subseteq {{}}
  PROVE  Spec => []DataSurvives
<1>1. Inv => DataSurvives
  BY DEF Inv, Reading, Faithful, Carries, DataSurvives
<1> QED  BY <1>1, InvHolds, PTL
================================================================================
