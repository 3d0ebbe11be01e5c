------------------------- MODULE BytestreamToUmpProofs -------------------------
(* Proofs about modules BytestreamToUmp, HostLink and UsbLink, for every set of  *)
(* input bytes and of groups.                                                    *)
EXTENDS UsbLink, Iteration, SequenceTheorems, TLAPS

(* Each of the three invariants needs the others: the words have their type      *)
(* because the parser's state is consistent, and the output has room because of  *)
(* how few words one byte yields.                                                *)
IInv == TypeOK /\ ParserConsistent /\ NothingRefused

-------------------------------------------------------------------------------
(* The words of a push.                                                          *)

LEMMA MessageWordType ==
  ASSUME TypeOK, NEW b0 \in Byte, NEW b1 \in Byte, NEW b2 \in Byte
  PROVE  MessageWord(b0, b1, b2) \in Word
<1>1. group \in 0 .. 15
  BY DEF TypeOK, Group
<1>2. 16 * 1 + group \in Byte /\ 16 * 2 + group \in Byte
  BY <1>1 DEF Byte
<1> QED  BY <1>2 DEF MessageWord, Word, MT_SYSTEM, MT_M1CVM

LEMMA SysexPacketType ==
  ASSUME TypeOK, NEW form \in 0 .. 3
  PROVE  /\ SysexPacket(form) \in Seq(Word)
         /\ Len(SysexPacket(form)) <= 2
<1> DEFINE s == sysex7.bytes
           w0 == <<16 * MT_DATA64 + group, 16 * form + sysex7.pos, s[0], s[1]>>
           w1 == <<s[2], s[3], s[4], s[5]>>
<1>1. \A i \in 0 .. 5 : s[i] \in Byte
  <2>1. s \in [0 .. 5 -> 0 .. 127]
    BY DEF TypeOK, Sysex7, PacketBytes
  <2>2. 0 .. 127 \subseteq Byte
    BY DEF Byte
  <2> QED  BY <2>1, <2>2
<1>2. sysex7.pos \in 0 .. 6 /\ group \in 0 .. 15
  BY DEF TypeOK, Sysex7, PacketBytes, Group
<1>3. w0 \in Word
  BY <1>1, <1>2 DEF Word, Byte, MT_DATA64
<1>4. w1 \in Word
  BY <1>1 DEF Word
<1>5. SysexPacket(form) = <<w0, w1>>
  BY DEF SysexPacket
<1> HIDE DEF w0, w1
<1> QED  BY <1>3, <1>4, <1>5

LEMMA PacketsType ==
  ASSUME TypeOK
  PROVE  /\ LastPacket \in Seq(Word) /\ Len(LastPacket) <= 2
         /\ FullPacket \in Seq(Word) /\ Len(FullPacket) <= 2
<1>1. /\ SYSEX7_IN_1 \in 0 .. 3 /\ SYSEX7_START \in 0 .. 3
      /\ SYSEX7_CONTINUE \in 0 .. 3 /\ SYSEX7_END \in 0 .. 3
  BY DEF SYSEX7_IN_1, SYSEX7_START, SYSEX7_CONTINUE, SYSEX7_END
<1>2. <<>> \in Seq(Word) /\ Len(<<>>) <= 2
  BY EmptySeq
<1>3. \A form \in 0 .. 3 :
        SysexPacket(form) \in Seq(Word) /\ Len(SysexPacket(form)) <= 2
  BY SysexPacketType
<1> QED  BY <1>1, <1>2, <1>3 DEF LastPacket, FullPacket

(* A push with room for its words appends them all.                              *)
LEMMA EmitProperties ==
  ASSUME TypeOK, NEW words \in Seq(Word), Emit(words),
         Len(output) <= MaxPending, Len(words) <= 3
  PROVE  /\ output' = output \o words
         /\ output' \in Seq(Word)
         /\ Len(output') <= OutputSize
         /\ refused' = FALSE
<1> DEFINE all == output \o words
<1>1. /\ output \in Seq(Word) /\ Len(output) \in Nat /\ Len(words) \in Nat
      /\ Len(output) <= 1
  BY ClientAssumption, LenProperties DEF TypeOK
<1>2. all \in Seq(Word) /\ Len(all) = Len(output) + Len(words)
  BY <1>1, ConcatProperties
<1>3. Len(all) <= OutputSize
  BY <1>1, <1>2 DEF OutputSize
<1>4. output' = SubSeq(all, 1, Len(all))
  BY <1>3 DEF Emit
<1>5. output' = all
  <2> HIDE DEF all
  <2> QED  BY <1>2, <1>4, SubSeqFull
<1>6. refused' = FALSE
  <2>1. (Len(all) > OutputSize) = FALSE
    BY <1>1, <1>2, <1>3 DEF OutputSize
  <2> QED  BY <2>1 DEF Emit
<1> QED  BY <1>2, <1>3, <1>5, <1>6

-------------------------------------------------------------------------------
LEMMA NoSysexType == NoSysex \in Sysex7
BY DEF NoSysex, NoBytes, Sysex7, PacketBytes

LEMMA InitIInv == Init => IInv
<1> SUFFICES ASSUME Init PROVE IInv
  OBVIOUS
<1>1. TypeOK
  <2>1. <<>> \in Seq(Word) /\ Len(<<>>) <= OutputSize
    BY EmptySeq DEF OutputSize
  <2>2. 0 \in Byte
    BY DEF Byte
  <2> QED
    BY <2>1, <2>2, ClientAssumption, NoSysexType DEF Init, TypeOK
<1>2. ParserConsistent
  BY DEF Init, ParserConsistent, NoSysex, SYSEX_START
<1> QED  BY <1>1, <1>2 DEF Init, IInv, NothingRefused

\* The words of the output after a push, and the rest of the invariant.
LEMMA PushIInv ==
  ASSUME IInv, NEW b \in Byte, NEW words \in Seq(Word), Emit(words),
         Len(output) <= MaxPending, Len(words) <= 3,
         group' = group,
         d0' \in Byte, d1' \in 0 .. 127 \union {Unknown}, sysex7' \in Sysex7,
         ParserConsistent'
  PROVE  IInv'
BY EmitProperties DEF IInv, TypeOK, NothingRefused

LEMMA StatusIInv ==
  ASSUME IInv, NEW b \in Byte, Len(output) <= MaxPending, Status(b)
  PROVE  IInv'
<1> DEFINE tune == IF b = TUNE_REQUEST THEN <<MessageWord(b, 0, 0)>> ELSE <<>>
<1>1. tune \in Seq(Word) /\ Len(tune) <= 1
  <2>1. MessageWord(b, 0, 0) \in Word
    <3>1. 0 \in Byte
      BY DEF Byte
    <3> QED  BY <3>1, MessageWordType DEF IInv
  <2> QED  BY <2>1, EmptySeq
<1>2. LastPacket \in Seq(Word) /\ Len(LastPacket) <= 2
  BY PacketsType DEF IInv
<1>3. LastPacket \o tune \in Seq(Word) /\ Len(LastPacket \o tune) <= 3
  <2> HIDE DEF tune
  <2> QED  BY <1>1, <1>2, ConcatProperties, LenProperties
<1>4. Emit(LastPacket \o tune)
  BY DEF Status
<1>5. sysex7' \in Sysex7
  BY NoSysexType DEF Status, Sysex7
<1>6. ParserConsistent'
  <2>1. CASE b = SYSEX_START
    BY <2>1
    DEF Status, ParserConsistent, NoSysex, SYSEX_START, Unknown, IsStatusByte
  <2>2. CASE b # SYSEX_START
    BY <2>2
    DEF Status, ParserConsistent, NoSysex, SYSEX_START, Unknown, IsStatusByte
  <2> QED  BY <2>1, <2>2
<1> HIDE DEF tune
<1> QED  BY <1>3, <1>4, <1>5, <1>6, PushIInv DEF Status, Unknown

LEMMA SysexDataIInv ==
  ASSUME IInv, NEW b \in Byte, Len(output) <= MaxPending, SysexData(b)
  PROVE  IInv'
<1>1. FullPacket \in Seq(Word) /\ Len(FullPacket) <= 3
  <2>1. FullPacket \in Seq(Word) /\ Len(FullPacket) <= 2
    BY PacketsType DEF IInv
  <2>2. Len(FullPacket) \in Nat
    BY <2>1, LenProperties
  <2> QED  BY <2>1, <2>2
<1>2. b \in 0 .. 127
  <2>1. ~IsStatusByte(b)
    BY DEF SysexData
  <2> QED  BY <2>1 DEF IsStatusByte, Byte
<1>3. sysex7' \in Sysex7 /\ sysex7'.state # "none" /\ sysex7'.pos >= 1
  <2>1. CASE PacketIsFull
    <3>1. sysex7' = [state |-> "cont", pos |-> 1, bytes |-> [NoBytes EXCEPT ![0] = b]]
      BY <2>1 DEF SysexData
    <3>2. [NoBytes EXCEPT ![0] = b] \in [0 .. PacketBytes - 1 -> 0 .. 127]
      <4>1. NoBytes \in [0 .. PacketBytes - 1 -> 0 .. 127]
        BY DEF NoBytes
      <4> QED  BY <1>2, <4>1
    <3> QED  BY <3>1, <3>2 DEF Sysex7, PacketBytes
  <2>2. CASE ~PacketIsFull
    <3>1. /\ sysex7.state \in {"start", "cont"}
          /\ sysex7.pos \in 0 .. 5
          /\ sysex7.bytes \in [0 .. 5 -> 0 .. 127]
      BY <2>2 DEF IInv, TypeOK, Sysex7, PacketBytes, PacketIsFull, SysexData
    <3>2. sysex7' = [state |-> sysex7.state, pos |-> sysex7.pos + 1,
                     bytes |-> [sysex7.bytes EXCEPT ![sysex7.pos] = b]]
      BY <2>2 DEF SysexData, IInv, TypeOK, Sysex7
    <3>3. [sysex7.bytes EXCEPT ![sysex7.pos] = b] \in [0 .. 5 -> 0 .. 127]
      BY <1>2, <3>1
    <3> QED  BY <3>1, <3>2, <3>3 DEF Sysex7, PacketBytes
  <2> QED  BY <2>1, <2>2
<1>4. ParserConsistent'
  BY <1>3 DEF SysexData, IInv, ParserConsistent, TakesTwoBytes, SYSEX_START
<1>5. d0' \in Byte /\ d1' \in 0 .. 127 \union {Unknown} /\ group' = group
  BY DEF SysexData, IInv, TypeOK
<1> QED  BY <1>1, <1>3, <1>4, <1>5, PushIInv DEF SysexData

LEMMA DataIInv ==
  ASSUME IInv, NEW b \in Byte, Len(output) <= MaxPending,
         SecondByte(b) \/ OneByteMessage(b) \/ FirstByte(b) \/ Ignored(b)
  PROVE  IInv'
<1>1. b \in 0 .. 127
  BY DEF SecondByte, OneByteMessage, FirstByte, Ignored, IsStatusByte, Byte
<1>2. /\ group' = group /\ d0' = d0 /\ sysex7' = sysex7
      /\ d1' \in {d1, b, Unknown}
      /\ d1' # Unknown /\ d1' # d1 => TakesTwoBytes(d0)
  BY DEF SecondByte, OneByteMessage, FirstByte, Ignored, state
<1>3. PICK words \in Seq(Word) : Emit(words) /\ Len(words) <= 3
  <2>1. \A b1 \in Byte, b2 \in Byte :
          /\ <<MessageWord(d0, b1, b2)>> \in Seq(Word)
          /\ Len(<<MessageWord(d0, b1, b2)>>) <= 3
    BY MessageWordType DEF IInv, TypeOK
  <2>2. CASE SecondByte(b)
    <3>1. d1 \in Byte
      BY <2>2 DEF SecondByte, IInv, TypeOK, Byte
    <3> QED  BY <2>1, <2>2, <3>1 DEF SecondByte
  <2>3. CASE OneByteMessage(b)
    <3>1. 0 \in Byte
      BY DEF Byte
    <3> QED  BY <2>1, <2>3, <3>1 DEF OneByteMessage
  <2>4. CASE FirstByte(b) \/ Ignored(b)
    <3>1. <<>> \in Seq(Word) /\ Len(<<>>) <= 3
      BY EmptySeq
    <3> QED  BY <2>4, <3>1 DEF FirstByte, Ignored
  <2> QED  BY <2>2, <2>3, <2>4
<1>4. d0 \in Byte /\ d1 \in 0 .. 127 \union {Unknown} /\ sysex7 \in Sysex7
  BY DEF IInv, TypeOK
<1>5. ParserConsistent'
  <2>1. d1' # Unknown => (TakesTwoBytes(d0) /\ d0 >= 128)
    <3>1. d1 # Unknown => (TakesTwoBytes(d0) /\ d0 >= 128)
      BY DEF IInv, ParserConsistent
    <3>2. TakesTwoBytes(d0) => d0 >= 128
      BY <1>4 DEF IInv, ParserConsistent, TakesTwoBytes, IsStatusByte
    <3> QED  BY <1>2, <3>1, <3>2
  <2> QED  BY <1>2, <2>1 DEF IInv, ParserConsistent
<1> QED  BY <1>1, <1>2, <1>3, <1>4, <1>5, PushIInv

LEMMA RealTimeIInv ==
  ASSUME IInv, NEW b \in Byte, Len(output) <= MaxPending, RealTime(b)
  PROVE  IInv'
<1>1. <<MessageWord(b, 0, 0)>> \in Seq(Word) /\ Len(<<MessageWord(b, 0, 0)>>) <= 3
  <2>1. MessageWord(b, 0, 0) \in Word
    <3>1. 0 \in Byte
      BY DEF Byte
    <3> QED  BY <3>1, MessageWordType DEF IInv
  <2> QED  BY <2>1
<1>2. /\ d0' \in Byte /\ d1' \in 0 .. 127 \union {Unknown} /\ sysex7' \in Sysex7
      /\ group' = group
  BY DEF RealTime, IInv, TypeOK
<1>3. ParserConsistent'
  BY DEF RealTime, IInv, ParserConsistent
<1> QED  BY <1>1, <1>2, <1>3, PushIInv DEF RealTime

LEMMA StepIInv == IInv /\ [Next]_vars => IInv'
<1> SUFFICES ASSUME IInv, [Next]_vars PROVE IInv'
  OBVIOUS
<1>1. CASE UNCHANGED vars
  BY <1>1 DEF vars, IInv, TypeOK, ParserConsistent, NothingRefused
<1>2. ASSUME NEW b \in Input, Send(b) PROVE IInv'
  <2>1. b \in Byte
    BY ClientAssumption
  <2> QED
    BY <1>2, <2>1, RealTimeIInv, StatusIInv, SysexDataIInv, DataIInv DEF Send, Push
<1>3. CASE Pop
  <2>1. /\ output' \in Seq(Word) /\ Len(output') = Len(output) - 1
        /\ Len(output) \in Nat
    BY <1>3, HeadTailProperties, LenProperties DEF Pop, IInv, TypeOK
  <2>2. Len(output') <= OutputSize
    BY <2>1 DEF IInv, TypeOK, OutputSize
  <2> QED
    BY <1>3, <2>1, <2>2 DEF Pop, IInv, TypeOK, ParserConsistent, NothingRefused
<1>4. ASSUME NEW g \in Group, Restart(g) PROVE IInv'
  <2>1. TypeOK'
    <3>1. <<>> \in Seq(Word) /\ Len(<<>>) <= OutputSize
      BY EmptySeq DEF OutputSize
    <3>2. 0 \in Byte
      BY DEF Byte
    <3> QED  BY <1>4, <3>1, <3>2, NoSysexType DEF Restart, TypeOK
  <2>2. ParserConsistent'
    BY <1>4 DEF Restart, ParserConsistent, NoSysex, SYSEX_START
  <2> QED  BY <1>4, <2>1, <2>2 DEF Restart, IInv, NothingRefused
<1> QED
  <2>1. 0 \in Group
    BY DEF Group
  <2> QED
    BY <1>1, <1>2, <1>3, <1>4, <2>1, ClientAssumption DEF Next, Reset, SetGroup

THEOREM Invariance == Spec => []IInv
BY InitIInv, StepIInv, PTL DEF Spec

(* Every variable keeps its type, whatever bytes arrive: a packet never takes a  *)
(* seventh byte, and every field of every word fits.                             *)
THEOREM TypeCorrect == Spec => []TypeOK
<1>1. IInv => TypeOK
  BY DEF IInv
<1> QED  BY <1>1, Invariance, PTL

(* d0_, d1_ and the system exclusive state always agree, so the assertions in    *)
(* convert() and sysex_data_byte() never fail.                                   *)
THEOREM ParserAlwaysConsistent == Spec => []ParserConsistent
<1>1. IInv => ParserConsistent
  BY DEF IInv
<1> QED  BY <1>1, Invariance, PTL

(* A client that leaves at most one word unread never loses a word.              *)
THEOREM NothingIsRefused == Spec => []NothingRefused
<1>1. IInv => NothingRefused
  BY DEF IInv
<1> QED  BY <1>1, Invariance, PTL

-------------------------------------------------------------------------------
(* The reader of the words.                                                      *)

ReadMessages == [group : Group, status : Byte, data : Seq(Byte)]
Firsts == {<<>>} \union {<<w>> : w \in Word}
Reader == [first : Firsts, payload : Seq(Byte), messages : Seq(ReadMessages)]

LEMMA WordBytes ==
  ASSUME NEW w \in Word
  PROVE  /\ w[1] \in Byte /\ w[2] \in Byte /\ w[3] \in Byte /\ w[4] \in Byte
         /\ w[1] % 16 \in Group
BY DEF Word, Byte, Group

LEMMA ReadMessageType ==
  ASSUME NEW w \in Word, NEW s \in Byte, NEW d \in Seq(Byte)
  PROVE  <<ReadMessage(w, s, d)>> \in Seq(ReadMessages)
BY WordBytes DEF ReadMessage, ReadMessages

LEMMA AfterType ==
  ASSUME NEW r \in Reader, NEW f \in Firsts, NEW d \in Seq(Byte), NEW m \in Seq(ReadMessages)
  PROVE  After(r, f, d, m) \in Reader
<1>1. r.messages \o m \in Seq(ReadMessages)
  BY ConcatProperties DEF Reader
<1> QED  BY <1>1 DEF After, Reader

LEMMA PrefixType ==
  ASSUME NEW S, NEW s \in Seq(S), NEW n \in Nat, n <= Len(s)
  PROVE  /\ SubSeq(s, 1, n) \in Seq(S) /\ Len(SubSeq(s, 1, n)) = n
         /\ \A i \in 1 .. n : SubSeq(s, 1, n)[i] = s[i]
<1>1. Len(s) \in Nat /\ \A i \in 1 .. Len(s) : s[i] \in S
  BY LenProperties, ElementOfSeq
<1> QED  BY <1>1, SubSeqProperties

LEMMA PairIsConcat ==
  ASSUME NEW S, NEW a \in S, NEW b \in S
  PROVE  /\ <<a>> \in Seq(S) /\ <<b>> \in Seq(S) /\ <<a>> # <<>>
         /\ <<a, b>> \in Seq(S) /\ Len(<<a, b>>) = 2
         /\ <<a, b>> = <<a>> \o <<b>> /\ <<a, b>> = Append(<<a>>, b)
<1> DEFINE u == <<a>>
           v == <<b>>
           c == u \o v
<1>1. u \in Seq(S) /\ v \in Seq(S) /\ Len(u) = 1 /\ Len(v) = 1 /\ u[1] = a /\ v[1] = b
  OBVIOUS
<1>2. <<a, b>> \in Seq(S) /\ Len(<<a, b>>) = 2 /\ <<a, b>>[1] = a /\ <<a, b>>[2] = b
  OBVIOUS
<1> HIDE DEF u, v
<1>3. /\ c \in Seq(S) /\ Len(c) = Len(u) + Len(v)
      /\ \A i \in 1 .. Len(u) + Len(v) : c[i] = IF i <= Len(u) THEN u[i] ELSE v[i - Len(u)]
  BY <1>1, ConcatProperties
<1>4. Len(c) = 2 /\ c[1] = a /\ c[2] = b
  <2> HIDE DEF c
  <2>1. /\ 1 \in 1 .. Len(u) + Len(v) /\ 1 <= Len(u)
        /\ 2 \in 1 .. Len(u) + Len(v) /\ ~(2 <= Len(u)) /\ 2 - Len(u) = 1
        /\ Len(u) + Len(v) = 2
    BY <1>1
  <2> QED  BY <1>1, <1>3, <2>1
<1> HIDE DEF c
<1>5. \A i \in 1 .. 2 : <<a, b>>[i] = c[i]
  BY <1>2, <1>4
<1>6. <<a, b>> = c
  BY <1>2, <1>3, <1>4, <1>5, SeqEqual
<1>7. u # <<>>
  BY <1>1
<1>8. Append(u, b) = c
  BY <1>1, AppendIsConcat DEF v, c
<1> QED  BY <1>1, <1>2, <1>6, <1>7, <1>8 DEF u, v, c

LEMMA AppendToNone ==
  ASSUME NEW b
  PROVE  Append(<<>>, b) = <<b>> /\ Len(<<>>) + 1 = 1
OBVIOUS

LEMMA AfterFields ==
  ASSUME NEW r, NEW f, NEW d, NEW m
  PROVE  /\ After(r, f, d, m).first = f /\ After(r, f, d, m).payload = d
         /\ After(r, f, d, m).messages = r.messages \o m
BY DEF After

\* What a packet carries, and what a short message holds.
LEMMA ReadBytesType ==
  ASSUME NEW v \in Word, NEW w \in Word
  PROVE  /\ Carried(v, w) \in Seq(Byte)
         /\ SubSeq(<<w[3], w[4]>>, 1, DataBytes(w[2])) \in Seq(Byte)
<1>1. /\ v[3] \in Byte /\ v[4] \in Byte /\ v[2] \in Byte
      /\ w[1] \in Byte /\ w[2] \in Byte /\ w[3] \in Byte /\ w[4] \in Byte
  BY WordBytes
<1> DEFINE six == <<v[3], v[4], w[1], w[2], w[3], w[4]>>
           two == <<w[3], w[4]>>
           n == IF v[2] % 16 <= PacketBytes THEN v[2] % 16 ELSE PacketBytes
<1>2. six \in Seq(Byte) /\ Len(six) = 6 /\ two \in Seq(Byte) /\ Len(two) = 2
  BY <1>1
<1>3. n \in Nat /\ n <= 6
  BY <1>1 DEF PacketBytes, Byte
<1>4. DataBytes(w[2]) \in Nat /\ DataBytes(w[2]) <= 2
  BY DEF DataBytes
<1>5. Carried(v, w) = SubSeq(six, 1, n)
  BY DEF Carried
<1> HIDE DEF six, two, n
<1>6. SubSeq(six, 1, n) \in Seq(Byte) /\ SubSeq(two, 1, DataBytes(w[2])) \in Seq(Byte)
  BY <1>2, <1>3, <1>4, PrefixType
<1> QED  BY <1>5, <1>6 DEF two

\* What a word can make of a reader: the reader with at most one message more.
LEMMA AbsorbIs ==
  ASSUME NEW r \in Reader, NEW w \in Word
  PROVE  \E f \in Firsts, d \in Seq(Byte), m \in Seq(ReadMessages) :
           /\ Len(m) <= 1
           /\ Absorb(r, w) = After(r, f, d, m)
           /\ \A q : q.first = r.first /\ q.payload = r.payload
                     => Absorb(q, w) = After(q, f, d, m)
<1>1. r.first \in Firsts /\ r.payload \in Seq(Byte)
  BY DEF Reader
<1>2. /\ <<>> \in Seq(ReadMessages) /\ Len(<<>>) <= 1 /\ <<>> \in Firsts /\ <<w>> \in Firsts
      /\ <<>> \in Seq(Byte)
  BY EmptySeq DEF Firsts
<1>3. CASE r.first # <<>>
  <2> DEFINE v == r.first[1]
             form == v[2] \div 16
             some == Carried(v, w)
             all == IF form \in {SYSEX7_IN_1, SYSEX7_START} THEN some ELSE r.payload \o some
             m == <<ReadMessage(v, SYSEX_START, all)>>
  <2>1. v \in Word
    BY <1>1, <1>3 DEF Firsts
  <2>2. some \in Seq(Byte)
    BY <2>1, ReadBytesType
  <2>3. all \in Seq(Byte)
    <3>1. r.payload \o some \in Seq(Byte)
      <4> HIDE DEF some
      <4> QED  BY <1>1, <2>2, ConcatProperties
    <3> QED  BY <2>2, <3>1
  <2>4. SYSEX_START \in Byte
    BY DEF SYSEX_START, Byte
  <2>5. m \in Seq(ReadMessages) /\ Len(m) <= 1
    <3> HIDE DEF all, v
    <3> QED  BY <2>1, <2>3, <2>4, ReadMessageType
  <2>6. ASSUME NEW q, q.first = r.first, q.payload = r.payload
        PROVE  Absorb(q, w) = IF form \in {SYSEX7_IN_1, SYSEX7_END}
                              THEN After(q, <<>>, <<>>, m)
                              ELSE After(q, <<>>, all, <<>>)
    BY <1>3, <2>6 DEF Absorb, AbsorbSecond
  <2> HIDE DEF m, all, form
  <2>7. CASE form \in {SYSEX7_IN_1, SYSEX7_END}
    <3>1. \A q : q.first = r.first /\ q.payload = r.payload
                 => Absorb(q, w) = After(q, <<>>, <<>>, m)
      BY <2>6, <2>7
    <3> QED  BY <1>2, <2>5, <3>1
  <2>8. CASE form \notin {SYSEX7_IN_1, SYSEX7_END}
    <3>1. \A q : q.first = r.first /\ q.payload = r.payload
                 => Absorb(q, w) = After(q, <<>>, all, <<>>)
      BY <2>6, <2>8
    <3> QED  BY <1>2, <2>3, <3>1
  <2> QED  BY <2>7, <2>8
<1>4. CASE r.first = <<>> /\ MessageType(w) = MT_DATA64
  <2>1. \A q : q.first = r.first /\ q.payload = r.payload
               => Absorb(q, w) = After(q, <<w>>, r.payload, <<>>)
    BY <1>4 DEF Absorb
  <2> QED  BY <1>1, <1>2, <2>1
<1>5. CASE r.first = <<>> /\ MessageType(w) # MT_DATA64
  <2> DEFINE d == SubSeq(<<w[3], w[4]>>, 1, DataBytes(w[2]))
             m == <<ReadMessage(w, w[2], d)>>
  <2>1. d \in Seq(Byte)
    BY ReadBytesType
  <2>2. m \in Seq(ReadMessages) /\ Len(m) <= 1
    <3> HIDE DEF d
    <3> QED  BY <2>1, WordBytes, ReadMessageType
  <2>3. \A q : q.first = r.first /\ q.payload = r.payload
               => Absorb(q, w) = After(q, <<>>, r.payload, m)
    BY <1>5 DEF Absorb
  <2> HIDE DEF m
  <2> QED  BY <1>1, <1>2, <2>2, <2>3
<1> QED  BY <1>3, <1>4, <1>5

LEMMA AbsorbType ==
  ASSUME NEW r \in Reader, NEW w \in Word
  PROVE  Absorb(r, w) \in Reader
BY AbsorbIs, AfterType

\* What each word does to a reader, and the states it goes through.
Absorbings(words) == [i \in 1 .. Len(words) |-> [r \in Reader |-> Absorb(r, words[i])]]

Absorbing(r, words, h) ==
  /\ h \in [0 .. Len(words) -> Reader]
  /\ h[0] = r
  /\ \A i \in 1 .. Len(words) : h[i] = Absorb(h[i - 1], words[i])

LEMMA AbsorbingSteps ==
  ASSUME NEW words \in Seq(Word)
  PROVE  /\ Len(words) \in Nat
         /\ Absorbings(words) \in Steps(Reader, Len(words))
         /\ \A i \in 1 .. Len(words), r \in Reader :
              Absorbings(words)[i][r] = Absorb(r, words[i])
<1>1. Len(words) \in Nat /\ \A i \in 1 .. Len(words) : words[i] \in Word
  BY LenProperties, ElementOfSeq
<1>2. \A i \in 1 .. Len(words), r \in Reader : Absorb(r, words[i]) \in Reader
  BY <1>1, AbsorbType
<1> QED  BY <1>1, <1>2 DEF Absorbings, Steps

LEMMA PathIsAbsorbing ==
  ASSUME NEW r, NEW words \in Seq(Word), NEW h
  PROVE  Absorbing(r, words, h) <=> Path(Reader, Len(words), r, Absorbings(words), h)
<1>1. ASSUME h \in [0 .. Len(words) -> Reader], NEW i \in 1 .. Len(words)
      PROVE  Absorbings(words)[i][h[i - 1]] = Absorb(h[i - 1], words[i])
  <2>1. i - 1 \in 0 .. Len(words)
    BY AbsorbingSteps
  <2>2. h[i - 1] \in Reader
    BY <1>1, <2>1
  <2> QED  BY <2>2, AbsorbingSteps
<1> QED  BY <1>1 DEF Absorbing, Path

\* AbsorbAll takes the reader from state to state.
LEMMA AbsorbAllSteps ==
  ASSUME NEW r \in Reader, NEW words \in Seq(Word)
  PROVE  \E h : Absorbing(r, words, h) /\ AbsorbAll(r, words) = h[Len(words)]
<1> DEFINE n == Len(words)
           Rec(h) == h = [i \in 0 .. n |-> IF i = 0 THEN r ELSE Absorb(h[i - 1], words[i])]
<1>1. n \in Nat
  BY AbsorbingSteps
<1>2. PICK g : Absorbing(r, words, g)
  BY AbsorbingSteps, PathExists, PathIsAbsorbing
<1>3. PICK h : h = (CHOOSE q : Rec(q)) /\ AbsorbAll(r, words) = h[n]
  BY DEF AbsorbAll
<1> HIDE DEF n
<1>4. Rec(g)
  <2> DEFINE G == [i \in 0 .. n |-> IF i = 0 THEN r ELSE Absorb(g[i - 1], words[i])]
  <2>1. /\ g \in [0 .. n -> Reader] /\ g[0] = r
        /\ \A i \in 1 .. n : g[i] = Absorb(g[i - 1], words[i])
    BY <1>2 DEF Absorbing, n
  <2>2. \A i \in 0 .. n : g[i] = G[i]
    BY <1>1, <2>1
  <2>3. g = [i \in 0 .. n |-> g[i]]
    BY <2>1
  <2> QED  BY <2>2, <2>3
<1>5. Rec(h)
  <2> HIDE DEF Rec
  <2> QED  BY <1>3, <1>4
<1>6. h[0] = r /\ \A i \in 1 .. n : h[i] = Absorb(h[i - 1], words[i])
  <2>1. h = [i \in 0 .. n |-> IF i = 0 THEN r ELSE Absorb(h[i - 1], words[i])]
    BY <1>5
  <2> HIDE DEF Rec
  <2> QED  BY <1>1, <2>1
<1> HIDE DEF Rec
<1>7. \A i \in 0 .. n : h[i] = g[i]
  <2>1. \A i \in 1 .. n : h[i - 1] \in Reader => h[i] = Absorbings(words)[i][h[i - 1]]
    BY <1>6, AbsorbingSteps DEF n
  <2>2. Path(Reader, n, r, Absorbings(words), g)
    BY <1>2, PathIsAbsorbing DEF n
  <2> QED  BY <1>1, <1>6, <2>1, <2>2, PathUnique
<1>8. h[n] = g[n]
  BY <1>1, <1>7
<1> QED  BY <1>2, <1>3, <1>8 DEF n

LEMMA AbsorbAllIs ==
  ASSUME NEW r \in Reader, NEW words \in Seq(Word), NEW h, Absorbing(r, words, h)
  PROVE  AbsorbAll(r, words) = h[Len(words)]
<1>1. PICK g : Absorbing(r, words, g) /\ AbsorbAll(r, words) = g[Len(words)]
  BY AbsorbAllSteps
<1>2. \A i \in 1 .. Len(words) : h[i - 1] \in Reader => h[i] = Absorbings(words)[i][h[i - 1]]
  BY AbsorbingSteps DEF Absorbing
<1>3. \A i \in 0 .. Len(words) : h[i] = g[i]
  BY <1>1, <1>2, AbsorbingSteps, PathIsAbsorbing, PathUnique DEF Absorbing
<1> QED  BY <1>1, <1>3, AbsorbingSteps

LEMMA AbsorbAllType ==
  ASSUME NEW r \in Reader, NEW words \in Seq(Word)
  PROVE  AbsorbAll(r, words) \in Reader
<1>1. PICK h : Absorbing(r, words, h) /\ AbsorbAll(r, words) = h[Len(words)]
  BY AbsorbAllSteps
<1> QED  BY <1>1, AbsorbingSteps DEF Absorbing

LEMMA AbsorbNothing ==
  ASSUME NEW r \in Reader
  PROVE  AbsorbAll(r, <<>>) = r
<1>1. <<>> \in Seq(Word) /\ Len(<<>>) = 0
  BY EmptySeq
<1>2. PICK h : Absorbing(r, <<>>, h) /\ AbsorbAll(r, <<>>) = h[Len(<<>>)]
  BY <1>1, AbsorbAllSteps
<1> QED  BY <1>1, <1>2 DEF Absorbing

LEMMA AbsorbOne ==
  ASSUME NEW r \in Reader, NEW w \in Word
  PROVE  AbsorbAll(r, <<w>>) = Absorb(r, w)
<1>1. <<w>> \in Seq(Word) /\ Len(<<w>>) = 1 /\ <<w>>[1] = w
  OBVIOUS
<1>2. PICK h : Absorbing(r, <<w>>, h) /\ AbsorbAll(r, <<w>>) = h[Len(<<w>>)]
  BY <1>1, AbsorbAllSteps
<1>3. h[0] = r /\ h[1] = Absorb(h[1 - 1], <<w>>[1])
  BY <1>1, <1>2 DEF Absorbing
<1> QED  BY <1>1, <1>2, <1>3

\* The words of s and then those of t.
LEMMA AbsorbMore ==
  ASSUME NEW r \in Reader, NEW s \in Seq(Word), NEW t \in Seq(Word)
  PROVE  AbsorbAll(r, s \o t) = AbsorbAll(AbsorbAll(r, s), t)
<1> DEFINE u == s \o t
           m == Len(s)
           n == Len(t)
<1>1. m \in Nat /\ n \in Nat
  BY LenProperties
<1>2. /\ u \in Seq(Word) /\ Len(u) = m + n
      /\ \A i \in 1 .. m : u[i] = s[i]
      /\ \A i \in 1 .. n : u[m + i] = t[i]
  BY <1>1, ConcatProperties
<1> HIDE DEF u, m, n
<1>3. PICK h : Absorbing(r, u, h) /\ AbsorbAll(r, u) = h[Len(u)]
  BY <1>2, AbsorbAllSteps
<1>4. /\ h \in [0 .. m + n -> Reader] /\ h[0] = r
      /\ \A i \in 1 .. m + n : h[i] = Absorb(h[i - 1], u[i])
  BY <1>2, <1>3 DEF Absorbing
<1> DEFINE g == [i \in 0 .. m |-> h[i]]
           k == [i \in 0 .. n |-> h[m + i]]
<1>5. Absorbing(r, s, g)
  <2>1. g \in [0 .. m -> Reader] /\ g[0] = r
    BY <1>1, <1>4
  <2>2. ASSUME NEW i \in 1 .. m
        PROVE  g[i] = Absorb(g[i - 1], s[i])
    <3>1. i \in 1 .. m + n /\ i \in 0 .. m /\ i - 1 \in 0 .. m
      BY <1>1
    <3>2. g[i] = h[i] /\ g[i - 1] = h[i - 1]
      BY <3>1
    <3> HIDE DEF g
    <3> QED  BY <1>2, <1>4, <3>1, <3>2
  <2> HIDE DEF g
  <2> QED  BY <2>1, <2>2 DEF Absorbing, m
<1>6. g[m] = h[m] /\ k[0] = h[m] /\ k[n] = h[m + n]
  BY <1>1
<1>7. Absorbing(h[m], t, k)
  <2>1. k \in [0 .. n -> Reader]
    BY <1>1, <1>4
  <2>2. ASSUME NEW i \in 1 .. n
        PROVE  k[i] = Absorb(k[i - 1], t[i])
    <3>1. /\ i \in 0 .. n /\ i - 1 \in 0 .. n /\ m + i \in 1 .. m + n
          /\ m + (i - 1) = (m + i) - 1
      BY <1>1
    <3>2. k[i] = h[m + i] /\ k[i - 1] = h[(m + i) - 1]
      BY <3>1
    <3> HIDE DEF k
    <3> QED  BY <1>2, <1>4, <3>1, <3>2
  <2> HIDE DEF k
  <2> QED  BY <1>6, <2>1, <2>2 DEF Absorbing, n
<1> HIDE DEF g, k
<1>8. AbsorbAll(r, s) = h[m]
  BY <1>5, <1>6, AbsorbAllIs DEF m
<1>9. h[m] \in Reader
  BY <1>1, <1>4
<1>10. AbsorbAll(h[m], t) = h[m + n]
  BY <1>6, <1>7, <1>9, AbsorbAllIs DEF n
<1> QED  BY <1>2, <1>3, <1>8, <1>10 DEF u

\* A reader that has some more messages before those of r.
Preceded(m, r) == [first |-> r.first, payload |-> r.payload, messages |-> m \o r.messages]

LEMMA PrecededType ==
  ASSUME NEW r \in Reader, NEW m \in Seq(ReadMessages)
  PROVE  Preceded(m, r) \in Reader
<1>1. m \o r.messages \in Seq(ReadMessages)
  BY ConcatProperties DEF Reader
<1> QED  BY <1>1 DEF Preceded, Reader

\* What a reader makes of a byte does not depend on the messages it has read.
\* What a reader makes of a word does not depend on the messages it has read.
LEMMA AbsorbPreceded ==
  ASSUME NEW r \in Reader, NEW w \in Word, NEW m \in Seq(ReadMessages)
  PROVE  Absorb(Preceded(m, r), w) = Preceded(m, Absorb(r, w))
<1> DEFINE p == Preceded(m, r)
<1>1. r.messages \in Seq(ReadMessages)
  BY DEF Reader
<1>2. p.first = r.first /\ p.payload = r.payload /\ p.messages = m \o r.messages
  BY DEF Preceded
<1>3. ASSUME NEW f, NEW d, NEW c \in Seq(ReadMessages)
      PROVE  After(p, f, d, c) = Preceded(m, After(r, f, d, c))
  <2>1. (m \o r.messages) \o c = m \o (r.messages \o c)
    <3> DEFINE x == r.messages
    <3>1. x \in Seq(ReadMessages)
      BY <1>1
    <3> HIDE DEF x
    <3>2. (m \o x) \o c = m \o (x \o c)
      BY <3>1, ConcatAssociative
    <3> QED  BY <3>2 DEF x
  <2> HIDE DEF p
  <2> QED  BY <1>2, <2>1 DEF After, Preceded
<1> HIDE DEF p
<1>4. PICK f \in Firsts, d \in Seq(Byte), c \in Seq(ReadMessages) :
        /\ Absorb(r, w) = After(r, f, d, c)
        /\ \A q : q.first = r.first /\ q.payload = r.payload
                  => Absorb(q, w) = After(q, f, d, c)
  BY AbsorbIs
<1>5. Absorb(p, w) = After(p, f, d, c)
  BY <1>2, <1>4
<1> QED  BY <1>3, <1>4, <1>5 DEF p

LEMMA AbsorbAllPreceded ==
  ASSUME NEW r \in Reader, NEW words \in Seq(Word), NEW m \in Seq(ReadMessages)
  PROVE  AbsorbAll(Preceded(m, r), words) = Preceded(m, AbsorbAll(r, words))
<1> DEFINE n == Len(words)
<1>1. n \in Nat /\ \A i \in 1 .. n : words[i] \in Word
  BY LenProperties, ElementOfSeq
<1>2. PICK h : Absorbing(r, words, h) /\ AbsorbAll(r, words) = h[n]
  BY AbsorbAllSteps
<1> DEFINE g == [i \in 0 .. n |-> Preceded(m, h[i])]
<1>3. /\ h \in [0 .. n -> Reader] /\ h[0] = r
      /\ \A i \in 1 .. n : h[i] = Absorb(h[i - 1], words[i])
  BY <1>2 DEF Absorbing
<1> HIDE DEF n
<1>4. g \in [0 .. n -> Reader] /\ g[0] = Preceded(m, r) /\ g[n] = Preceded(m, h[n])
  BY <1>1, <1>3, PrecededType
<1>5. ASSUME NEW i \in 1 .. n
      PROVE  g[i] = Absorb(g[i - 1], words[i])
  <2>1. i \in 0 .. n /\ i - 1 \in 0 .. n
    BY <1>1
  <2>2. g[i] = Preceded(m, h[i]) /\ g[i - 1] = Preceded(m, h[i - 1])
    BY <2>1
  <2> HIDE DEF g
  <2>3. h[i - 1] \in Reader /\ words[i] \in Word
    BY <1>1, <1>3, <2>1
  <2> QED  BY <1>3, <2>2, <2>3, AbsorbPreceded
<1> HIDE DEF g
<1>6. Absorbing(Preceded(m, r), words, g)
  BY <1>4, <1>5 DEF Absorbing, n
<1> QED  BY <1>2, <1>4, <1>6, PrecededType, AbsorbAllIs DEF n

LEMMA EmptiedFacts ==
  ASSUME NEW x \in Reader
  PROVE  /\ Emptied(x) \in Reader /\ Emptied(x).messages = <<>>
         /\ Preceded(x.messages, Emptied(x)) = x
<1>1. x.first \in Firsts /\ x.payload \in Seq(Byte) /\ x.messages \in Seq(ReadMessages)
  BY DEF Reader
<1>2. x.messages \o <<>> = x.messages /\ <<>> \in Seq(ReadMessages)
  BY <1>1, ConcatEmptySeq, EmptySeq
<1>3. Emptied(x) \in Reader /\ Emptied(x).messages = <<>>
  BY <1>1, <1>2 DEF Emptied, Reader
<1>4. Preceded(x.messages, Emptied(x)) = x
  BY <1>2 DEF Emptied, Preceded, Reader
<1> QED  BY <1>3, <1>4

-------------------------------------------------------------------------------
(* The words of a push, as the reader takes them.                                *)

\* The byte values are those of the abstract receiver.
LEMMA SameBytes ==
  /\ \A b : Receiver!IsStatusByte(b) <=> IsStatusByte(b)
  /\ \A b : Receiver!IsSystemRealTime(b) <=> IsSystemRealTime(b)
  /\ Receiver!SYSEX_START = SYSEX_START /\ Receiver!TUNE_REQUEST = TUNE_REQUEST
<1>1. \A b : Receiver!IsStatusByte(b) <=> IsStatusByte(b)
  BY DEF Receiver!IsStatusByte, IsStatusByte
<1>2. \A b : Receiver!IsSystemRealTime(b) <=> IsSystemRealTime(b)
  BY DEF Receiver!IsSystemRealTime, IsSystemRealTime, Receiver!TIMING_CLOCK, TIMING_CLOCK,
         Receiver!SEQUENCE_START, SEQUENCE_START, Receiver!SEQUENCE_CONTINUE,
         SEQUENCE_CONTINUE, Receiver!SEQUENCE_STOP, SEQUENCE_STOP,
         Receiver!ACTIVE_SENSING, ACTIVE_SENSING, Receiver!SYSTEM_RESET, SYSTEM_RESET
<1> QED
  BY <1>1, <1>2 DEF Receiver!SYSEX_START, SYSEX_START, Receiver!TUNE_REQUEST, TUNE_REQUEST

\* How many data bytes the receiver and the reader expect.
LEMMA NeedsFacts ==
  ASSUME NEW s \in Byte, s = 0 \/ IsStatusByte(s)
  PROVE  /\ IsOneByteMessage(s) => Receiver!Needs(s) = 1 /\ DataBytes(s) = 1
         /\ TakesTwoBytes(s) => Receiver!Needs(s) = 2 /\ DataBytes(s) = 2
         /\ ~IsOneByteMessage(s) /\ ~TakesTwoBytes(s) => Receiver!Needs(s) = 0
<1>1. Receiver!IsOneByteMessage(s) <=> IsOneByteMessage(s)
  BY DEF Receiver!IsOneByteMessage, IsOneByteMessage, Receiver!PROGRAM_CHANGE,
         PROGRAM_CHANGE, Receiver!CHANNEL_PRESSURE, CHANNEL_PRESSURE,
         Receiver!TIMING_CODE, TIMING_CODE, Receiver!SONG_SELECT, SONG_SELECT
<1>2. (s \in Receiver!NOTE_OFF .. Receiver!PITCH_BEND + 15 \union {Receiver!SPP})
      <=> (s \in 128 .. 239 \/ s = SPP)
  BY DEF Receiver!NOTE_OFF, Receiver!PITCH_BEND, Receiver!SPP, SPP
<1>3. TakesTwoBytes(s) <=> (~IsOneByteMessage(s) /\ (s \in 128 .. 239 \/ s = SPP))
  BY DEF TakesTwoBytes, SYSEX_START, SPP, IsStatusByte, Byte
<1>4. TakesTwoBytes(s) => s < SYSEX_START \/ s = SPP
  BY DEF TakesTwoBytes
<1>5. Receiver!Needs(s) = IF IsOneByteMessage(s) THEN 1
                          ELSE IF s \in 128 .. 239 \/ s = SPP THEN 2 ELSE 0
  BY <1>1, <1>2 DEF Receiver!Needs
<1> QED  BY <1>3, <1>4, <1>5 DEF DataBytes

LEMMA WordAbsorbed ==
  ASSUME TypeOK, NEW x \in Reader, x.first = <<>>,
         NEW b0 \in Byte, NEW b1 \in Byte, NEW b2 \in Byte
  PROVE  Absorb(x, MessageWord(b0, b1, b2))
           = After(x, <<>>, x.payload,
                   <<Receiver!Message(b0, SubSeq(<<b1, b2>>, 1, DataBytes(b0)))>>)
<1> DEFINE w == MessageWord(b0, b1, b2)
<1>1. group \in 0 .. 15
  BY DEF TypeOK, Group
<1>2. w[1] \div 16 \in 1 .. 2 /\ w[1] % 16 = group
  BY <1>1 DEF MessageWord, MT_SYSTEM, MT_M1CVM
<1>3. w[2] = b0 /\ w[3] = b1 /\ w[4] = b2
  BY DEF MessageWord
<1> HIDE DEF w
<1>4. MessageType(w) # MT_DATA64
  BY <1>2 DEF MessageType, MT_DATA64
<1> QED  BY <1>2, <1>3, <1>4 DEF Absorb, ReadMessage, Receiver!Message, w

\* The bytes of a packet are those it was filled with.
LEMMA FilledFacts ==
  ASSUME TypeOK
  PROVE  LET s == sysex7.bytes
         IN  /\ Filled \in Seq(Byte) /\ Len(Filled) = sysex7.pos
             /\ SubSeq(<<s[0], s[1], s[2], s[3], s[4], s[5]>>, 1, sysex7.pos) = Filled
<1> DEFINE s == sysex7.bytes
           n == sysex7.pos
           six == <<s[0], s[1], s[2], s[3], s[4], s[5]>>
<1>1. s \in [0 .. 5 -> 0 .. 127] /\ n \in 0 .. 6
  BY DEF TypeOK, Sysex7, PacketBytes
<1>2. \A i \in 0 .. 5 : s[i] \in Byte
  <2>1. 0 .. 127 \subseteq Byte
    BY DEF Byte
  <2> QED  BY <1>1, <2>1
<1> HIDE DEF s, n
<1>3. Filled = [i \in 1 .. n |-> s[i - 1]]
  BY DEF Filled, n, s
<1>4. \A i \in 1 .. n : i - 1 \in 0 .. 5
  BY <1>1
<1>5. Filled \in Seq(Byte) /\ Len(Filled) = n /\ \A i \in 1 .. n : Filled[i] = s[i - 1]
  BY <1>1, <1>2, <1>3, <1>4
<1>6. six \in Seq(Byte) /\ Len(six) = 6 /\ \A i \in 1 .. 6 : six[i] = s[i - 1]
  <2>1. six \in Seq(Byte) /\ Len(six) = 6
    BY <1>2
  <2>2. /\ six[1] = s[1 - 1] /\ six[2] = s[2 - 1] /\ six[3] = s[3 - 1]
        /\ six[4] = s[4 - 1] /\ six[5] = s[5 - 1] /\ six[6] = s[6 - 1]
    OBVIOUS
  <2>3. \A i \in 1 .. 6 : i \in {1, 2, 3, 4, 5, 6}
    OBVIOUS
  <2> HIDE DEF six
  <2> QED  BY <2>1, <2>2, <2>3
<1> HIDE DEF six
<1>7. /\ SubSeq(six, 1, n) \in Seq(Byte) /\ Len(SubSeq(six, 1, n)) = n
      /\ \A i \in 1 .. n : SubSeq(six, 1, n)[i] = six[i]
  <2>1. n \in Nat /\ n <= Len(six)
    BY <1>1, <1>6
  <2> QED  BY <1>6, <2>1, PrefixType
<1>8. \A i \in 1 .. n : SubSeq(six, 1, n)[i] = Filled[i]
  BY <1>1, <1>5, <1>6, <1>7
<1>9. SubSeq(six, 1, n) = Filled
  BY <1>5, <1>7, <1>8, SeqEqual
<1> QED  BY <1>5, <1>9 DEF six, s, n

\* All the bytes of a system exclusive message, once a packet of it has come.
Gathered(x, form) == IF form \in {SYSEX7_IN_1, SYSEX7_START} THEN Filled
                     ELSE x.payload \o Filled

LEMMA PacketAbsorbed ==
  ASSUME TypeOK, NEW x \in Reader, x.first = <<>>, NEW form \in 0 .. 3
  PROVE  AbsorbAll(x, SysexPacket(form))
           = IF form \in {SYSEX7_IN_1, SYSEX7_END}
             THEN After(x, <<>>, <<>>, <<Receiver!Message(SYSEX_START, Gathered(x, form))>>)
             ELSE After(x, <<>>, Gathered(x, form), <<>>)
<1> DEFINE s == sysex7.bytes
           w0 == <<16 * MT_DATA64 + group, 16 * form + sysex7.pos, s[0], s[1]>>
           w1 == <<s[2], s[3], s[4], s[5]>>
           y == After(x, <<w0>>, x.payload, <<>>)
<1>1. sysex7.pos \in 0 .. 6 /\ group \in 0 .. 15
  BY DEF TypeOK, Sysex7, PacketBytes, Group
<1>2. SysexPacket(form) = <<w0, w1>>
  BY DEF SysexPacket
<1>3. w0 \in Word /\ w1 \in Word
  <2>1. SysexPacket(form) \in Seq(Word)
    BY SysexPacketType
  <2> HIDE DEF w0, w1
  <2>2. <<w0, w1>> \in Seq(Word) /\ Len(<<w0, w1>>) = 2
    BY <1>2, <2>1
  <2>3. <<w0, w1>>[1] \in Word /\ <<w0, w1>>[2] \in Word
    BY <2>2, ElementOfSeq
  <2> QED  BY <2>3
<1>4. /\ w0[1] \div 16 = 3 /\ w0[1] % 16 = group
      /\ w0[2] \div 16 = form /\ w0[2] % 16 = sysex7.pos
  BY <1>1 DEF MT_DATA64
<1>5. Carried(w0, w1) = Filled
  <2>1. Carried(w0, w1) = SubSeq(<<s[0], s[1], s[2], s[3], s[4], s[5]>>, 1, sysex7.pos)
    <3>1. w0[3] = s[0] /\ w0[4] = s[1]
          /\ w1[1] = s[2] /\ w1[2] = s[3] /\ w1[3] = s[4] /\ w1[4] = s[5]
      OBVIOUS
    <3> HIDE DEF w0, w1
    <3> QED  BY <1>1, <1>4, <3>1 DEF Carried, PacketBytes
  <2> QED  BY <2>1, FilledFacts
<1> HIDE DEF w0, w1
<1>6. Absorb(x, w0) = y
  BY <1>4 DEF Absorb, MessageType, MT_DATA64
<1>7. y \in Reader
  BY <1>3, <1>6, AbsorbType
<1>8. y.first = <<w0>> /\ y.payload = x.payload /\ y.messages = x.messages
  <2>1. x.messages \o <<>> = x.messages
    BY ConcatEmptySeq DEF Reader
  <2> QED  BY <2>1 DEF After
<1>9. y.first # <<>> /\ y.first[1] = w0
  <2> DEFINE f == <<w0>>
  <2>1. f # <<>> /\ f[1] = w0
    BY <1>3, PairIsConcat
  <2>2. y.first = f
    BY <1>8
  <2> HIDE DEF f, y
  <2> QED  BY <2>1, <2>2
<1> HIDE DEF y
<1>10. AbsorbAll(x, <<w0, w1>>) = Absorb(y, w1)
  <2>1. <<w0>> \in Seq(Word) /\ <<w1>> \in Seq(Word) /\ <<w0, w1>> = <<w0>> \o <<w1>>
    BY <1>3, PairIsConcat
  <2>2. AbsorbAll(x, <<w0>> \o <<w1>>) = AbsorbAll(AbsorbAll(x, <<w0>>), <<w1>>)
    BY <2>1, AbsorbMore
  <2> QED  BY <1>3, <1>6, <1>7, <2>1, <2>2, AbsorbOne
<1>11. Absorb(y, w1) = IF form \in {SYSEX7_IN_1, SYSEX7_END}
                       THEN After(y, <<>>, <<>>,
                                  <<ReadMessage(w0, SYSEX_START, Gathered(x, form))>>)
                       ELSE After(y, <<>>, Gathered(x, form), <<>>)
  BY <1>4, <1>5, <1>8, <1>9 DEF Absorb, AbsorbSecond, Gathered
<1>12. ReadMessage(w0, SYSEX_START, Gathered(x, form))
         = Receiver!Message(SYSEX_START, Gathered(x, form))
  BY <1>4 DEF ReadMessage, Receiver!Message
<1> QED  BY <1>2, <1>8, <1>10, <1>11, <1>12 DEF After

-------------------------------------------------------------------------------
(* The translator and its client.                                                *)

(* The reader is between packets whenever it has read all there is, and has no   *)
(* part of a system exclusive message unless a packet of one has been pushed:    *)
(* what it does with the words to come depends on this.                          *)
HostInv ==
  /\ IInv
  /\ reader \in Reader /\ reader.messages = <<>>
  /\ Seen.first = <<>>
  /\ sysex7.state # "cont" => Seen.payload = <<>>

LEMMA SeenType ==
  ASSUME HostInv
  PROVE  Seen \in Reader /\ Seen.messages \in Seq(ReadMessages) /\ Seen.payload \in Seq(Byte)
<1>1. reader \in Reader /\ output \in Seq(Word)
  BY DEF HostInv, IInv, TypeOK
<1>2. Seen \in Reader
  BY <1>1, AbsorbAllType DEF Seen
<1> QED  BY <1>2 DEF Reader

\* The reader is after a push what it makes of the words of the push.
LEMMA PushRead ==
  ASSUME HostInv, IInv', reader' = reader, Len(output) <= MaxPending,
         NEW words \in Seq(Word), Len(words) <= 3, Emit(words),
         AbsorbAll(Seen, words).first = <<>>,
         sysex7'.state # "cont" => AbsorbAll(Seen, words).payload = <<>>
  PROVE  HostInv' /\ Seen' = AbsorbAll(Seen, words)
<1>1. reader \in Reader /\ output \in Seq(Word) /\ reader.messages = <<>>
  BY DEF HostInv, IInv, TypeOK
<1>2. output' = output \o words
  BY EmitProperties DEF HostInv, IInv
<1>3. Seen' = AbsorbAll(Seen, words)
  BY <1>1, <1>2, AbsorbMore DEF Seen
<1> QED  BY <1>1, <1>3 DEF HostInv

\* A push without words.
LEMMA PushNothing ==
  ASSUME HostInv, IInv', reader' = reader, Len(output) <= MaxPending, Emit(<<>>),
         sysex7'.state = sysex7.state
  PROVE  HostInv' /\ Seen' = Seen
<1>1. <<>> \in Seq(Word) /\ Len(<<>>) <= 3
  BY EmptySeq
<1>2. AbsorbAll(Seen, <<>>) = Seen
  BY SeenType, AbsorbNothing
<1>3. Seen.first = <<>> /\ (sysex7'.state # "cont" => Seen.payload = <<>>)
  BY DEF HostInv
<1> QED  BY <1>1, <1>2, <1>3, PushRead

\* A push of one message.
LEMMA PushMessage ==
  ASSUME HostInv, IInv', reader' = reader, Len(output) <= MaxPending,
         NEW b0 \in Byte, NEW b1 \in Byte, NEW b2 \in Byte,
         Emit(<<MessageWord(b0, b1, b2)>>), sysex7'.state = sysex7.state
  PROVE  /\ HostInv' /\ Seen'.payload = Seen.payload
         /\ Seen'.messages
              = Append(Seen.messages,
                       Receiver!Message(b0, SubSeq(<<b1, b2>>, 1, DataBytes(b0))))
<1> DEFINE w == MessageWord(b0, b1, b2)
           m == Receiver!Message(b0, SubSeq(<<b1, b2>>, 1, DataBytes(b0)))
           x == Seen
<1>1. TypeOK /\ x.first = <<>> /\ (sysex7'.state # "cont" => x.payload = <<>>)
  BY DEF HostInv, IInv
<1>2. x \in Reader /\ x.messages \in Seq(ReadMessages)
  BY SeenType
<1> HIDE DEF x
<1>3. Absorb(x, w) = After(x, <<>>, x.payload, <<m>>)
  BY <1>1, <1>2, WordAbsorbed
<1>4. w \in Word
  BY <1>1, MessageWordType
<1> HIDE DEF w, m
<1>5. <<w>> \in Seq(Word) /\ Len(<<w>>) <= 3
  BY <1>4
<1>6. AbsorbAll(x, <<w>>) = After(x, <<>>, x.payload, <<m>>)
  BY <1>2, <1>3, <1>4, AbsorbOne
<1>7. /\ AbsorbAll(x, <<w>>).first = <<>> /\ AbsorbAll(x, <<w>>).payload = x.payload
      /\ AbsorbAll(x, <<w>>).messages = x.messages \o <<m>>
  <2> DEFINE p == x.payload
             c == <<m>>
             z == AbsorbAll(x, <<w>>)
  <2>1. z = After(x, <<>>, p, c)
    BY <1>6
  <2> HIDE DEF p, c, z
  <2>2. z.first = <<>> /\ z.payload = p /\ z.messages = x.messages \o c
    BY <2>1, AfterFields
  <2> QED  BY <2>2 DEF p, c, z
<1>8. HostInv' /\ Seen' = AbsorbAll(x, <<w>>)
  <2>1. Emit(<<w>>)
    BY DEF w
  <2> QED  BY <1>1, <1>5, <1>7, <2>1, PushRead DEF x
<1>9. x.messages \o <<m>> = Append(x.messages, m)
  <2>1. Absorb(x, w) \in Reader
    BY <1>2, <1>4, AbsorbType
  <2>2. x.messages \o <<m>> \in Seq(ReadMessages)
    BY <1>3, <2>1 DEF After, Reader
  <2> QED  BY <1>2
<1> QED  BY <1>7, <1>8, <1>9 DEF x, m

LEMMA ProgressType ==
  ASSUME HostInv
  PROVE  /\ Filled \in Seq(Byte) /\ Len(Filled) = sysex7.pos
         /\ InProgress \in Seq(Byte)
         /\ sysex7.state = "start" => InProgress = Filled
         /\ sysex7.state = "cont" => InProgress = Seen.payload \o Filled
<1>1. TypeOK /\ Seen.payload \in Seq(Byte)
  BY SeenType DEF HostInv, IInv
<1>2. Filled \in Seq(Byte) /\ Len(Filled) = sysex7.pos
  BY <1>1, FilledFacts
<1> DEFINE p == Seen.payload
           f == Filled
<1>3. sysex7.state # "none" => InProgress = p \o f
  BY DEF InProgress
<1>4. sysex7.state = "none" => InProgress \in Seq(Byte)
  <2>1. d1 # Unknown => d1 \in Byte
    BY <1>1 DEF TypeOK, Byte
  <2>2. d1 # Unknown => <<d1>> \in Seq(Byte)
    BY <2>1
  <2> QED  BY <2>2, EmptySeq DEF InProgress
<1>5. sysex7.state = "start" => p = <<>>
  BY DEF HostInv
<1> HIDE DEF p, f
<1>6. p \in Seq(Byte) /\ f \in Seq(Byte) /\ p \o f \in Seq(Byte) /\ <<>> \o f = f
  BY <1>1, <1>2, ConcatProperties, ConcatEmptySeq DEF p, f
<1> QED  BY <1>2, <1>3, <1>4, <1>5, <1>6 DEF p, f

LEMMA RealTimeStep ==
  ASSUME HostInv, IInv', reader' = reader, Len(output) <= MaxPending,
         NEW b \in Byte, RealTime(b)
  PROVE  HostInv' /\ Receiver!RealTime(b)
<1> DEFINE m == Receiver!Message(b, SubSeq(<<0, 0>>, 1, DataBytes(b)))
<1>1. 0 \in Byte /\ sysex7'.state = sysex7.state
  BY DEF Byte, RealTime
<1>2. HostInv' /\ Seen'.payload = Seen.payload /\ Seen'.messages = Append(Seen.messages, m)
  <2>1. Emit(<<MessageWord(b, 0, 0)>>)
    BY DEF RealTime
  <2> QED  BY <1>1, <2>1, PushMessage
<1>3. m = Receiver!Message(b, <<>>)
  <2>1. DataBytes(b) = 0
    BY DEF RealTime, DataBytes, IsOneByteMessage, IsSystemRealTime, TIMING_CLOCK,
           SEQUENCE_START, SEQUENCE_CONTINUE, SEQUENCE_STOP, ACTIVE_SENSING, SYSTEM_RESET,
           PROGRAM_CHANGE, CHANNEL_PRESSURE, TIMING_CODE, SONG_SELECT, SYSEX_START, SPP
  <2>2. SubSeq(<<0, 0>>, 1, 0) = <<>>
    BY SubSeqEmpty
  <2> QED  BY <2>1, <2>2
<1> HIDE DEF m
<1>4. UNCHANGED <<group, d0, InProgress>>
  BY <1>2 DEF RealTime, InProgress, Filled
<1>5. Receiver!IsSystemRealTime(b)
  BY SameBytes DEF RealTime
<1> QED  BY <1>2, <1>3, <1>4, <1>5 DEF Receiver!RealTime

LEMMA SecondByteStep ==
  ASSUME HostInv, IInv', reader' = reader, Len(output) <= MaxPending,
         NEW b \in Byte, SecondByte(b)
  PROVE  HostInv' /\ Receiver!LastData(b)
<1>1. /\ d0 \in Byte /\ d1 \in 0 .. 127 /\ sysex7.state = "none" /\ d1 # Unknown
      /\ TakesTwoBytes(d0) /\ IsStatusByte(d0) /\ sysex7' = sysex7 /\ d1' = Unknown
  BY DEF SecondByte, HostInv, IInv, TypeOK, ParserConsistent, TakesTwoBytes
<1>2. d1 \in Byte
  BY <1>1 DEF Byte
<1> DEFINE m == Receiver!Message(d0, SubSeq(<<d1, b>>, 1, DataBytes(d0)))
<1>3. HostInv' /\ Seen'.messages = Append(Seen.messages, m)
  <2>1. Emit(<<MessageWord(d0, d1, b)>>)
    BY DEF SecondByte
  <2> QED  BY <1>1, <1>2, <2>1, PushMessage
<1>4. Receiver!Needs(d0) = 2 /\ DataBytes(d0) = 2
  BY <1>1, NeedsFacts
<1>5. InProgress = <<d1>> /\ InProgress' = <<>>
  BY <1>1 DEF InProgress
<1>6. /\ <<d1, b>> \in Seq(Byte) /\ Len(<<d1, b>>) = 2 /\ Len(<<d1>>) + 1 = 2
      /\ Append(<<d1>>, b) = <<d1, b>>
  <2>1. Len(<<d1>>) + 1 = 2
    OBVIOUS
  <2> QED  BY <1>2, <2>1, PairIsConcat
<1>7. SubSeq(<<d1, b>>, 1, 2) = <<d1, b>>
  <2> DEFINE t == <<d1, b>>
  <2>1. t \in Seq(Byte) /\ Len(t) = 2
    BY <1>6
  <2> HIDE DEF t
  <2>2. SubSeq(t, 1, Len(t)) = t
    BY <2>1, SubSeqFull
  <2> QED  BY <2>1, <2>2 DEF t
<1>8. m = Receiver!Message(d0, Append(InProgress, b))
  BY <1>4, <1>5, <1>6, <1>7
<1> HIDE DEF m
<1>9. ~Receiver!IsStatusByte(b) /\ UNCHANGED <<group, d0>>
  BY SameBytes DEF SecondByte
<1>10. Len(InProgress) + 1 = Receiver!Needs(d0)
  BY <1>4, <1>5, <1>6
<1> QED  BY <1>3, <1>5, <1>8, <1>9, <1>10 DEF Receiver!LastData

LEMMA OneByteMessageStep ==
  ASSUME HostInv, IInv', reader' = reader, Len(output) <= MaxPending,
         NEW b \in Byte, OneByteMessage(b)
  PROVE  HostInv' /\ Receiver!LastData(b)
<1>1. /\ d0 \in Byte /\ sysex7.state = "none" /\ d1 = Unknown
      /\ IsOneByteMessage(d0) /\ sysex7' = sysex7 /\ d1' = d1 /\ 0 \in Byte
  BY DEF OneByteMessage, HostInv, IInv, TypeOK, Byte
<1>2. d0 = 0 \/ IsStatusByte(d0)
  BY DEF HostInv, IInv, ParserConsistent
<1> DEFINE m == Receiver!Message(d0, SubSeq(<<b, 0>>, 1, DataBytes(d0)))
<1>3. HostInv' /\ Seen'.messages = Append(Seen.messages, m)
  <2>1. Emit(<<MessageWord(d0, b, 0)>>)
    BY DEF OneByteMessage
  <2> QED  BY <1>1, <2>1, PushMessage
<1>4. Receiver!Needs(d0) = 1 /\ DataBytes(d0) = 1
  BY <1>1, <1>2, NeedsFacts
<1>5. InProgress = <<>> /\ InProgress' = <<>>
  BY <1>1 DEF InProgress
<1>6. SubSeq(<<b, 0>>, 1, 1) = <<b>> /\ Append(<<>>, b) = <<b>> /\ Len(<<>>) + 1 = 1
  <2>1. <<b, 0>> \in Seq(Byte) /\ Len(<<b, 0>>) = 2 /\ <<b, 0>>[1] = b
    BY <1>1
  <2>2. /\ SubSeq(<<b, 0>>, 1, 1) \in Seq(Byte) /\ Len(SubSeq(<<b, 0>>, 1, 1)) = 1
        /\ SubSeq(<<b, 0>>, 1, 1)[1] = <<b, 0>>[1]
    <3> DEFINE t == <<b, 0>>
    <3>1. t \in Seq(Byte) /\ 1 \in Nat /\ 1 <= Len(t)
      BY <2>1
    <3> HIDE DEF t
    <3>2. /\ SubSeq(t, 1, 1) \in Seq(Byte) /\ Len(SubSeq(t, 1, 1)) = 1
          /\ \A i \in 1 .. 1 : SubSeq(t, 1, 1)[i] = t[i]
      BY <3>1, PrefixType
    <3> QED  BY <3>2 DEF t
  <2> DEFINE u == SubSeq(<<b, 0>>, 1, 1)
  <2>3. u \in Seq(Byte) /\ Len(u) = 1 /\ u[1] = b
    BY <2>1, <2>2
  <2> HIDE DEF u
  <2>4. u = <<b>>
    BY <2>3
  <2> QED  BY <2>4, AppendToNone DEF u
<1>7. m = Receiver!Message(d0, Append(InProgress, b))
  BY <1>4, <1>5, <1>6
<1> HIDE DEF m
<1>8. ~Receiver!IsStatusByte(b) /\ UNCHANGED <<group, d0>>
  BY SameBytes DEF OneByteMessage
<1> QED  BY <1>3, <1>4, <1>5, <1>6, <1>7, <1>8 DEF Receiver!LastData

LEMMA FirstByteStep ==
  ASSUME HostInv, IInv', reader' = reader, Len(output) <= MaxPending,
         NEW b \in Byte, FirstByte(b)
  PROVE  HostInv' /\ Receiver!Data(b)
<1>1. /\ d0 \in Byte /\ sysex7.state = "none" /\ d1 = Unknown /\ TakesTwoBytes(d0)
      /\ sysex7' = sysex7 /\ d1' = b /\ b # Unknown /\ Emit(<<>>)
  BY DEF FirstByte, HostInv, IInv, TypeOK, IsStatusByte, Unknown
<1>2. d0 = 0 \/ IsStatusByte(d0)
  BY DEF HostInv, IInv, ParserConsistent
<1>3. HostInv' /\ Seen' = Seen
  BY <1>1, PushNothing
<1>4. Receiver!Needs(d0) = 2
  BY <1>1, <1>2, NeedsFacts
<1>5. InProgress = <<>> /\ InProgress' = <<b>>
  BY <1>1 DEF InProgress
<1>6. Append(<<>>, b) = <<b>> /\ Len(<<>>) + 1 < 2
  OBVIOUS
<1>7. ~Receiver!IsStatusByte(b) /\ UNCHANGED <<group, d0>>
  BY SameBytes DEF FirstByte
<1> QED  BY <1>3, <1>4, <1>5, <1>6, <1>7 DEF Receiver!Data

LEMMA IgnoredStep ==
  ASSUME HostInv, IInv', reader' = reader, Len(output) <= MaxPending,
         NEW b \in Byte, Ignored(b)
  PROVE  HostInv' /\ Receiver!Ignored(b)
<1>1. /\ d0 \in Byte /\ sysex7.state = "none" /\ ~IsOneByteMessage(d0)
      /\ ~TakesTwoBytes(d0) /\ Emit(<<>>) /\ d0 # SYSEX_START
      /\ UNCHANGED <<group, d0, d1, sysex7>>
  BY DEF Ignored, HostInv, IInv, TypeOK, ParserConsistent, state
<1>2. d0 = 0 \/ IsStatusByte(d0)
  BY DEF HostInv, IInv, ParserConsistent
<1>3. HostInv' /\ Seen' = Seen
  BY <1>1, PushNothing
<1>4. Receiver!Needs(d0) = 0
  BY <1>1, <1>2, NeedsFacts
<1>5. InProgress' = InProgress
  BY <1>1, <1>3 DEF InProgress, Filled
<1>6. ~Receiver!IsStatusByte(b)
  BY SameBytes DEF Ignored
<1> QED  BY <1>1, <1>3, <1>4, <1>5, <1>6, SameBytes DEF Receiver!Ignored

\* The reader after the packet that a status byte sends: a system exclusive
\* message in progress is complete.
Cut == IF d0 = SYSEX_START THEN <<Receiver!Message(SYSEX_START, InProgress)>> ELSE <<>>

LEMMA CutFacts ==
  ASSUME HostInv
  PROVE  /\ LastPacket \in Seq(Word) /\ Len(LastPacket) <= 2
         /\ AbsorbAll(Seen, LastPacket) \in Reader
         /\ AbsorbAll(Seen, LastPacket) = After(Seen, <<>>, <<>>, Cut)
<1> DEFINE x == Seen
<1>1. TypeOK /\ x.first = <<>> /\ x \in Reader
  BY SeenType DEF HostInv, IInv
<1>2. x.messages \o <<>> = x.messages
  BY <1>1, ConcatEmptySeq DEF Reader
<1>3. LastPacket \in Seq(Word) /\ Len(LastPacket) <= 2
  BY <1>1, PacketsType
<1>4. AbsorbAll(x, LastPacket) \in Reader
  BY <1>1, <1>3, AbsorbAllType
<1>5. sysex7.state \in {"none", "start", "cont"}
      /\ ((sysex7.state # "none") <=> (d0 = SYSEX_START))
  BY <1>1 DEF TypeOK, Sysex7, HostInv, IInv, ParserConsistent
<1>6. SYSEX7_IN_1 = 0 /\ SYSEX7_START = 1 /\ SYSEX7_CONTINUE = 2 /\ SYSEX7_END = 3
  BY DEF SYSEX7_IN_1, SYSEX7_START, SYSEX7_CONTINUE, SYSEX7_END
<1>7. CASE sysex7.state = "start"
  <2>1. LastPacket = SysexPacket(SYSEX7_IN_1) /\ InProgress = Filled
    BY <1>7, ProgressType DEF LastPacket
  <2>2. Gathered(x, SYSEX7_IN_1) = Filled
    BY DEF Gathered
  <2> HIDE DEF x
  <2>3. AbsorbAll(x, SysexPacket(SYSEX7_IN_1))
          = After(x, <<>>, <<>>, <<Receiver!Message(SYSEX_START, Gathered(x, SYSEX7_IN_1))>>)
    <3>1. SYSEX7_IN_1 \in 0 .. 3 /\ SYSEX7_IN_1 \in {SYSEX7_IN_1, SYSEX7_END}
      BY <1>6
    <3> QED  BY <1>1, <3>1, PacketAbsorbed
  <2>4. Cut = <<Receiver!Message(SYSEX_START, InProgress)>>
    BY <1>5, <1>7 DEF Cut
  <2> QED  BY <1>3, <1>4, <2>1, <2>2, <2>3, <2>4 DEF x
<1>8. CASE sysex7.state = "cont"
  <2>1. LastPacket = SysexPacket(SYSEX7_END) /\ InProgress = x.payload \o Filled
    BY <1>8, ProgressType DEF LastPacket
  <2>2. Gathered(x, SYSEX7_END) = x.payload \o Filled
    BY <1>6 DEF Gathered
  <2> HIDE DEF x
  <2>3. AbsorbAll(x, SysexPacket(SYSEX7_END))
          = After(x, <<>>, <<>>, <<Receiver!Message(SYSEX_START, Gathered(x, SYSEX7_END))>>)
    <3>1. SYSEX7_END \in 0 .. 3 /\ SYSEX7_END \in {SYSEX7_IN_1, SYSEX7_END}
      BY <1>6
    <3> QED  BY <1>1, <3>1, PacketAbsorbed
  <2>4. Cut = <<Receiver!Message(SYSEX_START, InProgress)>>
    BY <1>5, <1>8 DEF Cut
  <2> QED  BY <1>3, <1>4, <2>1, <2>2, <2>3, <2>4 DEF x
<1>9. CASE sysex7.state = "none"
  <2>1. LastPacket = <<>> /\ Cut = <<>> /\ x.payload = <<>>
    BY <1>5, <1>9 DEF LastPacket, Cut, HostInv
  <2> HIDE DEF x
  <2>2. AbsorbAll(x, <<>>) = x
    BY <1>1, AbsorbNothing
  <2>3. After(x, <<>>, <<>>, <<>>) = x
    BY <1>1, <1>2, <2>1 DEF After, Reader
  <2> QED  BY <1>3, <1>4, <2>1, <2>2, <2>3 DEF x
<1> QED  BY <1>5, <1>7, <1>8, <1>9

LEMMA StatusStep ==
  ASSUME HostInv, IInv', reader' = reader, Len(output) <= MaxPending,
         NEW b \in Byte, Status(b)
  PROVE  HostInv' /\ Receiver!Status(b)
<1> DEFINE words == IF b = TUNE_REQUEST THEN <<MessageWord(b, 0, 0)>> ELSE <<>>
           tune == IF b = TUNE_REQUEST THEN <<Receiver!Message(b, <<>>)>> ELSE <<>>
           y == AbsorbAll(Seen, LastPacket)
           z == AbsorbAll(y, words)
<1>1. TypeOK /\ 0 \in Byte /\ Seen \in Reader
  BY SeenType DEF HostInv, IInv, Byte
<1>2. /\ LastPacket \in Seq(Word) /\ Len(LastPacket) <= 2 /\ y \in Reader
      /\ y.first = <<>> /\ y.payload = <<>> /\ y.messages = Seen.messages \o Cut
  BY CutFacts, AfterFields
<1>3. /\ Emit(LastPacket \o words) /\ d0' = b /\ d1' = Unknown /\ group' = group
      /\ ~IsSystemRealTime(b) /\ IsStatusByte(b)
      /\ sysex7'.state # "cont"
      /\ sysex7'.state # "none" => sysex7'.pos = 0
  BY DEF Status, NoSysex
<1>4. words \in Seq(Word) /\ Len(words) <= 1
  <2>1. MessageWord(b, 0, 0) \in Word
    BY <1>1, MessageWordType
  <2> QED  BY <2>1, EmptySeq
<1>5. z.first = <<>> /\ z.payload = <<>> /\ z.messages = y.messages \o tune
  <2>1. CASE b = TUNE_REQUEST
    <3> DEFINE m == Receiver!Message(b, SubSeq(<<0, 0>>, 1, DataBytes(b)))
               w == MessageWord(b, 0, 0)
    <3>1. m = Receiver!Message(b, <<>>)
      <4>1. DataBytes(b) = 0
        BY <2>1 DEF DataBytes, IsOneByteMessage, TUNE_REQUEST, PROGRAM_CHANGE,
                    CHANNEL_PRESSURE, TIMING_CODE, SONG_SELECT, SYSEX_START, SPP
      <4>2. SubSeq(<<0, 0>>, 1, 0) = <<>>
        BY SubSeqEmpty
      <4> QED  BY <4>1, <4>2
    <3>2. w \in Word
      BY <1>1, MessageWordType
    <3> HIDE DEF y
    <3>3. Absorb(y, w) = After(y, <<>>, y.payload, <<m>>)
      BY <1>1, <1>2, WordAbsorbed
    <3> HIDE DEF w, m
    <3>4. AbsorbAll(y, <<w>>) = Absorb(y, w)
      BY <1>2, <3>2, AbsorbOne
    <3>5. words = <<w>> /\ tune = <<m>>
      BY <2>1, <3>1 DEF w
    <3> DEFINE c == <<m>>
    <3>6. z = After(y, <<>>, <<>>, c) /\ tune = c
      BY <1>2, <3>3, <3>4, <3>5
    <3> HIDE DEF c, z, tune
    <3>7. z.first = <<>> /\ z.payload = <<>> /\ z.messages = y.messages \o c
      BY <3>6, AfterFields
    <3> QED  BY <3>6, <3>7
  <2>2. CASE b # TUNE_REQUEST
    <3> HIDE DEF y
    <3>1. words = <<>> /\ tune = <<>> /\ AbsorbAll(y, <<>>) = y
      BY <1>2, <2>2, AbsorbNothing
    <3>2. y.messages \o <<>> = y.messages
      BY <1>2, ConcatEmptySeq DEF Reader
    <3> QED  BY <1>2, <3>1, <3>2
  <2> QED  BY <2>1, <2>2
<1>6. AbsorbAll(Seen, LastPacket \o words) = z
  <2> HIDE DEF words
  <2> QED  BY <1>1, <1>2, <1>4, AbsorbMore
<1> HIDE DEF words, tune, y, z
<1>7. LastPacket \o words \in Seq(Word) /\ Len(LastPacket \o words) <= 3
  BY <1>2, <1>4, ConcatProperties, LenProperties
<1>8. HostInv' /\ Seen' = z
  <2> DEFINE all == LastPacket \o words
  <2>1. all \in Seq(Word) /\ Len(all) <= 3
    BY <1>7
  <2>2. Emit(all)
    BY <1>3
  <2>3. AbsorbAll(Seen, all) = z
    BY <1>6
  <2> HIDE DEF all
  <2> QED  BY <1>5, <2>1, <2>2, <2>3, PushRead
<1>9. InProgress' = <<>>
  <2>1. sysex7'.state # "none" => Filled' = <<>>
    <3>1. (HostInv => Filled \in Seq(Byte) /\ Len(Filled) = sysex7.pos)'
      BY ProgressType, PTL
    <3> DEFINE u == Filled'
    <3>2. sysex7'.state # "none" => u \in Seq(Byte) /\ Len(u) = 0
      BY <1>3, <1>8, <3>1
    <3> HIDE DEF u
    <3>3. sysex7'.state # "none" => u = <<>>
      BY <3>2, EmptySeq
    <3> QED  BY <3>3 DEF u
  <2>2. <<>> \o <<>> = <<>>
    BY EmptySeq, ConcatEmptySeq
  <2>3. Seen'.payload = <<>>
    BY <1>5, <1>8
  <2>4. CASE sysex7'.state # "none"
    <3>1. InProgress' = Seen'.payload \o Filled'
      BY <2>4 DEF InProgress
    <3> QED  BY <2>1, <2>2, <2>3, <2>4, <3>1
  <2>5. CASE sysex7'.state = "none"
    BY <1>3, <2>5 DEF InProgress
  <2> QED  BY <2>4, <2>5
<1>10. Seen'.messages = (Seen.messages \o Cut) \o tune
  BY <1>2, <1>5, <1>8
<1> QED
  <2>1. /\ Receiver!IsStatusByte(b) /\ ~Receiver!IsSystemRealTime(b)
        /\ Receiver!SYSEX_START = SYSEX_START /\ Receiver!TUNE_REQUEST = TUNE_REQUEST
    BY <1>3, SameBytes
  <2> QED  BY <1>3, <1>8, <1>9, <1>10, <2>1 DEF Receiver!Status, Cut, tune

\* The reader after the packet that makes way for one more byte.
LEMMA FullFacts ==
  ASSUME HostInv, sysex7.state # "none"
  PROVE  /\ FullPacket \in Seq(Word) /\ Len(FullPacket) <= 2
         /\ AbsorbAll(Seen, FullPacket)
              = IF PacketIsFull THEN After(Seen, <<>>, InProgress, <<>>) ELSE Seen
<1> DEFINE x == Seen
<1>1. TypeOK /\ x.first = <<>> /\ x \in Reader
  BY SeenType DEF HostInv, IInv
<1>2. FullPacket \in Seq(Word) /\ Len(FullPacket) <= 2
  BY <1>1, PacketsType
<1>3. sysex7.state \in {"start", "cont"}
  BY <1>1 DEF TypeOK, Sysex7
<1>4. SYSEX7_IN_1 = 0 /\ SYSEX7_START = 1 /\ SYSEX7_CONTINUE = 2 /\ SYSEX7_END = 3
  BY DEF SYSEX7_IN_1, SYSEX7_START, SYSEX7_CONTINUE, SYSEX7_END
<1>5. CASE ~PacketIsFull
  <2>1. FullPacket = <<>>
    BY <1>5 DEF FullPacket
  <2> QED  BY <1>1, <1>2, <1>5, <2>1, AbsorbNothing
<1>6. CASE PacketIsFull /\ sysex7.state = "start"
  <2>1. FullPacket = SysexPacket(SYSEX7_START) /\ InProgress = Filled
    BY <1>6, ProgressType DEF FullPacket
  <2>2. Gathered(x, SYSEX7_START) = Filled
    BY <1>4 DEF Gathered
  <2> HIDE DEF x
  <2>3. AbsorbAll(x, SysexPacket(SYSEX7_START))
          = After(x, <<>>, Gathered(x, SYSEX7_START), <<>>)
    <3>1. /\ SYSEX7_START \in 0 .. 3
          /\ ~(SYSEX7_START \in {SYSEX7_IN_1, SYSEX7_END})
      BY <1>4
    <3> QED  BY <1>1, <3>1, PacketAbsorbed
  <2> QED  BY <1>2, <1>6, <2>1, <2>2, <2>3 DEF x
<1>7. CASE PacketIsFull /\ sysex7.state = "cont"
  <2>1. FullPacket = SysexPacket(SYSEX7_CONTINUE) /\ InProgress = x.payload \o Filled
    BY <1>7, ProgressType DEF FullPacket
  <2>2. Gathered(x, SYSEX7_CONTINUE) = x.payload \o Filled
    BY <1>4 DEF Gathered
  <2> HIDE DEF x
  <2>3. AbsorbAll(x, SysexPacket(SYSEX7_CONTINUE))
          = After(x, <<>>, Gathered(x, SYSEX7_CONTINUE), <<>>)
    <3>1. /\ SYSEX7_CONTINUE \in 0 .. 3
          /\ ~(SYSEX7_CONTINUE \in {SYSEX7_IN_1, SYSEX7_END})
      BY <1>4
    <3> QED  BY <1>1, <3>1, PacketAbsorbed
  <2> QED  BY <1>2, <1>7, <2>1, <2>2, <2>3 DEF x
<1> QED  BY <1>3, <1>5, <1>6, <1>7

\* One more byte in the packet.
LEMMA FilledMore ==
  ASSUME TypeOK, TypeOK', NEW b \in Byte, sysex7.pos < PacketBytes,
         sysex7'.pos = sysex7.pos + 1,
         sysex7'.bytes = [sysex7.bytes EXCEPT ![sysex7.pos] = b]
  PROVE  Filled' = Append(Filled, b)
<1> DEFINE s == sysex7.bytes
           n == sysex7.pos
<1>1. s \in [0 .. 5 -> 0 .. 127] /\ n \in 0 .. 5
  BY DEF TypeOK, Sysex7, PacketBytes
<1>2. Filled \in Seq(Byte) /\ Len(Filled) = n
  BY FilledFacts
<1>3. Filled = [i \in 1 .. n |-> s[i - 1]]
  BY DEF Filled
<1>4. Filled' = [i \in 1 .. n + 1 |-> [s EXCEPT ![n] = b][i - 1]]
  BY DEF Filled
<1>5. (TypeOK => Filled \in Seq(Byte) /\ Len(Filled) = sysex7.pos)'
  BY FilledFacts, PTL
<1>6. Filled' \in Seq(Byte) /\ Len(Filled') = n + 1
  BY <1>5
<1> HIDE DEF s, n
<1>7. /\ Append(Filled, b) \in Seq(Byte) /\ Len(Append(Filled, b)) = n + 1
      /\ \A i \in 1 .. n : Append(Filled, b)[i] = Filled[i]
      /\ Append(Filled, b)[n + 1] = b
  BY <1>1, <1>2, AppendProperties
<1>8. ASSUME NEW i \in 1 .. n + 1
      PROVE  Filled'[i] = Append(Filled, b)[i]
  <2>1. n \in 0 .. 5 /\ (n + 1) - 1 = n /\ n + 1 \in 1 .. n + 1
    BY <1>1
  <2>2. CASE i = n + 1
    <3>1. Filled'[n + 1] = [s EXCEPT ![n] = b][(n + 1) - 1]
      BY <1>4, <2>1
    <3> QED  BY <1>1, <1>7, <2>1, <2>2, <3>1
  <2>3. CASE i # n + 1
    <3>1. i \in 1 .. n /\ i - 1 \in 0 .. 5 /\ i - 1 # n
      BY <1>1, <2>3
    <3>2. Filled'[i] = [s EXCEPT ![n] = b][i - 1]
      BY <1>4
    <3>3. Filled[i] = s[i - 1]
      BY <1>3, <3>1
    <3>4. [s EXCEPT ![n] = b][i - 1] = s[i - 1]
      BY <1>1, <3>1
    <3> QED  BY <1>7, <3>1, <3>2, <3>3, <3>4
  <2> QED  BY <2>2, <2>3
<1> DEFINE u == Filled'
           v == Append(Filled, b)
<1>9. /\ u \in Seq(Byte) /\ v \in Seq(Byte) /\ Len(u) = n + 1 /\ Len(v) = n + 1
      /\ \A i \in 1 .. n + 1 : u[i] = v[i]
  BY <1>6, <1>7, <1>8
<1> HIDE DEF u, v
<1>10. u = v
  BY <1>9, SeqEqual
<1> QED  BY <1>10 DEF u, v

LEMMA SysexDataStep ==
  ASSUME HostInv, IInv', reader' = reader, Len(output) <= MaxPending,
         NEW b \in Byte, SysexData(b)
  PROVE  HostInv' /\ Receiver!SysexData(b)
<1> DEFINE z == AbsorbAll(Seen, FullPacket)
<1>1. /\ TypeOK /\ TypeOK' /\ sysex7.state \in {"start", "cont"} /\ Emit(FullPacket)
      /\ d0' = d0 /\ group' = group /\ d0 = SYSEX_START
      /\ Seen.first = <<>> /\ (sysex7.state # "cont" => Seen.payload = <<>>)
  BY DEF SysexData, HostInv, IInv, TypeOK, Sysex7, ParserConsistent
<1>2. Seen \in Reader /\ Seen.payload \in Seq(Byte) /\ Seen.messages \in Seq(ReadMessages)
  BY SeenType
<1>3. /\ Filled \in Seq(Byte) /\ InProgress \in Seq(Byte)
      /\ InProgress = Seen.payload \o Filled
  BY <1>1, ProgressType DEF InProgress
<1>4. /\ FullPacket \in Seq(Word) /\ Len(FullPacket) <= 2
      /\ z = IF PacketIsFull THEN After(Seen, <<>>, InProgress, <<>>) ELSE Seen
  BY <1>1, FullFacts
<1>5. FullPacket \in Seq(Word) /\ Len(FullPacket) <= 3
  BY <1>4, LenProperties
<1>6. ~Receiver!IsStatusByte(b) /\ d0 = Receiver!SYSEX_START
  BY <1>1, SameBytes DEF SysexData
<1>7. CASE PacketIsFull
  <2>1. /\ sysex7'.state = "cont" /\ sysex7'.pos = 1
        /\ sysex7'.bytes = [NoBytes EXCEPT ![0] = b]
    BY <1>7 DEF SysexData
  <2>2. z.first = <<>> /\ z.payload = InProgress /\ z.messages = Seen.messages \o <<>>
    <3> DEFINE p == InProgress
               c == <<>>
    <3>1. z = After(Seen, c, p, c)
      BY <1>4, <1>7
    <3> HIDE DEF z, p, c
    <3>2. z.first = c /\ z.payload = p /\ z.messages = Seen.messages \o c
      BY <3>1, AfterFields
    <3> QED  BY <3>2 DEF p, c
  <2>3. z.messages = Seen.messages
    BY <1>2, <2>2, ConcatEmptySeq
  <2>4. HostInv' /\ Seen' = z
    BY <1>1, <1>5, <2>1, <2>2, PushRead
  <2>5. Filled' = <<b>>
    <3>1. Filled' = [i \in 1 .. 1 |-> [NoBytes EXCEPT ![0] = b][i - 1]]
      BY <2>1 DEF Filled
    <3>2. [NoBytes EXCEPT ![0] = b][1 - 1] = b
      BY DEF NoBytes, PacketBytes
    <3>3. [i \in 1 .. 1 |-> [NoBytes EXCEPT ![0] = b][i - 1]] = [i \in 1 .. 1 |-> b]
      BY <3>2
    <3>4. [i \in 1 .. 1 |-> b] = <<b>>
      OBVIOUS
    <3> QED  BY <3>1, <3>3, <3>4
  <2>6. InProgress' = Append(InProgress, b)
    <3>1. InProgress' = Seen'.payload \o Filled'
      BY <2>1 DEF InProgress
    <3>2. InProgress' = InProgress \o <<b>>
      BY <2>2, <2>4, <2>5, <3>1
    <3> QED  BY <1>3, <3>2, AppendIsConcat
  <2> QED  BY <1>1, <1>6, <2>3, <2>4, <2>6 DEF Receiver!SysexData
<1>8. CASE ~PacketIsFull
  <2>1. /\ sysex7.pos < PacketBytes
        /\ sysex7'.state = sysex7.state /\ sysex7'.pos = sysex7.pos + 1
        /\ sysex7'.bytes = [sysex7.bytes EXCEPT ![sysex7.pos] = b]
    <3>1. sysex7.pos \in 0 .. PacketBytes
      BY <1>1 DEF TypeOK, Sysex7
    <3>2. sysex7.pos < PacketBytes
      BY <1>8, <3>1 DEF PacketIsFull, PacketBytes
    <3>3. sysex7' = [state |-> sysex7.state, pos |-> sysex7.pos + 1,
                     bytes |-> [sysex7.bytes EXCEPT ![sysex7.pos] = b]]
      BY <1>1, <1>8 DEF SysexData, TypeOK, Sysex7
    <3> QED  BY <3>2, <3>3
  <2>2. HostInv' /\ Seen' = z
    <3>1. z = Seen
      BY <1>4, <1>8
    <3>2. z.first = <<>> /\ (sysex7'.state # "cont" => z.payload = <<>>)
      BY <1>1, <2>1, <3>1
    <3> HIDE DEF z
    <3>3. AbsorbAll(Seen, FullPacket) = z
      BY DEF z
    <3> QED  BY <1>1, <1>5, <3>2, <3>3, PushRead
  <2>3. Filled' = Append(Filled, b)
    BY <1>1, <2>1, FilledMore
  <2>4. Seen' = Seen
    BY <1>4, <1>8, <2>2
  <2>5. InProgress' = Append(InProgress, b)
    <3>1. InProgress' = Seen'.payload \o Filled'
      BY <1>1, <2>1 DEF InProgress
    <3> DEFINE p == Seen.payload
               f == Filled
               c == <<b>>
    <3>2. p \in Seq(Byte) /\ f \in Seq(Byte) /\ c \in Seq(Byte)
      BY <1>2, <1>3
    <3>3. InProgress' = p \o Append(f, b) /\ InProgress = p \o f
      BY <1>3, <2>3, <2>4, <3>1
    <3> HIDE DEF p, f
    <3>4. Append(f, b) = f \o c
      BY <3>2, AppendIsConcat
    <3>5. p \o f \in Seq(Byte)
      BY <3>2, ConcatProperties
    <3>6. Append(p \o f, b) = (p \o f) \o c
      BY <3>5, AppendIsConcat
    <3> HIDE DEF c
    <3>7. (p \o f) \o c = p \o (f \o c)
      BY <3>2, ConcatAssociative
    <3> QED  BY <3>3, <3>4, <3>6, <3>7
  <2> QED  BY <1>1, <1>6, <2>2, <2>4, <2>5 DEF Receiver!SysexData
<1> QED  BY <1>7, <1>8

-------------------------------------------------------------------------------
(* The steps of the two.                                                         *)

LEMMA HostStepIInv == IInv /\ [LinkNext]_linkvars => IInv'
<1>1. [LinkNext]_linkvars => [Next]_vars
  BY DEF LinkNext, LinkSend, LinkPop, LinkRestart, Next, linkvars
<1> QED  BY <1>1, StepIInv

LEMMA HostSendStep ==
  ASSUME HostInv, IInv', NEW b \in Input, LinkSend(b)
  PROVE  HostInv' /\ Receiver!Next
<1>1. b \in Byte /\ reader' = reader /\ Len(output) <= MaxPending /\ Push(b)
      /\ heard' = [byte |-> b, odd |-> ~heard.odd]
  BY ClientAssumption DEF LinkSend, Send
<1>2. /\ HostInv'
      /\ \/ Receiver!RealTime(b) \/ Receiver!Status(b) \/ Receiver!SysexData(b)
         \/ Receiver!Data(b) \/ Receiver!LastData(b) \/ Receiver!Ignored(b)
  <2>1. CASE RealTime(b)
    BY <1>1, <2>1, RealTimeStep
  <2>2. CASE Status(b)
    BY <1>1, <2>2, StatusStep
  <2>3. CASE SysexData(b)
    BY <1>1, <2>3, SysexDataStep
  <2>4. CASE SecondByte(b)
    BY <1>1, <2>4, SecondByteStep
  <2>5. CASE OneByteMessage(b)
    BY <1>1, <2>5, OneByteMessageStep
  <2>6. CASE FirstByte(b)
    BY <1>1, <2>6, FirstByteStep
  <2>7. CASE Ignored(b)
    BY <1>1, <2>7, IgnoredStep
  <2> QED  BY <1>1, <2>1, <2>2, <2>3, <2>4, <2>5, <2>6, <2>7 DEF Push
<1> QED  BY <1>1, <1>2 DEF Receiver!Next, Receiver!Hear

\* A popped word either completes the oldest message or shows nothing.
LEMMA HostPopStep ==
  ASSUME HostInv, IInv', LinkPop
  PROVE  HostInv' /\ (Receiver!Next \/ UNCHANGED Receiver!vars)
<1> DEFINE w == Head(output)
           t == Tail(output)
           x == Absorb(reader, w)
           e == Emptied(x)
           k == x.messages
           z == AbsorbAll(e, t)
<1>1. /\ output # <<>> /\ output \in Seq(Word) /\ reader \in Reader /\ reader.messages = <<>>
      /\ output' = t /\ reader' = e
      /\ UNCHANGED <<group, d0, d1, sysex7, heard>>
  BY DEF LinkPop, Pop, HostInv, IInv, TypeOK
<1>2. w \in Word /\ t \in Seq(Word) /\ output = <<w>> \o t /\ <<w>> \in Seq(Word)
  BY <1>1, HeadTailProperties
<1>3. x \in Reader /\ AbsorbAll(reader, <<w>>) = x
  BY <1>1, <1>2, AbsorbType, AbsorbOne
<1>4. Seen = AbsorbAll(x, t)
  <2> HIDE DEF w, t, x
  <2> QED  BY <1>1, <1>2, <1>3, AbsorbMore DEF Seen
<1>5. k \in Seq(ReadMessages) /\ Len(k) <= 1
  <2>1. PICK f \in Firsts, d \in Seq(Byte), m \in Seq(ReadMessages) :
          Len(m) <= 1 /\ x = After(reader, f, d, m)
    <3> HIDE DEF w
    <3> QED  BY <1>1, <1>2, AbsorbIs
  <2>2. k = <<>> \o m
    <3> HIDE DEF x
    <3> QED  BY <1>1, <2>1, AfterFields
  <2>3. k = m
    <3> HIDE DEF k
    <3> QED  BY <2>2, ConcatEmptySeq
  <2> QED  BY <2>1, <2>3
<1>6. e \in Reader /\ e.messages = <<>> /\ Preceded(k, e) = x
  <2> HIDE DEF x
  <2> QED  BY <1>3, EmptiedFacts
<1>7. Seen' = z
  BY <1>1 DEF Seen
<1> HIDE DEF w, t, x, e, k
<1>8. z \in Reader /\ AbsorbAll(Preceded(k, e), t) = Preceded(k, z)
  BY <1>2, <1>5, <1>6, AbsorbAllType, AbsorbAllPreceded
<1> HIDE DEF z
<1>9. Seen = Preceded(k, z) /\ z.messages \in Seq(ReadMessages)
  BY <1>4, <1>6, <1>8 DEF Reader
<1>10. z.first = Seen.first /\ z.payload = Seen.payload /\ Seen.messages = k \o z.messages
  BY <1>9 DEF Preceded
<1>11. HostInv'
  BY <1>1, <1>6, <1>7, <1>10 DEF HostInv
<1>12. InProgress' = InProgress
  BY <1>1, <1>7, <1>10 DEF InProgress, Filled
<1> DEFINE y == z.messages
<1>13. y \in Seq(ReadMessages) /\ Seen'.messages = y /\ Seen.messages = k \o y
  BY <1>7, <1>9, <1>10
<1> HIDE DEF y
<1>14. CASE Len(k) = 0
  <2>1. k \o y = y
    <3>1. k = <<>>
      BY <1>5, <1>14, EmptySeq
    <3> QED  BY <1>13, <3>1, ConcatEmptySeq
  <2> QED  BY <1>1, <1>11, <1>12, <1>13, <2>1 DEF Receiver!vars
<1>15. CASE Len(k) = 1
  <2> DEFINE u == k \o y
  <2>1. /\ u \in Seq(ReadMessages) /\ Len(u) = Len(k) + Len(y)
        /\ \A i \in 1 .. Len(k) + Len(y) : u[i] = IF i <= Len(k) THEN k[i] ELSE y[i - Len(k)]
    BY <1>5, <1>13, ConcatProperties
  <2> HIDE DEF u
  <2>2. Len(y) \in Nat /\ Len(u) = Len(y) + 1
    BY <1>13, <1>15, <2>1, LenProperties
  <2>3. u # <<>>
    BY <2>2
  <2>4. /\ Tail(u) \in Seq(ReadMessages) /\ Len(Tail(u)) = Len(u) - 1
        /\ \A i \in 1 .. Len(Tail(u)) : Tail(u)[i] = u[i + 1]
    BY <2>1, <2>3, HeadTailProperties
  <2>5. Len(Tail(u)) = Len(y)
    BY <2>2, <2>4
  <2>6. \A i \in 1 .. Len(y) : Tail(u)[i] = y[i]
    <3> SUFFICES ASSUME NEW i \in 1 .. Len(y) PROVE Tail(u)[i] = y[i]
      OBVIOUS
    <3>1. i + 1 \in 1 .. Len(k) + Len(y) /\ ~(i + 1 <= Len(k)) /\ (i + 1) - Len(k) = i
      BY <1>15, <2>2
    <3> QED  BY <2>1, <2>4, <2>5, <3>1
  <2>7. Tail(u) = y
    BY <1>13, <2>4, <2>5, <2>6, SeqEqual
  <2>8. Receiver!Deliver
    BY <1>1, <1>12, <1>13, <2>3, <2>7 DEF Receiver!Deliver, u
  <2> QED  BY <1>11, <2>8 DEF Receiver!Next
<1>16. Len(k) = 0 \/ Len(k) = 1
  <2> DEFINE n == Len(k)
  <2>1. n \in Nat
    BY <1>5, LenProperties
  <2>2. n <= 1
    BY <1>5
  <2> HIDE DEF n
  <2>3. n = 0 \/ n = 1
    BY <2>1, <2>2
  <2> QED  BY <2>3 DEF n
<1> QED  BY <1>14, <1>15, <1>16

\* Nothing has been heard or read.
LEMMA NothingHeard ==
  ASSUME reader = IdleReader, output = <<>>, d1 = Unknown, sysex7 = NoSysex
  PROVE  /\ reader \in Reader /\ reader.messages = <<>>
         /\ Seen.first = <<>> /\ Seen.payload = <<>> /\ Seen.messages = <<>>
         /\ InProgress = <<>>
<1>1. /\ IdleReader \in Reader /\ IdleReader.messages = <<>>
      /\ IdleReader.first = <<>> /\ IdleReader.payload = <<>>
  <2>1. <<>> \in Seq(Byte) /\ <<>> \in Seq(ReadMessages) /\ <<>> \in Firsts
    BY EmptySeq DEF Firsts
  <2> QED  BY <2>1 DEF IdleReader, Reader
<1>2. Seen = IdleReader
  BY <1>1, AbsorbNothing DEF Seen
<1> QED  BY <1>1, <1>2 DEF InProgress, NoSysex

LEMMA HostRestartStep ==
  ASSUME HostInv, IInv', LinkRestart
  PROVE  HostInv' /\ Receiver!Next
<1>1. PICK g \in Groups \union {0} : Restart(g)
  BY DEF LinkRestart, Reset, SetGroup
<1>2. /\ reader' = IdleReader /\ heard' = heard /\ output' = <<>> /\ d1' = Unknown
      /\ sysex7' = NoSysex /\ group' = g /\ d0' = 0
  BY <1>1 DEF LinkRestart, Restart
<1>3. (/\ reader = IdleReader /\ output = <<>> /\ d1 = Unknown /\ sysex7 = NoSysex
       => /\ reader \in Reader /\ reader.messages = <<>>
          /\ Seen.first = <<>> /\ Seen.payload = <<>> /\ Seen.messages = <<>>
          /\ InProgress = <<>>)'
  BY NothingHeard, PTL
<1>4. /\ reader' \in Reader /\ reader'.messages = <<>>
      /\ Seen'.first = <<>> /\ Seen'.payload = <<>> /\ Seen'.messages = <<>>
      /\ InProgress' = <<>>
  BY <1>2, <1>3
<1>5. HostInv'
  BY <1>4 DEF HostInv
<1>6. Receiver!Restart(g)
  BY <1>2, <1>4 DEF Receiver!Restart
<1> QED  BY <1>5, <1>6 DEF Receiver!Next

LEMMA HostInitStep == LinkInit => HostInv /\ Receiver!Init
<1> SUFFICES ASSUME LinkInit PROVE HostInv /\ Receiver!Init
  OBVIOUS
<1>1. Init /\ reader = IdleReader /\ output = <<>> /\ d1 = Unknown /\ sysex7 = NoSysex
  BY DEF LinkInit, Init
<1>2. /\ reader \in Reader /\ reader.messages = <<>>
      /\ Seen.first = <<>> /\ Seen.payload = <<>> /\ Seen.messages = <<>>
      /\ InProgress = <<>>
  BY <1>1, NothingHeard
<1>3. IInv
  BY <1>1, InitIInv
<1> QED  BY <1>1, <1>2, <1>3 DEF HostInv, Receiver!Init, LinkInit, Init

LEMMA HostStep == HostInv /\ [LinkNext]_linkvars => HostInv' /\ [Receiver!Next]_Receiver!vars
<1> SUFFICES ASSUME HostInv, [LinkNext]_linkvars
             PROVE  HostInv' /\ [Receiver!Next]_Receiver!vars
  OBVIOUS
<1>1. IInv'
  BY HostStepIInv DEF HostInv
<1>2. CASE UNCHANGED linkvars
  <2>1. UNCHANGED <<group, d0, d1, sysex7, output, refused, reader, heard>>
    BY <1>2 DEF linkvars, vars
  <2>2. Seen' = Seen
    BY <2>1 DEF Seen
  <2>3. InProgress' = InProgress
    BY <2>1, <2>2 DEF InProgress, Filled
  <2> QED  BY <1>1, <2>1, <2>2, <2>3 DEF HostInv, Receiver!vars
<1>3. ASSUME NEW b \in Input, LinkSend(b) PROVE HostInv' /\ Receiver!Next
  BY <1>1, <1>3, HostSendStep
<1>4. CASE LinkPop
  BY <1>1, <1>4, HostPopStep
<1>5. CASE LinkRestart
  BY <1>1, <1>5, HostRestartStep
<1> QED  BY <1>2, <1>3, <1>4, <1>5 DEF LinkNext

(* For all bytes, groups and ways to mix pushes and pops, the words of to_ump    *)
(* say to a reader what the bytes said: the messages of the stream, complete,    *)
(* unaltered, in order, with the translator's group, and no others.              *)
THEOREM ReceiverImplemented == LinkSpec => ImplementsReceiver
BY HostInitStep, HostStep, PTL DEF LinkSpec, ImplementsReceiver, Receiver!Spec

-------------------------------------------------------------------------------
(* The USB host.  What is left of a packet is, for the parser of to_ump, in the  *)
(* middle of what its code index number says.                                    *)

\* Bytes without a status.
IsData(s) == \A i \in 1 .. Len(s) : ~IsStatusByte(s[i])

\* What is left of a message when the parser has had the rest.
IsRest(s) ==
  \/ IsMessage(s)
  \/ /\ sysex7.state = "none" /\ IsData(s)
     /\ \/ Len(s) = 1 /\ d1 # Unknown
        \/ Len(s) = 1 /\ d1 = Unknown /\ IsOneByteMessage(d0)
        \/ Len(s) = 2 /\ d1 = Unknown /\ TakesTwoBytes(d0)

\* What may be left of a packet with a code index number.
Remains(cin, s) ==
  \/ cin = 15 /\ Len(s) = 1
  \/ cin \in 5 .. 7 /\ s[Len(s)] \in {SYSEX_STOP, TUNE_REQUEST}
  \/ cin = 4 /\ sysex7.state # "none" /\ IsData(s)
  \/ cin = 4 /\ Len(s) = 3 /\ IsOpening(s) /\ ~IsStatusByte(s[3])
  \/ cin \notin {4, 5, 6, 7, 15} /\ IsRest(s)

\* Of the packet being pushed there is left what the client has not popped.
UsbInv ==
  /\ IInv
  /\ bytes = owed /\ owed \in Seq(Input) /\ Len(owed) <= 3
  /\ owed = <<>> => packet = {}
  /\ \A p \in packet : p.cin \in 2 .. 15 /\ Remains(p.cin, owed)

\* What a push does to the parser.
LEMMA PushEffect ==
  ASSUME NEW b \in Byte, Push(b)
  PROVE  /\ IsStatusByte(b) /\ ~IsSystemRealTime(b) =>
              /\ d0' = b /\ d1' = Unknown
              /\ sysex7'.state = IF b = SYSEX_START THEN "start" ELSE "none"
         /\ ~IsStatusByte(b) /\ sysex7.state \in {"start", "cont"} =>
              sysex7'.state # "none"
         /\ ~IsStatusByte(b) /\ sysex7.state = "none" =>
              /\ sysex7' = sysex7 /\ d0' = d0
              /\ d1 # Unknown => d1' = Unknown
              /\ d1 = Unknown /\ IsOneByteMessage(d0) => d1' = Unknown
              /\ d1 = Unknown /\ TakesTwoBytes(d0) => d1' # Unknown
<1>1. CASE RealTime(b)
  BY <1>1 DEF RealTime
<1>2. CASE Status(b)
  BY <1>2 DEF Status, NoSysex
<1>3. CASE SysexData(b)
  <2>1. sysex7.state = "cont" \/ sysex7.state = "start" => sysex7'.state # "none"
    BY <1>3 DEF SysexData
  <2> QED  BY <1>3, <2>1 DEF SysexData
<1>4. CASE SecondByte(b)
  BY <1>4 DEF SecondByte
<1>5. CASE OneByteMessage(b)
  BY <1>5 DEF OneByteMessage, TakesTwoBytes
<1>6. CASE FirstByte(b)
  BY <1>6 DEF FirstByte, Unknown, IsStatusByte, TakesTwoBytes
<1>7. CASE Ignored(b)
  BY <1>7 DEF Ignored, state
<1> QED  BY <1>1, <1>2, <1>3, <1>4, <1>5, <1>6, <1>7 DEF Push

\* A code index number gives the number of bytes that the host meant.
LEMMA SizeIs ==
  ASSUME NEW cin \in 2 .. 15
  PROVE  midi_x_size(cin) = IF cin \in {5, 15} THEN 1
                            ELSE IF cin \in {2, 6, 12, 13} THEN 2 ELSE 3
<1>1. /\ midi_x_size(2) = 2 /\ midi_x_size(3) = 3 /\ midi_x_size(4) = 3
      /\ midi_x_size(5) = 1 /\ midi_x_size(6) = 2 /\ midi_x_size(7) = 3
      /\ midi_x_size(8) = 3 /\ midi_x_size(9) = 3 /\ midi_x_size(10) = 3
      /\ midi_x_size(11) = 3 /\ midi_x_size(12) = 2 /\ midi_x_size(13) = 2
      /\ midi_x_size(14) = 3 /\ midi_x_size(15) = 1
  BY DEF midi_x_size
<1>2. cin \in {2, 3, 4, 5, 6, 7, 8, 9, 10, 11, 12, 13, 14, 15}
  OBVIOUS
<1> QED  BY <1>1, <1>2

\* The branches of CodeIndices.
LEMMA CodeIs ==
  ASSUME NEW s, NEW cin \in CodeIndices(s)
  PROVE  /\ Len(s) = 1 => cin = 15 \/ (cin = 5 /\ s[1] \in {TUNE_REQUEST, SYSEX_STOP})
         /\ Len(s) # 1 /\ s[Len(s)] = SYSEX_STOP => cin = 4 + Len(s)
         /\ Len(s) # 1 /\ s[Len(s)] # SYSEX_STOP =>
              /\ s[1] \in NOTE_OFF .. SYSEX_START - 1 => cin = s[1] \div 16
              /\ s[1] \notin NOTE_OFF .. SYSEX_START - 1 =>
                   IF s[1] \in {TIMING_CODE, SPP, SONG_SELECT} THEN cin = Len(s)
                   ELSE cin = 4
<1>1. Len(s) = 1 => CodeIndices(s) = IF s[1] \in {TUNE_REQUEST, SYSEX_STOP}
                                     THEN {5, 15} ELSE {15}
  BY Zenon DEF CodeIndices
<1>2. Len(s) # 1 /\ s[Len(s)] = SYSEX_STOP => CodeIndices(s) = {4 + Len(s)}
  BY Zenon DEF CodeIndices
<1>3. Len(s) # 1 /\ s[Len(s)] # SYSEX_STOP =>
        /\ s[1] \in NOTE_OFF .. SYSEX_START - 1 => CodeIndices(s) = {s[1] \div 16}
        /\ s[1] \notin NOTE_OFF .. SYSEX_START - 1 =>
             CodeIndices(s) = IF s[1] \in {TIMING_CODE, SPP, SONG_SELECT} THEN {Len(s)}
                              ELSE {4}
  BY Zenon DEF CodeIndices
<1>4. Len(s) = 1 => cin = 15 \/ (cin = 5 /\ s[1] \in {TUNE_REQUEST, SYSEX_STOP})
  BY <1>1, Zenon
<1>5. Len(s) # 1 /\ s[Len(s)] = SYSEX_STOP => cin = 4 + Len(s)
  BY <1>2, Zenon
<1> QED  BY <1>3, <1>4, <1>5, Zenon

\* A packet with a single byte.
LEMMA SingleSized ==
  ASSUME NEW s \in Seq(Input), Len(s) = 1, NEW cin \in CodeIndices(s)
  PROVE  cin \in 2 .. 15 /\ midi_x_size(cin) = Len(s) /\ Remains(cin, s)
<1>1. cin = 15 \/ (cin = 5 /\ s[1] \in {TUNE_REQUEST, SYSEX_STOP})
  BY CodeIs
<1> QED  BY <1>1, SizeIs DEF Remains

\* The code index number of a message with status b and n bytes.
LEMMA MessageCode ==
  ASSUME NEW b \in Byte, NEW n, NEW cin,
         b >= NOTE_OFF, b # SYSEX_START,
         \/ n = 2 /\ IsOneByteMessage(b)
         \/ n = 3 /\ TakesTwoBytes(b),
         b \in NOTE_OFF .. SYSEX_START - 1 => cin = b \div 16,
         b \notin NOTE_OFF .. SYSEX_START - 1 =>
           IF b \in {TIMING_CODE, SPP, SONG_SELECT} THEN cin = n ELSE cin = 4
  PROVE  cin \in {2, 3} \union 8 .. 14 /\ midi_x_size(cin) = n /\ n \in {2, 3}
<1>1. b \in 128 .. 255 /\ b # 240
  BY DEF Byte, NOTE_OFF, SYSEX_START
<1>2. CASE b \in 128 .. 239
  <2>1. cin = b \div 16
    BY <1>2 DEF NOTE_OFF, SYSEX_START
  <2>2. cin \in 8 .. 14 /\ (cin \in {12, 13} <=> b \in 192 .. 223)
    BY <1>2, <2>1
  <2>3. n = IF b \in 192 .. 223 THEN 2 ELSE 3
    BY <1>2 DEF IsOneByteMessage, TakesTwoBytes, PROGRAM_CHANGE,
       CHANNEL_PRESSURE, TIMING_CODE, SONG_SELECT, SPP, SYSEX_START
  <2> QED  BY <2>2, <2>3, SizeIs
<1>3. CASE b \notin 128 .. 239
  <2>1. b > 240
    BY <1>1, <1>3
  <2>2. \/ b \in {TIMING_CODE, SONG_SELECT} /\ n = 2
        \/ b = SPP /\ n = 3
    <3>1. ~(b \in PROGRAM_CHANGE .. PROGRAM_CHANGE + 15)
      BY <1>1, <2>1 DEF PROGRAM_CHANGE
    <3>2. ~(b \in CHANNEL_PRESSURE .. CHANNEL_PRESSURE + 15)
      BY <1>1, <2>1 DEF CHANNEL_PRESSURE
    <3>3. ~(b < SYSEX_START)
      BY <1>1, <2>1 DEF SYSEX_START
    <3> QED  BY <3>1, <3>2, <3>3, Zenon DEF IsOneByteMessage, TakesTwoBytes
  <2>3. cin = n
    BY <1>3, <2>2 DEF NOTE_OFF, SYSEX_START
  <2> QED  BY <2>2, <2>3, SizeIs
<1> QED  BY <1>2, <1>3

\* A packet with a message.
LEMMA MessageSized ==
  ASSUME NEW s, s \in Seq(Input), IsMessage(s), NEW cin, cin \in CodeIndices(s)
  PROVE  /\ cin \in 2 .. 15 /\ midi_x_size(cin) = Len(s) /\ Remains(cin, s)
         /\ Len(s) \in 1 .. 3
<1>1. /\ s[1] >= NOTE_OFF /\ s[1] # SYSEX_START
      /\ \/ Len(s) = 2 /\ IsOneByteMessage(s[1])
         \/ Len(s) = 3 /\ TakesTwoBytes(s[1])
      /\ \A i \in 2 .. Len(s) : ~IsStatusByte(s[i])
  BY Zenon DEF IsMessage
<1>2. s[1] \in Byte
  <2>1. s[1] \in Input
    BY <1>1
  <2> QED  BY <2>1, ClientAssumption
<1>3. Len(s) # 1 /\ s[Len(s)] # SYSEX_STOP
  <2>1. ~IsStatusByte(s[Len(s)])
    BY <1>1
  <2> QED  BY <1>1, <2>1 DEF IsStatusByte, SYSEX_STOP
<1>4. cin \in {2, 3} \union 8 .. 14 /\ midi_x_size(cin) = Len(s) /\ Len(s) \in {2, 3}
  <2>1. /\ s[1] \in NOTE_OFF .. SYSEX_START - 1 => cin = s[1] \div 16
        /\ s[1] \notin NOTE_OFF .. SYSEX_START - 1 =>
             IF s[1] \in {TIMING_CODE, SPP, SONG_SELECT} THEN cin = Len(s) ELSE cin = 4
    BY <1>3, CodeIs, Zenon
  <2> QED  BY <1>1, <1>2, <2>1, MessageCode, Zenon
<1>5. Remains(cin, s)
  <2>1. cin \notin {4, 5, 6, 7, 15}
    BY <1>4
  <2> QED  BY <2>1, Zenon DEF Remains, IsRest
<1>6. cin \in 2 .. 15
  BY <1>4
<1>7. Len(s) \in 1 .. 3
  BY <1>4
<1> QED  BY <1>4, <1>5, <1>6, <1>7

\* A packet with the beginning of a system exclusive message.
LEMMA OpeningSized ==
  ASSUME NEW s \in Seq(Input), IsOpening(s), NEW cin \in CodeIndices(s)
  PROVE  /\ cin \in 2 .. 15 /\ midi_x_size(cin) = Len(s) /\ Remains(cin, s)
         /\ Len(s) \in 1 .. 3
<1>1. Len(s) \in {2, 3} /\ s[1] = 240
  BY DEF IsOpening, SYSEX_START
<1>2. CASE s[Len(s)] = SYSEX_STOP
  <2>1. cin = 4 + Len(s)
    BY <1>1, <1>2 DEF CodeIndices
  <2> QED  BY <1>1, <1>2, <2>1, SizeIs DEF Remains
<1>3. CASE s[Len(s)] # SYSEX_STOP
  <2>1. Len(s) = 3 /\ ~IsStatusByte(s[3])
    BY <1>3 DEF IsOpening
  <2>2. cin = 4
    BY <1>1, <1>3, <2>1 DEF CodeIndices, NOTE_OFF, SYSEX_START, TIMING_CODE, SPP, SONG_SELECT
  <2> QED  BY <1>1, <2>1, <2>2, SizeIs DEF Remains
<1> QED  BY <1>2, <1>3

\* A packet with more data of a system exclusive message, or with its end.
LEMMA MoreSized ==
  ASSUME sysex7.state # "none", NEW s \in More, NEW cin \in CodeIndices(s)
  PROVE  /\ s \in Seq(Input)
         /\ cin \in 2 .. 15 /\ midi_x_size(cin) = Len(s) /\ Remains(cin, s)
         /\ Len(s) \in 1 .. 3
<1>1. \A n : \A a \in DataByte(n) : a \in Input /\ ~IsStatusByte(a)
  <2>1. Payload \in Seq({data \in SUBSET Input : \A b \in data : ~IsStatusByte(b)})
    BY UsbAssumption
  <2>2. \A n \in DOMAIN Payload : Payload[n] \in {data \in SUBSET Input :
                                                    \A b \in data : ~IsStatusByte(b)}
    BY <2>1
  <2> QED  BY <2>2 DEF DataByte
<1>2. SYSEX_STOP \in Input /\ Input \subseteq Byte
  BY UsbAssumption, ClientAssumption
<1>3. ASSUME NEW a \in Input, ~IsStatusByte(a), s = <<a>>
      PROVE  /\ s \in Seq(Input)
             /\ cin \in 2 .. 15 /\ midi_x_size(cin) = Len(s) /\ Remains(cin, s)
             /\ Len(s) \in 1 .. 3
  <2>1. Len(<<a>>) = 1 /\ <<a>> \in Seq(Input)
    BY <1>3
  <2>2. Len(s) = 1 /\ s \in Seq(Input)
    BY <1>3, <2>1
  <2>3. cin \in 2 .. 15 /\ midi_x_size(cin) = Len(s) /\ Remains(cin, s)
    BY <2>2, SingleSized
  <2>4. Len(s) \in 1 .. 3
    BY <2>2
  <2> QED  BY <2>2, <2>3, <2>4
<1>4. ASSUME NEW a \in Input, ~IsStatusByte(a), s = <<a, SYSEX_STOP>>
      PROVE  /\ s \in Seq(Input)
             /\ cin \in 2 .. 15 /\ midi_x_size(cin) = Len(s) /\ Remains(cin, s)
             /\ Len(s) \in 1 .. 3
  <2>1. Len(s) = 2 /\ s[2] = SYSEX_STOP /\ s \in Seq(Input)
    BY <1>2, <1>4
  <2>2. cin = 6
    BY <2>1 DEF CodeIndices
  <2> QED  BY <2>1, <2>2, SizeIs DEF Remains
<1>5. ASSUME NEW a \in Input, NEW b \in Input, ~IsStatusByte(a), s = <<a, b, SYSEX_STOP>>
      PROVE  /\ s \in Seq(Input)
             /\ cin \in 2 .. 15 /\ midi_x_size(cin) = Len(s) /\ Remains(cin, s)
             /\ Len(s) \in 1 .. 3
  <2>1. Len(s) = 3 /\ s[3] = SYSEX_STOP /\ s \in Seq(Input)
    BY <1>2, <1>5
  <2>2. cin = 7
    BY <2>1 DEF CodeIndices
  <2> QED  BY <2>1, <2>2, SizeIs DEF Remains
<1>6. ASSUME NEW a \in Input, NEW b \in Input, NEW c \in Input,
             ~IsStatusByte(a), ~IsStatusByte(b), ~IsStatusByte(c), s = <<a, b, c>>
      PROVE  /\ s \in Seq(Input)
             /\ cin \in 2 .. 15 /\ midi_x_size(cin) = Len(s) /\ Remains(cin, s)
             /\ Len(s) \in 1 .. 3
  <2>1. Len(s) = 3 /\ s[1] = a /\ s[2] = b /\ s[3] = c /\ s \in Seq(Input)
    BY <1>6
  <2>2. IsData(s)
    BY <1>6, <2>1 DEF IsData
  <2>3. cin = 4
    BY <1>2, <1>6, <2>1 DEF CodeIndices, NOTE_OFF, SYSEX_START, TIMING_CODE, SPP, SONG_SELECT,
       SYSEX_STOP, IsStatusByte, Byte
  <2> QED  BY <2>1, <2>2, <2>3, SizeIs DEF Remains
<1> QED  BY <1>1, <1>3, <1>4, <1>5, <1>6 DEF More

\* The size that usbm1_to_bytestream looks up is that of what the host sends.
LEMMA Sized ==
  ASSUME NEW s \in Contents, NEW cin \in CodeIndices(s)
  PROVE  /\ s \in Seq(Input) /\ Len(s) \in 1 .. 3
         /\ cin \in 2 .. 15 /\ midi_x_size(cin) = Len(s) /\ Remains(cin, s)
<1>1. CASE s \in Packets
  <2>1. s \in Seq(Input) /\ (Len(s) = 1 \/ IsMessage(s) \/ IsOpening(s))
    BY <1>1, UsbAssumption
  <2>2. Len(s) = 1 => cin # 4
    BY DEF CodeIndices
  <2> QED  BY <2>1, <2>2, SingleSized, MessageSized, OpeningSized
<1>2. CASE s \notin Packets
  <2>1. s \in More /\ sysex7.state # "none"
    BY <1>2 DEF Contents
  <2> QED  BY <2>1, MoreSized
<1> QED  BY <1>1, <1>2

\* What the host sends comes out of usbm1_to_bytestream.
LEMMA PushedIs ==
  ASSUME bytes = <<>>, NEW s \in Seq(Input), NEW p, Len(s) \in 1 .. 3,
         p.data = SubSeq(s \o <<0, 0>>, 1, 3), midi_x_size(p.cin) = Len(s),
         PushPacket(p)
  PROVE  bytes' = IF p.cable = cable THEN s ELSE bytes
<1> DEFINE t == s \o <<0, 0>>
<1>1. CASE p.cable # cable
  BY <1>1 DEF PushPacket
<1>2. CASE p.cable = cable
  <2>1. s \in Seq(Input \union {0}) /\ <<0, 0>> \in Seq(Input \union {0})
    OBVIOUS
  <2>2. t \in Seq(Input \union {0}) /\ Len(t) = Len(s) + 2
    BY <2>1
  <2>3. \A i \in 1 .. Len(s) : t[i] = s[i]
    BY <2>1
  <2> DEFINE d == SubSeq(t, 1, 3)
  <2>4. d \in Seq(Input \union {0}) /\ Len(d) = 3 /\ \A i \in 1 .. 3 : d[i] = t[i]
    <3> HIDE DEF t
    <3> QED  BY <2>2
  <2> HIDE DEF t, d
  <2>5. SubSeq(d, 1, Len(s)) = s
    <3>1. /\ SubSeq(d, 1, Len(s)) \in Seq(Input \union {0})
          /\ Len(SubSeq(d, 1, Len(s))) = Len(s)
          /\ \A i \in 1 .. Len(s) : SubSeq(d, 1, Len(s))[i] = d[i]
      BY <2>4
    <3> QED  BY <2>1, <2>3, <2>4, <3>1, SeqEqual
  <2>6. <<>> \o s = s /\ SubSeq(s, 1, Len(s)) = s
    BY ConcatEmptySeq, SubSeqFull
  <2>7. p.data = d
    BY DEF d, t
  <2>8. bytes' = LET all == <<>> \o s
                 IN  SubSeq(all, 1, IF Len(all) <= 4 THEN Len(all) ELSE 4)
    BY <1>2, <2>5, <2>7, Zenon DEF PushPacket
  <2>9. Len(s) <= 4
    OBVIOUS
  <2> QED  BY <1>2, <2>6, <2>8, <2>9
<1> QED  BY <1>1, <1>2

\* The first byte of some, and the others.
LEMMA Shifted ==
  ASSUME NEW s \in Seq(Input), s # <<>>, Len(s) <= 3
  PROVE  /\ s[1] \in Input /\ Len(s) \in 1 .. 3
         /\ Tail(s) = SubSeq(s, 2, Len(s))
         /\ Tail(s) \in Seq(Input) /\ Len(Tail(s)) = Len(s) - 1
         /\ \A i \in 1 .. Len(s) - 1 : Tail(s)[i] = s[i + 1]
<1>1. Len(s) \in Nat /\ Len(s) > 0 /\ Head(s) = s[1]
  BY EmptySeq
<1>2. /\ Head(s) \in Input
      /\ Tail(s) \in Seq(Input) /\ Len(Tail(s)) = Len(s) - 1
      /\ \A i \in 1 .. Len(Tail(s)) : Tail(s)[i] = s[i + 1]
  BY HeadTailProperties
<1>3. /\ SubSeq(s, 2, Len(s)) \in Seq(Input) /\ Len(SubSeq(s, 2, Len(s))) = Len(s) - 1
      /\ \A i \in 1 .. Len(s) - 1 : SubSeq(s, 2, Len(s))[i] = s[i + 1]
  <2>1. \A i \in 2 .. Len(s) : s[i] \in Input
    BY <1>1
  <2>2. /\ SubSeq(s, 2, Len(s)) \in Seq(Input)
        /\ Len(SubSeq(s, 2, Len(s))) = IF 2 <= Len(s) THEN Len(s) - 2 + 1 ELSE 0
        /\ \A i \in 1 .. Len(s) - 2 + 1 : SubSeq(s, 2, Len(s))[i] = s[2 + i - 1]
    BY <1>1, <2>1, SubSeqProperties
  <2>3. Len(SubSeq(s, 2, Len(s))) = Len(s) - 1
    <3>1. \A n \in Nat : n > 0 => (IF 2 <= n THEN n - 2 + 1 ELSE 0) = n - 1
      OBVIOUS
    <3> QED  BY <1>1, <2>2, <3>1, Zenon
  <2>4. ASSUME NEW i \in 1 .. Len(s) - 1
        PROVE  SubSeq(s, 2, Len(s))[i] = s[i + 1]
    <3>1. i \in 1 .. Len(s) - 2 + 1 /\ 2 + i - 1 = i + 1
      BY <1>1
    <3>2. SubSeq(s, 2, Len(s))[i] = s[2 + i - 1]
      BY <2>2, <3>1, Zenon
    <3> QED  BY <3>1, <3>2, Zenon
  <2> QED  BY <2>2, <2>3, <2>4
<1>4. Tail(s) = SubSeq(s, 2, Len(s))
  BY <1>1, <1>2, <1>3, SeqEqual
<1> QED  BY <1>1, <1>2, <1>4

\* A message begins with a status byte that is not a real-time one.
LEMMA MessageStatus ==
  ASSUME NEW b \in Byte, b >= NOTE_OFF, IsOneByteMessage(b) \/ TakesTwoBytes(b)
  PROVE  IsStatusByte(b) /\ ~IsSystemRealTime(b)
<1>1. b < 248
  <2>1. IsOneByteMessage(b) => b < 248
    BY DEF IsOneByteMessage, PROGRAM_CHANGE, CHANNEL_PRESSURE, TIMING_CODE, SONG_SELECT, Byte
  <2>2. TakesTwoBytes(b) => b < 248
    BY DEF TakesTwoBytes, SPP, SYSEX_START, Byte
  <2> QED  BY <2>1, <2>2
<1>2. ~IsSystemRealTime(b)
  BY <1>1 DEF IsSystemRealTime, TIMING_CLOCK, SEQUENCE_START, SEQUENCE_CONTINUE,
     SEQUENCE_STOP, ACTIVE_SENSING, SYSTEM_RESET
<1>3. IsStatusByte(b)
  BY DEF IsStatusByte, NOTE_OFF
<1> QED  BY <1>2, <1>3

\* The parser takes a byte of what is left, and more is left as it should be.
LEMMA RemainsMore ==
  ASSUME IInv, NEW s \in Seq(Input), Len(s) \in 2 .. 3, NEW cin \in 2 .. 15,
         Remains(cin, s), Push(s[1])
  PROVE  Remains(cin, Tail(s))'
<1> DEFINE t == Tail(s)
           b == s[1]
<1>1. /\ b \in Byte /\ t \in Seq(Input) /\ Len(t) = Len(s) - 1
      /\ \A i \in 1 .. Len(t) : t[i] = s[i + 1]
  <2>1. s # <<>>
    BY EmptySeq
  <2> QED  BY <2>1, Shifted, ClientAssumption
<1>2. /\ IsStatusByte(b) /\ ~IsSystemRealTime(b) =>
           /\ d0' = b /\ d1' = Unknown
           /\ sysex7'.state = IF b = SYSEX_START THEN "start" ELSE "none"
      /\ ~IsStatusByte(b) /\ sysex7.state \in {"start", "cont"} => sysex7'.state # "none"
      /\ ~IsStatusByte(b) /\ sysex7.state = "none" =>
           /\ sysex7' = sysex7 /\ d0' = d0
           /\ d1 = Unknown /\ TakesTwoBytes(d0) => d1' # Unknown
  BY <1>1, PushEffect
<1>3. IsData(s) => IsData(t) /\ ~IsStatusByte(b)
  BY <1>1 DEF IsData
<1>4. (\A i \in 2 .. Len(s) : ~IsStatusByte(s[i])) => IsData(t)
  BY <1>1 DEF IsData
<1> HIDE DEF t
<1>5. CASE cin \in 5 .. 7 /\ s[Len(s)] \in {SYSEX_STOP, TUNE_REQUEST}
  <2>1. t[Len(t)] = s[Len(s)]
    BY <1>1
  <2> QED  BY <1>5, <2>1 DEF Remains, t
<1>6. CASE cin = 4 /\ sysex7.state # "none" /\ IsData(s)
  <2>1. sysex7.state \in {"start", "cont"}
    BY <1>6 DEF IInv, TypeOK, Sysex7
  <2>2. sysex7'.state # "none" /\ IsData(t)
    BY <1>2, <1>3, <1>6, <2>1
  <2> QED  BY <1>6, <2>2 DEF Remains, t
<1>7. CASE cin = 4 /\ Len(s) = 3 /\ IsOpening(s) /\ ~IsStatusByte(s[3])
  <2>1. b = SYSEX_START /\ ~IsStatusByte(s[2])
    BY <1>7 DEF IsOpening
  <2>2. IsStatusByte(b) /\ ~IsSystemRealTime(b)
    BY <2>1 DEF IsStatusByte, IsSystemRealTime, SYSEX_START, TIMING_CLOCK, SEQUENCE_START,
       SEQUENCE_CONTINUE, SEQUENCE_STOP, ACTIVE_SENSING, SYSTEM_RESET
  <2>3. sysex7'.state = "start"
    BY <1>2, <2>1, <2>2
  <2>4. IsData(t)
    BY <1>1, <1>7, <2>1 DEF IsData
  <2> QED  BY <1>7, <2>3, <2>4 DEF Remains, t
<1>8. CASE cin \notin {4, 5, 6, 7, 15} /\ IsMessage(s)
  <2>1. /\ b >= NOTE_OFF /\ b # SYSEX_START /\ IsData(t)
        /\ \/ Len(s) = 2 /\ IsOneByteMessage(b)
           \/ Len(s) = 3 /\ TakesTwoBytes(b)
    BY <1>4, <1>8, Zenon DEF IsMessage
  <2>2. IsStatusByte(b) /\ ~IsSystemRealTime(b)
    BY <1>1, <2>1, MessageStatus
  <2>3. d0' = b /\ d1' = Unknown /\ sysex7'.state = "none"
    BY <1>2, <2>1, <2>2
  <2>4. \/ Len(t) = 1 /\ IsOneByteMessage(b)
        \/ Len(t) = 2 /\ TakesTwoBytes(b)
    BY <1>1, <2>1
  <2>5. IsRest(t)'
    BY <2>1, <2>3, <2>4, Zenon DEF IsRest, t
  <2> QED  BY <1>8, <2>5, Zenon DEF Remains, t
<1>9. CASE /\ cin \notin {4, 5, 6, 7, 15}
           /\ sysex7.state = "none" /\ IsData(s)
           /\ Len(s) = 2 /\ d1 = Unknown /\ TakesTwoBytes(d0)
  <2>1. sysex7'.state = "none" /\ d1' # Unknown /\ IsData(t) /\ Len(t) = 1
    BY <1>1, <1>2, <1>3, <1>9
  <2>2. IsRest(t)'
    BY <2>1, Zenon DEF IsRest, t
  <2> QED  BY <1>9, <2>2, Zenon DEF Remains, t
<1>10. Len(s) # 1
  <2>1. \A n \in 2 .. 3 : n # 1
    OBVIOUS
  <2> QED  BY <2>1, Zenon
<1> QED  BY <1>5, <1>6, <1>7, <1>8, <1>9, <1>10, Zenon DEF Remains, IsRest

\* The parser takes the last byte of a packet.
LEMMA RemainsNothing ==
  ASSUME IInv, NEW s \in Seq(Input), Len(s) = 1, NEW cin \in 2 .. 15,
         Remains(cin, s), Push(s[1])
  PROVE  \/ cin = 15
         \/ cin = 4 /\ sysex7'.state # "none"
         \/ cin # 4 /\ sysex7'.state = "none" /\ d1' = Unknown
<1> DEFINE b == s[1]
<1>1. b \in Byte
  <2>1. s # <<>>
    BY EmptySeq
  <2> QED  BY <2>1, Shifted, ClientAssumption
<1>2. CASE cin \in 5 .. 7 /\ s[Len(s)] \in {SYSEX_STOP, TUNE_REQUEST}
  <2>1. b \in {SYSEX_STOP, TUNE_REQUEST}
    BY <1>2
  <2>2. IsStatusByte(b) /\ ~IsSystemRealTime(b) /\ b # SYSEX_START
    BY <2>1 DEF IsStatusByte, IsSystemRealTime, SYSEX_START, SYSEX_STOP, TUNE_REQUEST,
       TIMING_CLOCK, SEQUENCE_START, SEQUENCE_CONTINUE, SEQUENCE_STOP, ACTIVE_SENSING,
       SYSTEM_RESET
  <2>3. sysex7'.state = "none" /\ d1' = Unknown
    BY <1>1, <2>2, PushEffect
  <2> QED  BY <1>2, <2>3
<1>3. CASE cin = 4 /\ sysex7.state # "none" /\ IsData(s)
  <2>1. sysex7.state \in {"start", "cont"} /\ ~IsStatusByte(b)
    BY <1>3 DEF IInv, TypeOK, Sysex7, IsData
  <2> QED  BY <1>1, <1>3, <2>1, PushEffect
<1>4. CASE /\ cin \notin {4, 5, 6, 7, 15}
           /\ sysex7.state = "none" /\ IsData(s)
           /\ d1 # Unknown \/ IsOneByteMessage(d0)
  <2>1. ~IsStatusByte(b)
    BY <1>4 DEF IsData
  <2>2. sysex7' = sysex7 /\ d1' = Unknown
    BY <1>1, <1>4, <2>1, PushEffect
  <2> QED  BY <1>4, <2>2
<1>5. ~IsMessage(s) /\ Len(s) # 3 /\ Len(s) # 2
  BY DEF IsMessage
<1> QED  BY <1>2, <1>3, <1>4, <1>5, Zenon DEF Remains, IsRest

\* The host sends a packet.
LEMMA HostSendsStep ==
  ASSUME UsbInv, NEW c \in Cables, NEW s \in Contents, NEW cin \in CodeIndices(s),
         HostSends(c, s, cin), IInv'
  PROVE  UsbInv'
<1> DEFINE p == [cable |-> c, cin |-> cin, data |-> SubSeq(s \o <<0, 0>>, 1, 3)]
<1>1. /\ s \in Seq(Input) /\ Len(s) \in 1 .. 3 /\ cin \in 2 .. 15
      /\ midi_x_size(cin) = Len(s) /\ Remains(cin, s)
  BY Sized
<1>2. /\ owed = <<>> /\ bytes = <<>> /\ PushPacket(p)
      /\ IF c = cable THEN owed' = s /\ packet' = {p} ELSE UNCHANGED <<owed, packet>>
      /\ UNCHANGED linkvars
  BY Zenon DEF HostSends
<1>3. bytes' = IF c = cable THEN s ELSE bytes
  <2>1. p.cable = c /\ p.cin = cin /\ p.data = SubSeq(s \o <<0, 0>>, 1, 3)
    OBVIOUS
  <2> HIDE DEF p
  <2> QED  BY <1>1, <1>2, <2>1, PushedIs
<1>4. sysex7' = sysex7 /\ d0' = d0 /\ d1' = d1
  BY <1>2 DEF linkvars, vars
<1>5. CASE c = cable
  <2>1. bytes' = owed' /\ owed' = s /\ packet' = {p} /\ p.cin = cin
    BY <1>2, <1>3, <1>5
  <2>2. Remains(cin, s)'
    BY <1>1, <1>4 DEF Remains, IsRest
  <2>3. owed' # <<>> /\ Len(owed') <= 3 /\ owed' \in Seq(Input)
    BY <1>1, <2>1
  <2>4. \A q \in packet' : q.cin \in 2 .. 15 /\ Remains(q.cin, owed)'
    BY <1>1, <2>1, <2>2
  <2> QED  BY <2>1, <2>3, <2>4 DEF UsbInv
<1>6. CASE c # cable
  <2>1. bytes' = owed' /\ owed' = owed /\ packet' = packet
    BY <1>2, <1>3, <1>6 DEF UsbInv
  <2>2. packet = {}
    BY <1>2 DEF UsbInv
  <2> QED  BY <2>1, <2>2 DEF UsbInv
<1> QED  BY <1>5, <1>6

\* The client pushes a byte.
LEMMA ForwardStep ==
  ASSUME UsbInv, Forward
  PROVE  /\ bytes # <<>> /\ bytes[1] \in Input /\ LinkSend(bytes[1])
         /\ bytes' = owed' /\ owed' \in Seq(Input) /\ Len(owed') <= 3
         /\ owed' = <<>> => packet' = {}
         /\ \A p \in packet' : p.cin \in 2 .. 15 /\ Remains(p.cin, owed)'
         /\ packet' = {} => \A p \in packet : Whole(p)'
<1> DEFINE b == bytes[1]
<1>1. /\ bytes # <<>> /\ bytes = owed /\ owed \in Seq(Input) /\ Len(owed) <= 3
      /\ \A p \in packet : Remains(p.cin, owed) /\ p.cin \in 2 .. 15
  BY Zenon DEF UsbInv, Forward
<1>2. /\ b \in Input /\ Len(owed) \in 1 .. 3 /\ Head(bytes) = b
      /\ Tail(owed) = SubSeq(owed, 2, Len(owed))
      /\ Tail(owed) \in Seq(Input) /\ Len(Tail(owed)) = Len(owed) - 1
  BY <1>1, Shifted
<1>3. LinkSend(b) /\ bytes' = Tail(bytes) /\ owed' = SubSeq(owed, 2, Len(owed))
  BY <1>2, Zenon DEF Forward, PopByte
<1>4. bytes' = owed' /\ owed' = Tail(owed)
  BY <1>1, <1>2, <1>3, Zenon
<1>5. Push(owed[1]) /\ IInv
  BY <1>1, <1>3 DEF LinkSend, Send, UsbInv
<1>6. Len(owed') <= 3 /\ (owed' = <<>> => Len(owed) = 1)
  <2>1. Len(owed') = Len(owed) - 1
    BY <1>2, <1>4
  <2>2. owed' = <<>> => Len(owed') = 0
    OBVIOUS
  <2>3. \A n \in 1 .. 3 : n - 1 <= 3 /\ (n - 1 = 0 => n = 1)
    OBVIOUS
  <2> QED  BY <1>2, <2>1, <2>2, <2>3, Zenon
<1>7. CASE Len(owed) = 1
  <2>1. packet' = {}
    BY <1>7 DEF Forward
  <2>2. ASSUME NEW p \in packet PROVE Whole(p)'
    <3>1. \/ p.cin = 15
          \/ p.cin = 4 /\ sysex7'.state # "none"
          \/ p.cin # 4 /\ sysex7'.state = "none" /\ d1' = Unknown
      BY <1>1, <1>5, <1>7, RemainsNothing
    <3> QED  BY <3>1 DEF Whole
  <2> QED  BY <1>1, <1>2, <1>3, <1>4, <1>6, <2>1, <2>2
<1>8. CASE Len(owed) # 1
  <2>1. Len(owed) \in 2 .. 3
    BY <1>2, <1>8
  <2>2. packet' = packet
    BY <2>1 DEF Forward
  <2>3. PICK s \in Seq(Input) : s = owed
    BY <1>1
  <2>4. ASSUME NEW cin \in 2 .. 15, Remains(cin, owed)
        PROVE  Remains(cin, owed)'
    <3>1. Remains(cin, s) /\ Push(s[1]) /\ Len(s) \in 2 .. 3
      BY <1>5, <2>1, <2>3, <2>4
    <3>2. Remains(cin, Tail(s))'
      BY <1>5, <3>1, RemainsMore
    <3>3. owed' = Tail(s)
      BY <1>4, <2>3
    <3> QED  BY <3>2, <3>3 DEF Remains, IsRest
  <2>5. \A p \in packet' : p.cin \in 2 .. 15 /\ Remains(p.cin, owed)'
    <3> SUFFICES ASSUME NEW p \in packet PROVE p.cin \in 2 .. 15 /\ Remains(p.cin, owed)'
      BY <2>2
    <3>1. p.cin \in 2 .. 15 /\ Remains(p.cin, owed)
      BY <1>1
    <3> QED  BY <2>4, <3>1
  <2> QED  BY <1>1, <1>2, <1>3, <1>4, <1>6, <1>8, <2>2, <2>5
<1> QED  BY <1>7, <1>8

\* The invariant holds initially.
LEMMA UsbInitInv == UsbLinkInit => UsbInv
<1> SUFFICES ASSUME UsbLinkInit PROVE UsbInv
  OBVIOUS
<1>1. IInv
  BY InitIInv DEF UsbLinkInit, LinkInit
<1>2. <<>> \in Seq(Input) /\ Len(<<>>) <= 3
  BY EmptySeq
<1> QED  BY <1>1, <1>2 DEF UsbLinkInit, UsbInit, UsbInv

\* The host is a client of to_ump like others.
LEMMA UsbStepIsLink == UsbInv /\ [UsbLinkNext]_usbvars => [LinkNext]_linkvars
<1> SUFFICES ASSUME UsbInv, [UsbLinkNext]_usbvars PROVE [LinkNext]_linkvars
  OBVIOUS
<1>1. CASE UNCHANGED usbvars
  BY <1>1 DEF usbvars
<1>2. ASSUME NEW c \in Cables, NEW s \in Contents, NEW cin \in CodeIndices(s),
             HostSends(c, s, cin)
      PROVE  UNCHANGED linkvars
  BY <1>2, Zenon DEF HostSends
<1>3. CASE Forward
  BY <1>3, ForwardStep DEF LinkNext
<1>4. CASE ReadWord
  BY <1>4 DEF ReadWord, LinkNext
<1>5. CASE RestartToUmp
  BY <1>5 DEF RestartToUmp, LinkNext
<1>6. CASE RestartCable
  BY <1>6, Zenon DEF RestartCable
<1> QED  BY <1>1, <1>2, <1>3, <1>4, <1>5, <1>6, Zenon DEF UsbLinkNext

\* Every step keeps the invariant.
LEMMA UsbStep == UsbInv /\ [UsbLinkNext]_usbvars => UsbInv'
<1> SUFFICES ASSUME UsbInv, [UsbLinkNext]_usbvars PROVE UsbInv'
  OBVIOUS
<1>1. IInv'
  BY UsbStepIsLink, HostStepIInv DEF UsbInv
<1>2. CASE UNCHANGED usbvars
  <2>1. UNCHANGED <<sysex7, d0, d1, bytes, owed, packet>>
    BY <1>2 DEF usbvars, linkvars, vars, usb
  <2> QED  BY <1>1, <2>1 DEF UsbInv, Remains, IsRest
<1>3. ASSUME NEW c \in Cables, NEW s \in Contents, NEW cin \in CodeIndices(s),
             HostSends(c, s, cin)
      PROVE  UsbInv'
  BY <1>1, <1>3, HostSendsStep
<1>4. CASE Forward
  BY <1>1, <1>4, ForwardStep DEF UsbInv
<1>5. CASE ReadWord
  <2>1. UNCHANGED <<sysex7, d0, d1, bytes, owed, packet>>
    BY <1>5 DEF ReadWord, LinkPop, Pop, usb
  <2> QED  BY <1>1, <2>1 DEF UsbInv, Remains, IsRest
<1>6. CASE RestartToUmp
  <2>1. UNCHANGED <<bytes, owed>> /\ packet' = {}
    BY <1>6 DEF RestartToUmp, usb
  <2> QED  BY <1>1, <2>1 DEF UsbInv
<1>7. CASE RestartCable
  <2>1. bytes' = <<>> /\ owed' = <<>> /\ packet' = {}
    BY <1>7 DEF RestartCable, ResetUsb, SetCable, RestartUsb
  <2>2. <<>> \in Seq(Input) /\ Len(<<>>) <= 3
    BY EmptySeq
  <2> QED  BY <1>1, <2>1, <2>2 DEF UsbInv
<1> QED  BY <1>2, <1>3, <1>4, <1>5, <1>6, <1>7, Zenon DEF UsbLinkNext

\* What PacketsHeard says of a step.
LEMMA StepHeard ==
  ASSUME UsbInv, [UsbLinkNext]_usbvars
  PROVE  [/\ bytes' = owed'
          /\ heard' # heard /\ packet' = {} => \A p \in packet : Whole(p)']_usbvars
<1>1. bytes' = owed'
  BY UsbStep DEF UsbInv
<1>2. CASE Forward
  BY <1>1, <1>2, ForwardStep
<1>3. CASE heard' = heard
  BY <1>1, <1>3
<1>4. Forward \/ heard' = heard
  <2>1. CASE UNCHANGED usbvars
    BY <2>1 DEF usbvars, linkvars
  <2>2. ASSUME NEW c \in Cables, NEW s \in Contents, NEW cin \in CodeIndices(s),
               HostSends(c, s, cin)
        PROVE  heard' = heard
    <3>1. UNCHANGED linkvars
      BY <2>2, Zenon DEF HostSends
    <3> QED  BY <3>1 DEF linkvars
  <2>3. ReadWord => heard' = heard
    BY DEF ReadWord, LinkPop
  <2>4. RestartToUmp => heard' = heard
    BY DEF RestartToUmp, LinkRestart
  <2>5. RestartCable => heard' = heard
    BY DEF RestartCable, linkvars
  <2> QED  BY <2>1, <2>2, <2>3, <2>4, <2>5, Zenon DEF UsbLinkNext
<1> QED  BY <1>2, <1>3, <1>4

(* For all packets that the USB MIDI class allows, in any order and with packets *)
(* of other cables and restarts in between: the bytes of a packet are those that *)
(* its code index number says, none left over and none missing, and the parser   *)
(* of to_ump ends its message where the packet does.                             *)
THEOREM PacketsAreHeard == UsbLinkSpec => PacketsHeard
<1>1. UsbLinkSpec => []UsbInv
  BY UsbInitInv, UsbStep, PTL DEF UsbLinkSpec
<1> QED  BY <1>1, StepHeard, PTL DEF UsbLinkSpec, PacketsHeard

(* What has been proved for any client of to_ump holds with a USB host.          *)
THEOREM UsbHostIsClient == UsbLinkSpec => LinkSpec
<1>1. UsbLinkSpec => []UsbInv
  BY UsbInitInv, UsbStep, PTL DEF UsbLinkSpec
<1>2. UsbLinkInit => LinkInit
  BY DEF UsbLinkInit
<1> QED  BY <1>1, <1>2, UsbStepIsLink, PTL DEF UsbLinkSpec, LinkSpec
===============================================================================
