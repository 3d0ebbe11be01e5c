---------------------------- MODULE DeviceLinkProofs ----------------------------
(* Proofs about modules UmpToBytestream and DeviceLink: the translator refuses   *)
(* nothing, for every set of input words and of group filters (what the client   *)
(* pushes may be torn, reserved or meaningless); and what the device hears is    *)
(* what the packets of the client said.                                          *)
EXTENDS DeviceLink, Iteration, SequenceTheorems, TLAPS

(* The dispatcher keeps only the words of a packet that wants more.              *)
PacketIncomplete ==
  message # <<>> => Len(message) < MessageSize(MessageType(message[1]))

(* The bytes of a packet fit the FIFO because the packet has all its words and   *)
(* only one packet is translated between two drains.                             *)
IInv == TypeOK /\ PacketIncomplete /\ NothingRefused

-------------------------------------------------------------------------------
(* The dispatcher.                                                               *)

LEMMA PacketSize ==
  ASSUME NEW mt
  PROVE  MessageSize(mt) \in 1 .. 4
BY DEF MessageSize

LEMMA FirstWord ==
  ASSUME NEW w \in Word
  PROVE  /\ w[1] \in Byte /\ w[2] \in Byte /\ w[3] \in Byte /\ w[4] \in Byte
BY DEF Word

LEMMA ReceivedType ==
  ASSUME TypeOK, NEW w \in Word
  PROVE  /\ Received(w) \in Seq(Word)
         /\ Len(Received(w)) = Len(message) + 1
         /\ Len(message) \in Nat
         /\ Received(w) # <<>>
         /\ Received(w)[1] \in Word
<1>1. message \in Seq(Word) /\ Len(message) \in Nat
  BY LenProperties DEF TypeOK
<1>2. Received(w) \in Seq(Word) /\ Len(Received(w)) = Len(message) + 1
  BY <1>1, AppendProperties DEF Received
<1>3. Received(w)[1] \in Word
  BY <1>1, <1>2, ElementOfSeq
<1> QED  BY <1>1, <1>2, <1>3

\* Collecting a word leaves a packet that wants more, of at most three words.
LEMMA CollectPacket ==
  ASSUME TypeOK, NEW w \in Word, Collect(w)
  PROVE  /\ message' \in Seq(Word)
         /\ Len(message') < 4
         /\ PacketIncomplete'
<1>1. message' = Received(w) /\ ~IsComplete(w)
  BY DEF Collect
<1> DEFINE m == Received(w)
           size == MessageSize(MessageType(m[1]))
<1>2. m \in Seq(Word) /\ Len(m) \in Nat
  BY ReceivedType, LenProperties
<1>3. size \in 1 .. 4
  BY PacketSize
<1>4. Len(m) < size
  <2>1. ~(Len(m) >= size)
    BY <1>1 DEF IsComplete
  <2> HIDE DEF m, size
  <2> QED  BY <1>2, <1>3, <2>1
<1>5. Len(m) < 4
  <2> HIDE DEF m, size
  <2> QED  BY <1>2, <1>3, <1>4
<1> QED  BY <1>1, <1>2, <1>4, <1>5 DEF PacketIncomplete

LEMMA CompletePacket ==
  ASSUME NEW w, Complete(w)
  PROVE  /\ message' \in Seq(Word)
         /\ Len(message') < 4
         /\ PacketIncomplete'
<1>1. message' = <<>>
  BY DEF Complete
<1>2. <<>> \in Seq(Word) /\ Len(<<>>) < 4
  BY EmptySeq
<1> QED  BY <1>1, <1>2 DEF PacketIncomplete

-------------------------------------------------------------------------------
(* The bytes of a packet.                                                        *)

LEMMA Bits7Type ==
  ASSUME NEW b \in Byte
  PROVE  Bits7(b) \in Byte
BY DEF Bits7, Byte

\* The first n bytes of a tuple of them.
LEMMA PrefixType ==
  ASSUME NEW s \in Seq(Byte), NEW n \in 0 .. Len(s)
  PROVE  SubSeq(s, 1, n) \in Seq(Byte) /\ Len(SubSeq(s, 1, n)) = n
<1>1. Len(s) \in Nat
  BY LenProperties
<1>2. \A i \in 1 .. n : s[i] \in Byte
  BY <1>1, ElementOfSeq
<1> QED  BY <1>1, <1>2, SubSeqProperties

LEMMA RunningType ==
  ASSUME NEW s \in Byte
  PROVE  Running(s) \in Seq(Byte) /\ Len(Running(s)) <= 1
<1>1. <<s>> \in Seq(Byte) /\ Len(<<s>>) <= 1
  OBVIOUS
<1>2. <<>> \in Seq(Byte) /\ Len(<<>>) <= 1
  BY EmptySeq
<1> QED  BY <1>1, <1>2 DEF Running

LEMMA ShortDataType ==
  ASSUME NEW w \in Word
  PROVE  ShortData(w) \in Seq(Byte) /\ Len(ShortData(w)) <= 2
<1> DEFINE s == <<Bits7(w[3]), Bits7(w[4])>>
<1>1. Bits7(w[3]) \in Byte /\ Bits7(w[4]) \in Byte
  BY FirstWord, Bits7Type
<1>2. s \in Seq(Byte) /\ Len(s) = 2
  BY <1>1
<1>3. DataLength(w[2]) \in 0 .. 2
  BY DEF DataLength
<1>4. ShortData(w) = SubSeq(s, 1, DataLength(w[2]))
  BY DEF ShortData
<1> HIDE DEF s
<1>5. Len(ShortData(w)) = DataLength(w[2]) /\ ShortData(w) \in Seq(Byte)
  BY <1>2, <1>3, <1>4, PrefixType
<1> QED  BY <1>3, <1>5

LEMMA SysexDataType ==
  ASSUME NEW m \in Seq(Word), Len(m) >= 2
  PROVE  SysexData(m) \in Seq(Byte) /\ Len(SysexData(m)) <= 6
<1> DEFINE s == <<Bits7(m[1][3]), Bits7(m[1][4]), Bits7(m[2][1]),
                  Bits7(m[2][2]), Bits7(m[2][3]), Bits7(m[2][4])>>
           n == IF m[1][2] % 16 <= PacketBytes THEN m[1][2] % 16 ELSE PacketBytes
<1>1. m[1] \in Word /\ m[2] \in Word
  BY LenProperties, ElementOfSeq
<1>2. /\ Bits7(m[1][3]) \in Byte /\ Bits7(m[1][4]) \in Byte
      /\ Bits7(m[2][1]) \in Byte /\ Bits7(m[2][2]) \in Byte
      /\ Bits7(m[2][3]) \in Byte /\ Bits7(m[2][4]) \in Byte
  BY <1>1, FirstWord, Bits7Type
<1>3. s \in Seq(Byte) /\ Len(s) = 6
  BY <1>2
<1>4. n \in 0 .. 6
  <2>1. m[1][2] \in 0 .. 255
    BY <1>1, FirstWord DEF Byte
  <2>2. \A c \in 0 .. 255 : (IF c % 16 <= 6 THEN c % 16 ELSE 6) \in 0 .. 6
    <3>1. \A c \in 0 .. 255 : c % 16 \in 0 .. 15
      OBVIOUS
    <3> QED  BY <3>1
  <2> QED  BY <2>1, <2>2 DEF PacketBytes
<1>5. SysexData(m) = SubSeq(s, 1, n)
  BY DEF SysexData
<1> HIDE DEF s, n
<1>6. Len(SysexData(m)) = n /\ SysexData(m) \in Seq(Byte)
  BY <1>3, <1>4, <1>5, PrefixType
<1> QED  BY <1>4, <1>6

\* Up to three pieces of bytes that fit the FIFO together.
LEMMA Join ==
  ASSUME NEW p \in Seq(Byte), NEW q \in Seq(Byte),
         NEW i \in Nat, NEW j \in Nat, Len(p) <= i, Len(q) <= j
  PROVE  p \o q \in Seq(Byte) /\ Len(p \o q) <= i + j
<1>1. Len(p) \in Nat /\ Len(q) \in Nat
  BY LenProperties
<1>2. p \o q \in Seq(Byte) /\ Len(p \o q) = Len(p) + Len(q)
  BY ConcatProperties
<1> QED  BY <1>1, <1>2

LEMMA PacketJoin ==
  ASSUME NEW p \in Seq(Byte), NEW q \in Seq(Byte), Len(p) <= 1, Len(q) <= 6
  PROVE  p \o q \in Seq(Byte) /\ Len(p \o q) <= 7
BY Join, 1 + 6 = 7

LEMMA StopJoin ==
  ASSUME NEW p \in Seq(Byte), NEW q \in Seq(Byte), Len(p) <= 7, Len(q) <= 1
  PROVE  p \o q \in Seq(Byte) /\ Len(p \o q) <= 8
BY Join, 7 + 1 = 8

(* Into a FIFO that was drained eight bytes go without loss.                     *)
LEMMA EmitProperties ==
  ASSUME NEW bytes \in Seq(Byte), Len(bytes) <= 8, output = <<>>, Emit(bytes)
  PROVE  /\ output' \in Seq(Byte)
         /\ Len(output') <= OutputSize
         /\ refused' = FALSE
<1> DEFINE all == output \o bytes
<1>1. all = bytes /\ Len(all) \in Nat
  BY LenProperties
<1>2. Len(all) <= OutputSize
  BY <1>1 DEF OutputSize
<1>3. output' = SubSeq(all, 1, Len(all))
  BY <1>2 DEF Emit
<1>4. output' = bytes
  <2> HIDE DEF all
  <2> QED  BY <1>1, <1>3, SubSeqFull
<1>5. refused' = FALSE
  <2>1. (Len(all) > OutputSize) = FALSE
    BY <1>1, <1>2 DEF OutputSize
  <2> QED  BY <2>1 DEF Emit
<1> QED  BY <1>4, <1>5 DEF OutputSize

-------------------------------------------------------------------------------
(* The handlers.                                                                 *)

\* What a handler is called with.
LEMMA HandledPacket ==
  ASSUME TypeOK, NEW w \in Word, Complete(w)
  PROVE  LET m == Received(w) IN
         /\ m \in Seq(Word)
         /\ m[1] \in Word
         /\ \A form : IsSysex(m[1], form) => Len(m) >= 2
<1> DEFINE m == Received(w)
<1>1. m \in Seq(Word) /\ m[1] \in Word /\ Len(m) \in Nat
  BY ReceivedType, LenProperties
<1>2. Len(m) >= MessageSize(MessageType(m[1]))
  BY DEF Complete, IsComplete
<1>3. ASSUME NEW form, IsSysex(m[1], form) PROVE Len(m) >= 2
  <2>1. MessageType(m[1]) = MT_DATA64
    BY <1>3 DEF IsSysex, Handler, Unknown
  <2>2. MessageSize(MT_DATA64) = 2
    BY DEF MessageSize, MT_DATA64, MT_UTILITY, MT_SYSTEM, MT_M1CVM, MT_M2CVM
  <2> HIDE DEF m
  <2> QED  BY <1>2, <2>1, <2>2
<1> QED  BY <1>1, <1>3

\* The status of a message that is not system exclusive is a status byte.
LEMMA ShortStatus ==
  ASSUME NEW w \in Word, IsShort(w)
  PROVE  w[2] \in Byte /\ IsStatusByte(w[2])
<1>1. w[2] \in 0 .. 255
  BY FirstWord DEF Byte
<1>2. /\ MessageType(w) = MT_SYSTEM \/ MessageType(w) = MT_M1CVM
      /\ <<MessageType(w), StatusField(w)>> \in Handlers
  BY DEF IsShort, Silent, Handler
<1>3. CASE MessageType(w) = MT_SYSTEM
  <2>1. StatusField(w) = w[2]
    BY <1>3 DEF StatusField
  <2>2. w[2] \in SystemStatus
    BY <1>2, <1>3, <2>1
    DEF Handlers, MT_UTILITY, MT_SYSTEM, MT_M1CVM, MT_DATA64, MT_M2CVM,
        MT_DATA128, MT_FLEX, MT_STREAM
  <2> QED
    BY <1>1, <2>2
    DEF SystemStatus, IsStatusByte, Byte, TIMING_CODE, SPP, SONG_SELECT,
        TUNE_REQUEST, TIMING_CLOCK, SEQUENCE_START, SEQUENCE_CONTINUE,
        SEQUENCE_STOP, ACTIVE_SENSING, SYSTEM_RESET
<1>4. CASE MessageType(w) = MT_M1CVM
  <2>1. StatusField(w) = w[2] \div 16
    BY <1>4 DEF StatusField, MT_M1CVM, MT_SYSTEM, MT_STREAM, MT_FLEX
  <2>2. w[2] \div 16 \in M1cvmStatus
    BY <1>2, <1>4, <2>1
    DEF Handlers, MT_UTILITY, MT_SYSTEM, MT_M1CVM, MT_DATA64, MT_M2CVM,
        MT_DATA128, MT_FLEX, MT_STREAM
  <2>3. w[2] \div 16 >= 8
    BY <2>2 DEF M1cvmStatus
  <2>4. \A b \in 0 .. 255 : b \div 16 >= 8 => b >= 128
    OBVIOUS
  <2> QED  BY <1>1, <2>3, <2>4 DEF IsStatusByte, Byte
<1> QED  BY <1>2, <1>3, <1>4

\* The rest of a push, once its bytes are known to fit.
LEMMA PushIInv ==
  ASSUME IInv, output = <<>>,
         NEW bytes \in Seq(Byte), Len(bytes) <= 8, Emit(bytes),
         message' \in Seq(Word), Len(message') < 4, PacketIncomplete',
         only_groups' = only_groups,
         status' = None \/ (status' \in Byte /\ IsStatusByte(status'))
  PROVE  IInv'
<1>1. output' \in Seq(Byte) /\ Len(output') <= OutputSize /\ refused' = FALSE
  BY EmitProperties
<1>2. TypeOK'
  BY <1>1 DEF IInv, TypeOK
<1> QED  BY <1>1, <1>2 DEF IInv, NothingRefused

LEMMA SkipIInv ==
  ASSUME IInv, output = <<>>, Skip,
         message' \in Seq(Word), Len(message') < 4, PacketIncomplete'
  PROVE  IInv'
<1>1. <<>> \in Seq(Byte) /\ Len(<<>>) <= 8
  BY EmptySeq
<1>2. /\ Emit(<<>>) /\ only_groups' = only_groups
      /\ status' = None \/ (status' \in Byte /\ IsStatusByte(status'))
  BY DEF Skip, IInv, TypeOK
<1> QED  BY <1>1, <1>2, PushIInv

LEMMA SysexStatus ==
  /\ SYSEX_START \in Byte /\ IsStatusByte(SYSEX_START)
  /\ SYSEX_STOP \in Byte /\ IsStatusByte(SYSEX_STOP)
BY DEF SYSEX_START, SYSEX_STOP, Byte, IsStatusByte

LEMMA HandleIInv ==
  ASSUME IInv, output = <<>>, NEW w \in Word, Complete(w), Handle(Received(w))
  PROVE  IInv'
<1> DEFINE m == Received(w)
<1>1. /\ message' \in Seq(Word) /\ Len(message') < 4 /\ PacketIncomplete'
  BY CompletePacket
<1>2. /\ m \in Seq(Word) /\ m[1] \in Word
      /\ \A form : IsSysex(m[1], form) => Len(m) >= 2
  BY HandledPacket DEF IInv
<1>3. \A form : IsSysex(m[1], form) =>
        SysexData(m) \in Seq(Byte) /\ Len(SysexData(m)) <= 6
  BY <1>2, SysexDataType
<1>4. Running(SYSEX_START) \in Seq(Byte) /\ Len(Running(SYSEX_START)) <= 1
  BY SysexStatus, RunningType
<1>5. <<SYSEX_STOP>> \in Seq(Byte) /\ Len(<<SYSEX_STOP>>) <= 1
  BY SysexStatus
<1>6. status = None \/ (status \in Byte /\ IsStatusByte(status))
  BY DEF IInv, TypeOK
<1> HIDE DEF m
<1>7. CASE Skip
  BY <1>1, <1>7, SkipIInv
<1>8. CASE RealTime(m[1])
  <2>1. m[1][2] \in Byte
    BY <1>2, FirstWord
  <2>2. <<m[1][2]>> \in Seq(Byte) /\ Len(<<m[1][2]>>) <= 8
    BY <2>1
  <2>3. Emit(<<m[1][2]>>) /\ only_groups' = only_groups /\ status' = status
    BY <1>8 DEF RealTime
  <2> QED  BY <1>1, <1>6, <2>2, <2>3, PushIInv
<1>9. CASE Short(m[1])
  <2>1. m[1][2] \in Byte /\ IsStatusByte(m[1][2])
    BY <1>2, <1>9, ShortStatus DEF Short
  <2> DEFINE p == Running(m[1][2])
             q == ShortData(m[1])
  <2>2. /\ p \in Seq(Byte) /\ Len(p) <= 1
        /\ q \in Seq(Byte) /\ Len(q) <= 2
    BY <1>2, <2>1, RunningType, ShortDataType
  <2>3. Emit(p \o q) /\ only_groups' = only_groups /\ status' = m[1][2]
    BY <1>9 DEF Short
  <2> HIDE DEF p, q
  <2>4. p \o q \in Seq(Byte) /\ Len(p \o q) <= 1 + 2
    BY <2>2, Join
  <2>5. p \o q \in Seq(Byte) /\ Len(p \o q) <= 8
    BY <2>4, LenProperties
  <2> QED  BY <1>1, <2>1, <2>3, <2>5, PushIInv
<1>10. CASE SysexIn1(m) /\ ~Skip
  <2>1. /\ IsSysex(m[1], SYSEX7_IN_1)
        /\ Emit(Running(SYSEX_START) \o SysexData(m) \o <<SYSEX_STOP>>)
        /\ only_groups' = only_groups /\ status' = SYSEX_STOP
    BY <1>10 DEF SysexIn1
  <2>2. /\ Running(SYSEX_START) \o SysexData(m) \o <<SYSEX_STOP>> \in Seq(Byte)
        /\ Len(Running(SYSEX_START) \o SysexData(m) \o <<SYSEX_STOP>>) <= 8
    <3> DEFINE p == Running(SYSEX_START) \o SysexData(m)
    <3>1. p \in Seq(Byte) /\ Len(p) <= 7
      BY <1>3, <1>4, <2>1, PacketJoin
    <3> HIDE DEF p
    <3>2. p \o <<SYSEX_STOP>> \in Seq(Byte) /\ Len(p \o <<SYSEX_STOP>>) <= 8
      BY <1>5, <3>1, StopJoin
    <3> QED  BY <3>2 DEF p
  <2> QED  BY <1>1, <2>1, <2>2, SysexStatus, PushIInv
<1>11. CASE SysexStart(m)
  <2>1. /\ IsSysex(m[1], SYSEX7_START)
        /\ Emit(Running(SYSEX_START) \o SysexData(m))
        /\ only_groups' = only_groups /\ status' = SYSEX_START
    BY <1>11 DEF SysexStart
  <2>2. /\ Running(SYSEX_START) \o SysexData(m) \in Seq(Byte)
        /\ Len(Running(SYSEX_START) \o SysexData(m)) <= 8
    <3> DEFINE p == Running(SYSEX_START) \o SysexData(m)
    <3>1. p \in Seq(Byte) /\ Len(p) <= 7
      BY <1>3, <1>4, <2>1, PacketJoin
    <3> HIDE DEF p
    <3>2. p \in Seq(Byte) /\ Len(p) <= 8
      BY <3>1, LenProperties
    <3> QED  BY <3>2 DEF p
  <2> QED  BY <1>1, <2>1, <2>2, SysexStatus, PushIInv
<1>12. CASE SysexContinue(m) /\ ~Skip
  <2>1. /\ IsSysex(m[1], SYSEX7_CONTINUE)
        /\ Emit(SysexData(m)) /\ only_groups' = only_groups /\ status' = status
    BY <1>12 DEF SysexContinue
  <2>2. SysexData(m) \in Seq(Byte) /\ Len(SysexData(m)) <= 6
    BY <1>3, <2>1
  <2>3. Len(SysexData(m)) <= 8
    BY <2>2, LenProperties
  <2> QED  BY <1>1, <1>6, <2>1, <2>2, <2>3, PushIInv
<1>13. CASE SysexEnd(m) /\ ~Skip
  <2>1. /\ IsSysex(m[1], SYSEX7_END)
        /\ Emit(SysexData(m) \o <<SYSEX_STOP>>)
        /\ only_groups' = only_groups /\ status' = SYSEX_STOP
    BY <1>13 DEF SysexEnd
  <2>2. /\ SysexData(m) \o <<SYSEX_STOP>> \in Seq(Byte)
        /\ Len(SysexData(m) \o <<SYSEX_STOP>>) <= 8
    <3>1. SysexData(m) \in Seq(Byte) /\ Len(SysexData(m)) <= 6
      BY <1>3, <2>1
    <3>2. Len(SysexData(m)) <= 7
      BY <3>1, LenProperties
    <3> QED  BY <1>5, <3>1, <3>2, StopJoin
  <2> QED  BY <1>1, <2>1, <2>2, SysexStatus, PushIInv
<1> QED
  <2>1. Handle(m)
    BY DEF m
  <2> QED
    BY <1>7, <1>8, <1>9, <1>10, <1>11, <1>12, <1>13, <2>1 DEF Handle

-------------------------------------------------------------------------------
(* The specification.                                                            *)

LEMMA EmptyOutput == <<>> \in Seq(Byte) /\ Len(<<>>) <= OutputSize
BY EmptySeq DEF OutputSize

LEMMA AllGroups == Group \in (SUBSET Group) \ {{}}
<1>1. 0 \in Group
  BY DEF Group
<1>2. Group # {}
  BY <1>1
<1> QED  BY <1>2

LEMMA InitIInv == Init => IInv
<1> SUFFICES ASSUME Init PROVE IInv
  OBVIOUS
<1>1. <<>> \in Seq(Word) /\ Len(<<>>) < 4
  BY EmptySeq
<1>2. TypeOK
  BY <1>1, EmptyOutput, AllGroups DEF Init, TypeOK
<1> QED  BY <1>2 DEF Init, IInv, PacketIncomplete, NothingRefused

LEMMA StepIInv == IInv /\ [Next]_vars => IInv'
<1> SUFFICES ASSUME IInv, [Next]_vars PROVE IInv'
  OBVIOUS
<1>1. CASE UNCHANGED vars
  BY <1>1 DEF vars, context, IInv, TypeOK, PacketIncomplete, NothingRefused
<1>2. ASSUME NEW w \in Input, Send(w) PROVE IInv'
  <2>1. w \in Word /\ output = <<>>
    BY <1>2, ClientAssumption DEF Send
  <2>2. CASE Collect(w) /\ Skip
    <3>1. /\ message' \in Seq(Word) /\ Len(message') < 4 /\ PacketIncomplete'
      BY <2>1, <2>2, CollectPacket DEF IInv
    <3> QED  BY <2>1, <2>2, <3>1, SkipIInv
  <2>3. CASE Complete(w) /\ Handle(Received(w))
    BY <2>1, <2>3, HandleIInv
  <2> QED  BY <1>2, <2>2, <2>3 DEF Send, Push
<1>3. CASE Pop
  <2>1. /\ output' \in Seq(Byte) /\ Len(output') = Len(output) - 1
        /\ Len(output) \in Nat
    BY <1>3, HeadTailProperties, LenProperties DEF Pop, IInv, TypeOK
  <2>2. Len(output') <= OutputSize
    BY <2>1 DEF IInv, TypeOK, OutputSize
  <2> QED
    BY <1>3, <2>1, <2>2 DEF Pop, IInv, TypeOK, PacketIncomplete, NothingRefused
<1>4. ASSUME NEW groups \in Filters, GroupFilter(groups) PROVE IInv'
  <2>1. groups \in SUBSET Group
    BY ClientAssumption
  <2>2. only_groups' \in (SUBSET Group) \ {{}}
    BY <1>4, <2>1, AllGroups DEF GroupFilter
  <2> QED
    BY <1>4, <2>2 DEF GroupFilter, IInv, TypeOK, PacketIncomplete, NothingRefused
<1>5. CASE Reset
  <2>1. TypeOK'
    BY <1>5, EmptyOutput, AllGroups DEF Reset, IInv, TypeOK
  <2> QED  BY <1>5, <2>1 DEF Reset, IInv, PacketIncomplete, NothingRefused
<1> QED  BY <1>1, <1>2, <1>3, <1>4, <1>5 DEF Next

THEOREM Invariance == Spec => []IInv
BY InitIInv, StepIInv, PTL DEF Spec

(* Every variable keeps its type, whatever words arrive: the dispatcher never    *)
(* writes past its four words, and only status bytes become running status.      *)
THEOREM TypeCorrect == Spec => []TypeOK
<1>1. IInv => TypeOK
  BY DEF IInv
<1> QED  BY <1>1, Invariance, PTL

(* A client that drains the translator after every push never loses a byte.      *)
THEOREM NothingIsRefused == Spec => []NothingRefused
<1>1. IInv => NothingRefused
  BY DEF IInv
<1> QED  BY <1>1, Invariance, PTL

-------------------------------------------------------------------------------
(* The reader of a byte stream.                                                  *)

Data == 0 .. 127
HeardMessage == [status : Byte, data : Seq(Data)]
Reader == [status : Byte, data : Seq(Data), messages : Seq(HeardMessage)]

LEMMA HeardType ==
  ASSUME NEW s \in Byte, NEW d \in Seq(Data)
  PROVE  <<Heard(s, d)>> \in Seq(HeardMessage)
BY DEF Heard, HeardMessage

LEMMA AfterType ==
  ASSUME NEW r \in Reader, NEW s \in Byte, NEW d \in Seq(Data), NEW m \in Seq(HeardMessage)
  PROVE  After(r, s, d, m) \in Reader
<1>1. r.messages \o m \in Seq(HeardMessage)
  BY ConcatProperties DEF Reader
<1> QED  BY <1>1 DEF After, Reader

LEMMA HearType ==
  ASSUME NEW r \in Reader, NEW b \in Byte
  PROVE  Hear(r, b) \in Reader
<1>1. r.status \in Byte /\ r.data \in Seq(Data) /\ r.messages \in Seq(HeardMessage)
  BY DEF Reader
<1>2. <<>> \in Seq(Data) /\ <<>> \in Seq(HeardMessage)
  BY EmptySeq
<1>3. SYSEX_START \in Byte
  BY DEF SYSEX_START, Byte
<1>4. CASE ~IsStatusByte(b)
  <2>1. b \in Data
    BY <1>4 DEF IsStatusByte, Byte, Data
  <2> DEFINE all == Append(r.data, b)
  <2>2. all \in Seq(Data)
    BY <1>1, <2>1, AppendProperties
  <2>3. <<Heard(r.status, all)>> \in Seq(HeardMessage)
    BY <1>1, <2>2, HeardType
  <2>4. Hear(r, b) \in {After(r, r.status, all, <<>>),
                        After(r, r.status, <<>>, <<Heard(r.status, all)>>), r}
    BY <1>4 DEF Hear, HearData
  <2> HIDE DEF all
  <2> QED  BY <1>1, <1>2, <2>2, <2>3, <2>4, AfterType
<1>5. CASE IsStatusByte(b) /\ IsSystemRealTime(b)
  <2>1. <<Heard(b, <<>>)>> \in Seq(HeardMessage)
    BY <1>2, HeardType
  <2>2. Hear(r, b) = After(r, r.status, r.data, <<Heard(b, <<>>)>>)
    BY <1>5 DEF Hear
  <2> QED  BY <1>1, <2>1, <2>2, AfterType
<1>6. CASE IsStatusByte(b) /\ ~IsSystemRealTime(b)
  <2> DEFINE cut == IF IsSysexOpen(r) THEN <<Heard(SYSEX_START, r.data)>> ELSE <<>>
             tune == IF b = TUNE_REQUEST THEN <<Heard(b, <<>>)>> ELSE <<>>
  <2>1. cut \in Seq(HeardMessage) /\ tune \in Seq(HeardMessage)
    BY <1>1, <1>2, <1>3, HeardType
  <2>2. Hear(r, b) = After(r, b, <<>>, cut \o tune)
    BY <1>6 DEF Hear, HearStatus
  <2> HIDE DEF cut, tune
  <2>3. cut \o tune \in Seq(HeardMessage)
    BY <2>1, ConcatProperties
  <2> QED  BY <1>2, <2>2, <2>3, AfterType
<1> QED  BY <1>4, <1>5, <1>6

\* What each byte does to a reader, and the states it goes through.
Hearings(bytes) == [i \in 1 .. Len(bytes) |-> [r \in Reader |-> Hear(r, bytes[i])]]

Hearing(r, bytes, h) ==
  /\ h \in [0 .. Len(bytes) -> Reader]
  /\ h[0] = r
  /\ \A i \in 1 .. Len(bytes) : h[i] = Hear(h[i - 1], bytes[i])

LEMMA HearingSteps ==
  ASSUME NEW bytes \in Seq(Byte)
  PROVE  /\ Len(bytes) \in Nat
         /\ Hearings(bytes) \in Steps(Reader, Len(bytes))
         /\ \A i \in 1 .. Len(bytes), r \in Reader :
              Hearings(bytes)[i][r] = Hear(r, bytes[i])
<1>1. Len(bytes) \in Nat /\ \A i \in 1 .. Len(bytes) : bytes[i] \in Byte
  BY LenProperties, ElementOfSeq
<1>2. \A i \in 1 .. Len(bytes), r \in Reader : Hear(r, bytes[i]) \in Reader
  BY <1>1, HearType
<1> QED  BY <1>1, <1>2 DEF Hearings, Steps

LEMMA PathIsHearing ==
  ASSUME NEW r, NEW bytes \in Seq(Byte), NEW h
  PROVE  Hearing(r, bytes, h) <=> Path(Reader, Len(bytes), r, Hearings(bytes), h)
<1>1. ASSUME h \in [0 .. Len(bytes) -> Reader], NEW i \in 1 .. Len(bytes)
      PROVE  Hearings(bytes)[i][h[i - 1]] = Hear(h[i - 1], bytes[i])
  <2>1. i - 1 \in 0 .. Len(bytes)
    BY HearingSteps
  <2>2. h[i - 1] \in Reader
    BY <1>1, <2>1
  <2> QED  BY <2>2, HearingSteps
<1> QED  BY <1>1 DEF Hearing, Path

\* HearAll takes the reader from state to state.
LEMMA HearAllSteps ==
  ASSUME NEW r \in Reader, NEW bytes \in Seq(Byte)
  PROVE  \E h : Hearing(r, bytes, h) /\ HearAll(r, bytes) = h[Len(bytes)]
<1> DEFINE n == Len(bytes)
           Rec(h) == h = [i \in 0 .. n |-> IF i = 0 THEN r ELSE Hear(h[i - 1], bytes[i])]
<1>1. n \in Nat
  BY HearingSteps
<1>2. PICK g : Hearing(r, bytes, g)
  BY HearingSteps, PathExists, PathIsHearing
<1>3. PICK h : h = (CHOOSE q : Rec(q)) /\ HearAll(r, bytes) = h[n]
  BY DEF HearAll
<1> HIDE DEF n
<1>4. Rec(g)
  <2> DEFINE G == [i \in 0 .. n |-> IF i = 0 THEN r ELSE Hear(g[i - 1], bytes[i])]
  <2>1. /\ g \in [0 .. n -> Reader] /\ g[0] = r
        /\ \A i \in 1 .. n : g[i] = Hear(g[i - 1], bytes[i])
    BY <1>2 DEF Hearing, n
  <2>2. \A i \in 0 .. n : g[i] = G[i]
    BY <1>1, <2>1
  <2>3. g = [i \in 0 .. n |-> g[i]]
    BY <2>1
  <2> QED  BY <2>2, <2>3
<1>5. Rec(h)
  <2> HIDE DEF Rec
  <2> QED  BY <1>3, <1>4
<1>6. h[0] = r /\ \A i \in 1 .. n : h[i] = Hear(h[i - 1], bytes[i])
  <2>1. h = [i \in 0 .. n |-> IF i = 0 THEN r ELSE Hear(h[i - 1], bytes[i])]
    BY <1>5
  <2> HIDE DEF Rec
  <2> QED  BY <1>1, <2>1
<1> HIDE DEF Rec
<1>7. \A i \in 0 .. n : h[i] = g[i]
  <2>1. \A i \in 1 .. n : h[i - 1] \in Reader => h[i] = Hearings(bytes)[i][h[i - 1]]
    BY <1>6, HearingSteps DEF n
  <2>2. Path(Reader, n, r, Hearings(bytes), g)
    BY <1>2, PathIsHearing DEF n
  <2> QED  BY <1>1, <1>6, <2>1, <2>2, PathUnique
<1>8. h[n] = g[n]
  BY <1>1, <1>7
<1> QED  BY <1>2, <1>3, <1>8 DEF n

LEMMA HearAllIs ==
  ASSUME NEW r \in Reader, NEW bytes \in Seq(Byte), NEW h, Hearing(r, bytes, h)
  PROVE  HearAll(r, bytes) = h[Len(bytes)]
<1>1. PICK g : Hearing(r, bytes, g) /\ HearAll(r, bytes) = g[Len(bytes)]
  BY HearAllSteps
<1>2. \A i \in 1 .. Len(bytes) : h[i - 1] \in Reader => h[i] = Hearings(bytes)[i][h[i - 1]]
  BY HearingSteps DEF Hearing
<1>3. \A i \in 0 .. Len(bytes) : h[i] = g[i]
  BY <1>1, <1>2, HearingSteps, PathIsHearing, PathUnique DEF Hearing
<1> QED  BY <1>1, <1>3, HearingSteps

LEMMA HearAllType ==
  ASSUME NEW r \in Reader, NEW bytes \in Seq(Byte)
  PROVE  HearAll(r, bytes) \in Reader
<1>1. PICK h : Hearing(r, bytes, h) /\ HearAll(r, bytes) = h[Len(bytes)]
  BY HearAllSteps
<1> QED  BY <1>1, HearingSteps DEF Hearing

LEMMA HearNothing ==
  ASSUME NEW r \in Reader
  PROVE  HearAll(r, <<>>) = r
<1>1. <<>> \in Seq(Byte) /\ Len(<<>>) = 0
  BY EmptySeq
<1>2. PICK h : Hearing(r, <<>>, h) /\ HearAll(r, <<>>) = h[Len(<<>>)]
  BY <1>1, HearAllSteps
<1> QED  BY <1>1, <1>2 DEF Hearing

LEMMA HearOne ==
  ASSUME NEW r \in Reader, NEW b \in Byte
  PROVE  HearAll(r, <<b>>) = Hear(r, b)
<1>1. <<b>> \in Seq(Byte) /\ Len(<<b>>) = 1 /\ <<b>>[1] = b
  OBVIOUS
<1>2. PICK h : Hearing(r, <<b>>, h) /\ HearAll(r, <<b>>) = h[Len(<<b>>)]
  BY <1>1, HearAllSteps
<1>3. h[0] = r /\ h[1] = Hear(h[1 - 1], <<b>>[1])
  BY <1>1, <1>2 DEF Hearing
<1> QED  BY <1>1, <1>2, <1>3

\* The bytes of s and then those of t.
LEMMA HearMore ==
  ASSUME NEW r \in Reader, NEW s \in Seq(Byte), NEW t \in Seq(Byte)
  PROVE  HearAll(r, s \o t) = HearAll(HearAll(r, s), t)
<1> DEFINE u == s \o t
           m == Len(s)
           n == Len(t)
<1>1. m \in Nat /\ n \in Nat
  BY LenProperties
<1>2. /\ u \in Seq(Byte) /\ Len(u) = m + n
      /\ \A i \in 1 .. m : u[i] = s[i]
      /\ \A i \in 1 .. n : u[m + i] = t[i]
  BY <1>1, ConcatProperties
<1> HIDE DEF u, m, n
<1>3. PICK h : Hearing(r, u, h) /\ HearAll(r, u) = h[Len(u)]
  BY <1>2, HearAllSteps
<1>4. /\ h \in [0 .. m + n -> Reader] /\ h[0] = r
      /\ \A i \in 1 .. m + n : h[i] = Hear(h[i - 1], u[i])
  BY <1>2, <1>3 DEF Hearing
<1> DEFINE g == [i \in 0 .. m |-> h[i]]
           k == [i \in 0 .. n |-> h[m + i]]
<1>5. Hearing(r, s, g)
  <2>1. g \in [0 .. m -> Reader] /\ g[0] = r
    BY <1>1, <1>4
  <2>2. ASSUME NEW i \in 1 .. m
        PROVE  g[i] = Hear(g[i - 1], s[i])
    <3>1. i \in 1 .. m + n /\ i \in 0 .. m /\ i - 1 \in 0 .. m
      BY <1>1
    <3>2. g[i] = h[i] /\ g[i - 1] = h[i - 1]
      BY <3>1
    <3> HIDE DEF g
    <3> QED  BY <1>2, <1>4, <3>1, <3>2
  <2> HIDE DEF g
  <2> QED  BY <2>1, <2>2 DEF Hearing, m
<1>6. g[m] = h[m] /\ k[0] = h[m] /\ k[n] = h[m + n]
  BY <1>1
<1>7. Hearing(h[m], t, k)
  <2>1. k \in [0 .. n -> Reader]
    BY <1>1, <1>4
  <2>2. ASSUME NEW i \in 1 .. n
        PROVE  k[i] = Hear(k[i - 1], t[i])
    <3>1. /\ i \in 0 .. n /\ i - 1 \in 0 .. n /\ m + i \in 1 .. m + n
          /\ m + (i - 1) = (m + i) - 1
      BY <1>1
    <3>2. k[i] = h[m + i] /\ k[i - 1] = h[(m + i) - 1]
      BY <3>1
    <3> HIDE DEF k
    <3> QED  BY <1>2, <1>4, <3>1, <3>2
  <2> HIDE DEF k
  <2> QED  BY <1>6, <2>1, <2>2 DEF Hearing, n
<1> HIDE DEF g, k
<1>8. HearAll(r, s) = h[m]
  BY <1>5, <1>6, HearAllIs DEF m
<1>9. h[m] \in Reader
  BY <1>1, <1>4
<1>10. HearAll(h[m], t) = h[m + n]
  BY <1>6, <1>7, <1>9, HearAllIs DEF n
<1> QED  BY <1>2, <1>3, <1>8, <1>10 DEF u

LEMMA DataByte == \A b \in Data : ~IsStatusByte(b)
BY DEF Data, IsStatusByte

\* A reader that has some more messages before those of r.
Preceded(m, r) == [status |-> r.status, data |-> r.data, messages |-> m \o r.messages]

LEMMA PrecededType ==
  ASSUME NEW r \in Reader, NEW m \in Seq(HeardMessage)
  PROVE  Preceded(m, r) \in Reader
<1>1. m \o r.messages \in Seq(HeardMessage)
  BY ConcatProperties DEF Reader
<1> QED  BY <1>1 DEF Preceded, Reader

\* What a reader makes of a byte does not depend on the messages it has read.
LEMMA HearPreceded ==
  ASSUME NEW r \in Reader, NEW b \in Byte, NEW m \in Seq(HeardMessage)
  PROVE  Hear(Preceded(m, r), b) = Preceded(m, Hear(r, b))
<1> DEFINE p == Preceded(m, r)
<1>1. r.status \in Byte /\ r.data \in Seq(Data) /\ r.messages \in Seq(HeardMessage)
  BY DEF Reader
<1>2. p.status = r.status /\ p.data = r.data /\ p.messages = m \o r.messages
  BY DEF Preceded
<1>3. ASSUME NEW s, NEW d, NEW c \in Seq(HeardMessage)
      PROVE  After(p, s, d, c) = Preceded(m, After(r, s, d, c))
  <2>1. (m \o r.messages) \o c = m \o (r.messages \o c)
    <3> DEFINE x == r.messages
    <3>1. x \in Seq(HeardMessage)
      BY <1>1
    <3> HIDE DEF x
    <3>2. (m \o x) \o c = m \o (x \o c)
      BY <3>1, ConcatAssociative
    <3> QED  BY <3>2 DEF x
  <2> HIDE DEF p
  <2> QED  BY <1>2, <2>1 DEF After, Preceded
<1> HIDE DEF p
<1>4. IsSysexOpen(p) <=> IsSysexOpen(r)
  BY <1>2 DEF IsSysexOpen
<1>5. <<>> \in Seq(Data) /\ <<>> \in Seq(HeardMessage) /\ SYSEX_START \in Byte
  BY EmptySeq DEF SYSEX_START, Byte
<1>6. CASE ~IsStatusByte(b)
  <2>1. b \in Data
    BY <1>6 DEF IsStatusByte, Byte, Data
  <2> DEFINE all == Append(r.data, b)
  <2>2. <<Heard(r.status, all)>> \in Seq(HeardMessage)
    BY <1>1, <2>1, HeardType, AppendProperties
  <2>3. Append(p.data, b) = all
    BY <1>2
  <2> HIDE DEF all
  <2>4. CASE IsSysexOpen(r) \/ Len(all) < Needs(r.status)
    <3>1. /\ Hear(r, b) = After(r, r.status, all, <<>>)
          /\ Hear(p, b) = After(p, r.status, all, <<>>)
      BY <1>2, <1>4, <1>6, <2>3, <2>4 DEF Hear, HearData, all
    <3> QED  BY <1>3, <1>5, <3>1 DEF p
  <2>5. CASE ~(IsSysexOpen(r) \/ Len(all) < Needs(r.status)) /\ Len(all) = Needs(r.status)
    <3>1. /\ Hear(r, b) = After(r, r.status, <<>>, <<Heard(r.status, all)>>)
          /\ Hear(p, b) = After(p, r.status, <<>>, <<Heard(r.status, all)>>)
      BY <1>2, <1>4, <1>6, <2>3, <2>5 DEF Hear, HearData, all
    <3> QED  BY <1>3, <2>2, <3>1 DEF p
  <2>6. CASE ~(IsSysexOpen(r) \/ Len(all) < Needs(r.status)) /\ Len(all) # Needs(r.status)
    <3>1. Hear(r, b) = r /\ Hear(p, b) = p
      BY <1>2, <1>4, <1>6, <2>3, <2>6 DEF Hear, HearData, all
    <3> QED  BY <3>1 DEF p
  <2> QED  BY <2>4, <2>5, <2>6
<1>7. CASE IsStatusByte(b) /\ IsSystemRealTime(b)
  <2>1. <<Heard(b, <<>>)>> \in Seq(HeardMessage)
    BY <1>5, HeardType
  <2>2. /\ Hear(r, b) = After(r, r.status, r.data, <<Heard(b, <<>>)>>)
        /\ Hear(p, b) = After(p, r.status, r.data, <<Heard(b, <<>>)>>)
    BY <1>2, <1>7 DEF Hear
  <2> QED  BY <1>3, <2>1, <2>2 DEF p
<1>8. CASE IsStatusByte(b) /\ ~IsSystemRealTime(b)
  <2> DEFINE cut == IF IsSysexOpen(r) THEN <<Heard(SYSEX_START, r.data)>> ELSE <<>>
             tune == IF b = TUNE_REQUEST THEN <<Heard(b, <<>>)>> ELSE <<>>
  <2>1. cut \in Seq(HeardMessage) /\ tune \in Seq(HeardMessage)
    BY <1>1, <1>5, HeardType
  <2>2. Hear(r, b) = After(r, b, <<>>, cut \o tune)
    BY <1>8 DEF Hear, HearStatus
  <2>3. Hear(p, b) = After(p, b, <<>>, cut \o tune)
    BY <1>2, <1>4, <1>8 DEF Hear, HearStatus
  <2> HIDE DEF cut, tune
  <2>4. cut \o tune \in Seq(HeardMessage)
    BY <2>1, ConcatProperties
  <2> QED  BY <1>3, <2>2, <2>3, <2>4 DEF p
<1> QED  BY <1>6, <1>7, <1>8 DEF p

LEMMA HearAllPreceded ==
  ASSUME NEW r \in Reader, NEW bytes \in Seq(Byte), NEW m \in Seq(HeardMessage)
  PROVE  HearAll(Preceded(m, r), bytes) = Preceded(m, HearAll(r, bytes))
<1> DEFINE n == Len(bytes)
<1>1. n \in Nat /\ \A i \in 1 .. n : bytes[i] \in Byte
  BY LenProperties, ElementOfSeq
<1>2. PICK h : Hearing(r, bytes, h) /\ HearAll(r, bytes) = h[n]
  BY HearAllSteps
<1> DEFINE g == [i \in 0 .. n |-> Preceded(m, h[i])]
<1>3. /\ h \in [0 .. n -> Reader] /\ h[0] = r
      /\ \A i \in 1 .. n : h[i] = Hear(h[i - 1], bytes[i])
  BY <1>2 DEF Hearing
<1> HIDE DEF n
<1>4. g \in [0 .. n -> Reader] /\ g[0] = Preceded(m, r) /\ g[n] = Preceded(m, h[n])
  BY <1>1, <1>3, PrecededType
<1>5. ASSUME NEW i \in 1 .. n
      PROVE  g[i] = Hear(g[i - 1], bytes[i])
  <2>1. i \in 0 .. n /\ i - 1 \in 0 .. n
    BY <1>1
  <2>2. g[i] = Preceded(m, h[i]) /\ g[i - 1] = Preceded(m, h[i - 1])
    BY <2>1
  <2> HIDE DEF g
  <2>3. h[i - 1] \in Reader /\ bytes[i] \in Byte
    BY <1>1, <1>3, <2>1
  <2> QED  BY <1>3, <2>2, <2>3, HearPreceded
<1> HIDE DEF g
<1>6. Hearing(Preceded(m, r), bytes, g)
  BY <1>4, <1>5 DEF Hearing, n
<1> QED  BY <1>2, <1>4, <1>6, PrecededType, HearAllIs DEF n

LEMMA SubSeqStep ==
  ASSUME NEW S, NEW s \in Seq(S), NEW t \in Seq(S), NEW i \in 1 .. Len(t)
  PROVE  Append(s \o SubSeq(t, 1, i - 1), t[i]) = s \o SubSeq(t, 1, i)
<1>1. Len(t) \in Nat /\ \A j \in 1 .. Len(t) : t[j] \in S
  BY LenProperties, ElementOfSeq
<1>2. SubSeq(t, 1, i - 1) \in Seq(S) /\ t[i] \in S
  BY <1>1, SubSeqProperties
<1>3. SubSeq(t, 1, i) = SubSeq(t, 1, i - 1) \o <<t[i]>>
  BY <1>1, SubSeqRecursiveSecond
<1>4. <<t[i]>> \in Seq(S)
  BY <1>2
<1>5. s \o SubSeq(t, 1, i - 1) \in Seq(S)
  BY <1>2, ConcatProperties
<1>6. Append(s \o SubSeq(t, 1, i - 1), t[i]) = (s \o SubSeq(t, 1, i - 1)) \o <<t[i]>>
  BY <1>2, <1>5, AppendIsConcat
<1>7. (s \o SubSeq(t, 1, i - 1)) \o <<t[i]>> = s \o (SubSeq(t, 1, i - 1) \o <<t[i]>>)
  <2> DEFINE x == SubSeq(t, 1, i - 1)
             y == <<t[i]>>
  <2>1. x \in Seq(S) /\ y \in Seq(S)
    BY <1>2, <1>4
  <2> HIDE DEF x, y
  <2>2. (s \o x) \o y = s \o (x \o y)
    BY <2>1, ConcatAssociative
  <2> QED  BY <2>2 DEF x, y
<1> QED  BY <1>3, <1>6, <1>7

\* Data bytes are collected while a system exclusive message is open.
LEMMA HearSysexData ==
  ASSUME NEW r \in Reader, IsSysexOpen(r), NEW d \in Seq(Data)
  PROVE  HearAll(r, d) = After(r, r.status, r.data \o d, <<>>)
<1> DEFINE n == Len(d)
           h == [i \in 0 .. n |-> After(r, r.status, r.data \o SubSeq(d, 1, i), <<>>)]
<1>1. r.status \in Byte /\ r.data \in Seq(Data) /\ r.messages \in Seq(HeardMessage)
  BY DEF Reader
<1>2. n \in Nat /\ \A i \in 1 .. n : d[i] \in Data
  BY LenProperties, ElementOfSeq
<1>3. d \in Seq(Byte)
  BY SeqMonotonic DEF Data, Byte
<1>4. <<>> \in Seq(HeardMessage) /\ r.messages \o <<>> = r.messages
  BY <1>1, EmptySeq, ConcatEmptySeq
<1>5. \A i \in 0 .. n : r.data \o SubSeq(d, 1, i) \in Seq(Data)
  <2>1. \A i \in 0 .. n : SubSeq(d, 1, i) \in Seq(Data)
    BY <1>2, SubSeqProperties
  <2> QED  BY <1>1, <2>1, ConcatProperties
<1> HIDE DEF n
<1>6. h \in [0 .. n -> Reader]
  BY <1>1, <1>4, <1>5, AfterType
<1>7. h[0] = r
  <2>1. SubSeq(d, 1, 0) = <<>> /\ r.data \o <<>> = r.data
    BY <1>1, SubSeqEmpty, ConcatEmptySeq
  <2>2. 0 \in 0 .. n
    BY <1>2
  <2>3. h[0] = After(r, r.status, r.data \o SubSeq(d, 1, 0), <<>>)
    BY <2>2
  <2> HIDE DEF h
  <2> QED  BY <1>4, <2>1, <2>3 DEF After, Reader
<1>8. ASSUME NEW i \in 1 .. n
      PROVE  h[i] = Hear(h[i - 1], d[i])
  <2> DEFINE s == r.data \o SubSeq(d, 1, i - 1)
             q == After(r, r.status, s, <<>>)
  <2>1. i \in 0 .. n /\ i - 1 \in 0 .. n
    BY <1>2
  <2>2. h[i - 1] = q /\ h[i] = After(r, r.status, r.data \o SubSeq(d, 1, i), <<>>)
    BY <2>1
  <2>3. Append(s, d[i]) = r.data \o SubSeq(d, 1, i)
    BY <1>1, SubSeqStep DEF n
  <2> HIDE DEF h, s
  <2>4. q.status = r.status /\ q.data = s /\ q.messages = r.messages
    BY <1>4 DEF After
  <2> HIDE DEF q
  <2>5. IsSysexOpen(q) /\ ~IsStatusByte(d[i])
    <3>1. IsSysexOpen(q)
      BY <2>4 DEF IsSysexOpen
    <3>2. d[i] \in 0 .. 127
      BY <1>2 DEF Data
    <3>3. ~IsStatusByte(d[i])
      BY <1>2, DataByte
    <3> QED  BY <3>1, <3>3
  <2>6. Hear(q, d[i]) = After(q, q.status, Append(q.data, d[i]), <<>>)
    BY <2>5 DEF Hear, HearData
  <2> QED  BY <2>2, <2>3, <2>4, <2>6 DEF After
<1>9. h[n] = After(r, r.status, r.data \o d, <<>>)
  <2>1. SubSeq(d, 1, n) = d
    BY SubSeqFull DEF n
  <2>2. n \in 0 .. n
    BY <1>2
  <2>3. h[n] = After(r, r.status, r.data \o SubSeq(d, 1, n), <<>>)
    BY <2>2
  <2> HIDE DEF h
  <2> QED  BY <2>1, <2>3
<1> HIDE DEF h
<1>10. Hearing(r, d, h)
  BY <1>6, <1>7, <1>8 DEF Hearing, n
<1> QED  BY <1>3, <1>9, <1>10, HearAllIs DEF n

-------------------------------------------------------------------------------
(* What the bytes of a packet are to a reader.                                   *)

\* The data bytes of one message complete it.
LEMMA HearShortData ==
  ASSUME NEW r \in Reader, ~IsSysexOpen(r), r.data = <<>>,
         NEW d \in Seq(Data), Len(d) = Needs(r.status), Needs(r.status) # 0
  PROVE  HearAll(r, d) = After(r, r.status, <<>>, <<Heard(r.status, d)>>)
<1>1. Needs(r.status) \in 1 .. 2
  BY DEF Needs
<1>2. \A i \in 1 .. Len(d) : d[i] \in Data /\ d[i] \in Byte
  BY LenProperties, ElementOfSeq DEF Data, Byte
<1>3. r.messages \in Seq(HeardMessage) /\ r.status \in Byte
  BY DEF Reader
<1>4. CASE Needs(r.status) = 1
  <2>1. Len(d) = 1 /\ d[1] \in Data /\ d[1] \in Byte
    BY <1>2, <1>4
  <2>2. d = <<d[1]>> /\ Append(r.data, d[1]) = <<d[1]>>
    BY <2>1
  <2>3. ~IsStatusByte(d[1])
    BY <2>1, DataByte
  <2>4. HearAll(r, d) = Hear(r, d[1])
    BY <2>1, <2>2, HearOne
  <2>5. ~(Len(<<d[1]>>) < 1) /\ Len(<<d[1]>>) = 1
    OBVIOUS
  <2>6. HearData(r, d[1]) = After(r, r.status, <<>>, <<Heard(r.status, <<d[1]>>)>>)
    BY <1>4, <2>2, <2>5 DEF HearData
  <2> QED  BY <2>2, <2>3, <2>4, <2>6 DEF Hear
<1>5. CASE Needs(r.status) = 2
  <2>1. Len(d) = 2 /\ d[1] \in Data /\ d[1] \in Byte /\ d[2] \in Data /\ d[2] \in Byte
    BY <1>2, <1>5
  <2> DEFINE x == d[1]
             y == d[2]
             q == After(r, r.status, <<x>>, <<>>)
  <2>2. d = <<x>> \o <<y>> /\ <<x, y>> = d
    BY <2>1
  <2>3. ~IsStatusByte(x) /\ ~IsStatusByte(y)
    BY <2>1, DataByte
  <2>4. <<x>> \in Seq(Byte) /\ <<y>> \in Seq(Byte) /\ <<x>> \in Seq(Data)
    BY <2>1
  <2>5. HearAll(r, <<x>>) = Hear(r, x)
    BY <2>1, HearOne
  <2>6. Append(r.data, x) = <<x>> /\ Len(<<x>>) < 2
    BY <2>1
  <2>7. HearData(r, x) = q
    BY <1>5, <2>6 DEF HearData
  <2>8. q \in Reader
    BY <1>3, <2>4, AfterType, EmptySeq
  <2>9. /\ q.status = r.status /\ q.data = <<x>>
        /\ q.messages = r.messages
    BY <1>3, ConcatEmptySeq DEF After
  <2>10. Append(q.data, y) = <<x, y>> /\ Len(<<x, y>>) = 2
    <3>1. x \in Data /\ y \in Data
      BY <2>1
    <3> HIDE DEF q, x, y
    <3>2. /\ <<x>> \in Seq(Data) /\ Len(<<x>>) = 1
          /\ <<x, y>> \in Seq(Data) /\ Len(<<x, y>>) = 2
      BY <3>1
    <3> DEFINE s == <<x>>
               t == Append(s, y)
    <3>3. t \in Seq(Data) /\ Len(t) = 2 /\ t[1] = x /\ t[2] = y
      BY <3>1, <3>2, AppendProperties
    <3>4. Len(<<x, y>>) = 2 /\ <<x, y>>[1] = x /\ <<x, y>>[2] = y
      OBVIOUS
    <3> HIDE DEF t
    <3>5. t = <<x, y>>
      BY <3>2, <3>3, <3>4, SeqEqual
    <3> QED  BY <2>9, <3>2, <3>5 DEF t
  <2> HIDE DEF q
  <2>11. HearAll(r, <<x>>) = q
    BY <2>3, <2>5, <2>7 DEF Hear
  <2>12. HearAll(q, <<y>>) = Hear(q, y)
    BY <2>1, <2>8, HearOne
  <2>13. ~IsSysexOpen(q)
    BY <2>9 DEF IsSysexOpen
  <2>14. ~(Len(<<x, y>>) < 2)
    OBVIOUS
  <2> HIDE DEF x, y
  <2>15. HearData(q, y) = After(q, q.status, <<>>, <<Heard(q.status, <<x, y>>)>>)
    BY <1>5, <2>9, <2>10, <2>13, <2>14 DEF HearData
  <2>16. Hear(q, y) = After(r, r.status, <<>>, <<Heard(r.status, <<x, y>>)>>)
    BY <2>3, <2>9, <2>15 DEF Hear, After
  <2>17. HearAll(r, <<x>> \o <<y>>) = HearAll(HearAll(r, <<x>>), <<y>>)
    BY <2>4, HearMore
  <2> QED  BY <2>2, <2>11, <2>12, <2>16, <2>17
<1> QED  BY <1>1, <1>4, <1>5

\* The status of a message that is not real-time or system exclusive.
ShortStatuses ==
  NOTE_OFF .. PITCH_BEND + 15 \union {TIMING_CODE, SPP, SONG_SELECT, TUNE_REQUEST}

Closed(r) == ~IsSysexOpen(r) => r.data = <<>>

Interrupted(r) == IF IsSysexOpen(r) THEN <<Heard(SYSEX_START, r.data)>> ELSE <<>>

LEMMA InterruptedType ==
  ASSUME NEW r \in Reader
  PROVE  Interrupted(r) \in Seq(HeardMessage)
<1>1. r.data \in Seq(Data) /\ SYSEX_START \in Byte
  BY DEF Reader, SYSEX_START, Byte
<1> QED  BY <1>1, HeardType, EmptySeq DEF Interrupted

LEMMA ShortStatusFacts ==
  ASSUME NEW s \in ShortStatuses
  PROVE  /\ s \in Byte /\ IsStatusByte(s) /\ ~IsSystemRealTime(s) /\ s # SYSEX_START
         /\ Needs(s) = DataLength(s)
         /\ Needs(s) = 0 <=> s = TUNE_REQUEST
BY DEF ShortStatuses, Byte, IsStatusByte, IsSystemRealTime, SYSEX_START, Needs,
       DataLength, IsOneByteMessage, TUNE_REQUEST, NOTE_OFF, PITCH_BEND,
       TIMING_CODE, SPP, SONG_SELECT, PROGRAM_CHANGE, CHANNEL_PRESSURE,
       TIMING_CLOCK, SEQUENCE_START, SEQUENCE_CONTINUE, SEQUENCE_STOP,
       ACTIVE_SENSING, SYSTEM_RESET

LEMMA HearNewStatus ==
  ASSUME NEW r \in Reader, NEW s \in Byte, IsStatusByte(s), ~IsSystemRealTime(s),
         s # TUNE_REQUEST
  PROVE  HearAll(r, <<s>>) = After(r, s, <<>>, Interrupted(r))
<1>1. Interrupted(r) \o <<>> = Interrupted(r)
  BY InterruptedType, ConcatEmptySeq
<1> QED  BY <1>1, HearOne DEF Hear, HearStatus, Interrupted

LEMMA HearTuneRequest ==
  ASSUME NEW r \in Reader
  PROVE  HearAll(r, <<TUNE_REQUEST>>)
           = After(r, TUNE_REQUEST, <<>>, Interrupted(r) \o <<Heard(TUNE_REQUEST, <<>>)>>)
<1>1. TUNE_REQUEST \in Byte /\ IsStatusByte(TUNE_REQUEST) /\ ~IsSystemRealTime(TUNE_REQUEST)
  BY DEF TUNE_REQUEST, Byte, IsStatusByte, IsSystemRealTime, TIMING_CLOCK, SEQUENCE_START,
       SEQUENCE_CONTINUE, SEQUENCE_STOP, ACTIVE_SENSING, SYSTEM_RESET
<1> QED  BY <1>1, HearOne DEF Hear, HearStatus, Interrupted

\* A short message: its status, unless it is the running status, and its data.
LEMMA HearShort ==
  ASSUME NEW r \in Reader, r.messages = <<>>, Closed(r), NEW s \in ShortStatuses,
         NEW d \in Seq(Data), Len(d) = Needs(s), ~(s = TUNE_REQUEST /\ r.status = s),
         NEW bytes, bytes = (IF r.status = s THEN <<>> ELSE <<s>>) \o d
  PROVE  HearAll(r, bytes) = After(r, s, <<>>, Interrupted(r) \o <<Heard(s, d)>>)
<1>1. /\ s \in Byte /\ IsStatusByte(s) /\ ~IsSystemRealTime(s) /\ s # SYSEX_START
      /\ Needs(s) = 0 <=> s = TUNE_REQUEST
  BY ShortStatusFacts
<1>2. d \in Seq(Byte)
  BY SeqMonotonic DEF Data, Byte
<1>3. r.status \in Byte /\ r.data \in Seq(Data) /\ r.messages \in Seq(HeardMessage)
  BY DEF Reader
<1>4. Interrupted(r) \in Seq(HeardMessage)
  BY InterruptedType
<1>5. <<Heard(s, d)>> \in Seq(HeardMessage)
  BY <1>1, HeardType
<1>6. CASE r.status = s
  <2>1. ~IsSysexOpen(r) /\ r.data = <<>> /\ Interrupted(r) = <<>> /\ Needs(s) # 0
    BY <1>1, <1>6 DEF Closed, IsSysexOpen, Interrupted
  <2>2. bytes = d
    BY <1>2, <1>6, ConcatEmptySeq
  <2>3. HearAll(r, d) = After(r, s, <<>>, <<Heard(s, d)>>)
    BY <1>6, <2>1, HearShortData
  <2>4. <<>> \o <<Heard(s, d)>> = <<Heard(s, d)>>
    BY <1>5, ConcatEmptySeq
  <2> QED  BY <2>1, <2>2, <2>3, <2>4
<1>7. CASE r.status # s /\ s = TUNE_REQUEST
  <2>1. d = <<>>
    BY <1>1, <1>7, EmptySeq
  <2>2. bytes = <<TUNE_REQUEST>>
    BY <1>7, <2>1
  <2> QED  BY <1>7, <2>1, <2>2, HearTuneRequest
<1>8. CASE r.status # s /\ s # TUNE_REQUEST
  <2> DEFINE q == After(r, s, <<>>, Interrupted(r))
  <2>1. HearAll(r, <<s>>) = q
    BY <1>1, <1>8, HearNewStatus
  <2>2. q \in Reader
    BY <1>1, <1>4, AfterType, EmptySeq
  <2>3. q.status = s /\ q.data = <<>> /\ q.messages = r.messages \o Interrupted(r)
    BY DEF After
  <2> HIDE DEF q
  <2>4. HearAll(q, d) = After(q, s, <<>>, <<Heard(s, d)>>)
    BY <1>1, <1>8, <2>2, <2>3, HearShortData DEF IsSysexOpen
  <2>5. <<s>> \in Seq(Byte)
    BY <1>1
  <2>6. bytes = <<s>> \o d
    BY <1>8
  <2>7. HearAll(r, bytes) = HearAll(q, d)
    BY <1>2, <2>1, <2>5, <2>6, HearMore
  <2> DEFINE i == Interrupted(r)
             c == <<Heard(s, d)>>
  <2>8. i \in Seq(HeardMessage) /\ c \in Seq(HeardMessage)
    BY <1>4, <1>5
  <2> HIDE DEF i, c
  <2>9. /\ i \o c \in Seq(HeardMessage)
        /\ <<>> \o i = i /\ <<>> \o (i \o c) = i \o c
    BY <2>8, ConcatProperties, ConcatEmptySeq
  <2>10. After(q, s, <<>>, c) = After(r, s, <<>>, i \o c)
    BY <2>3, <2>9 DEF After, i
  <2> QED  BY <2>4, <2>7, <2>10 DEF i, c
<1> QED  BY <1>6, <1>7, <1>8

\* The start of a system exclusive message, or more of one that is open.
LEMMA HearStart ==
  ASSUME NEW r \in Reader, r.messages = <<>>, Closed(r), NEW d \in Seq(Data),
         NEW bytes, bytes = (IF r.status = SYSEX_START THEN <<>> ELSE <<SYSEX_START>>) \o d
  PROVE  HearAll(r, bytes) = After(r, SYSEX_START, r.data \o d, <<>>)
<1>1. /\ SYSEX_START \in Byte /\ IsStatusByte(SYSEX_START)
      /\ ~IsSystemRealTime(SYSEX_START) /\ SYSEX_START # TUNE_REQUEST
  BY DEF SYSEX_START, TUNE_REQUEST, Byte, IsStatusByte, IsSystemRealTime, TIMING_CLOCK,
       SEQUENCE_START, SEQUENCE_CONTINUE, SEQUENCE_STOP, ACTIVE_SENSING, SYSTEM_RESET
<1>2. d \in Seq(Byte)
  BY SeqMonotonic DEF Data, Byte
<1>3. CASE r.status = SYSEX_START
  <2>1. bytes = d
    BY <1>2, <1>3, ConcatEmptySeq
  <2> QED  BY <1>3, <2>1, HearSysexData DEF IsSysexOpen
<1>4. CASE r.status # SYSEX_START
  <2>1. Interrupted(r) = <<>> /\ r.data = <<>>
    BY <1>4 DEF Interrupted, IsSysexOpen, Closed
  <2> DEFINE q == After(r, SYSEX_START, <<>>, <<>>)
  <2>2. HearAll(r, <<SYSEX_START>>) = q
    BY <1>1, <2>1, HearNewStatus
  <2>3. q \in Reader
    BY <1>1, AfterType, EmptySeq
  <2>4. q.status = SYSEX_START /\ q.data = <<>> /\ q.messages = <<>> \o <<>>
    BY DEF After
  <2> HIDE DEF q
  <2>5. <<>> \o d = d
    BY ConcatEmptySeq
  <2>6. HearAll(q, d) = After(q, SYSEX_START, d, <<>>)
    BY <2>3, <2>4, <2>5, HearSysexData DEF IsSysexOpen
  <2>7. <<SYSEX_START>> \in Seq(Byte)
    BY <1>1
  <2>8. HearAll(r, bytes) = HearAll(q, d)
    BY <1>2, <1>4, <2>2, <2>7, HearMore
  <2>9. <<>> \o <<>> = <<>>
    BY EmptySeq, ConcatEmptySeq
  <2> QED  BY <2>1, <2>4, <2>5, <2>6, <2>8, <2>9 DEF After
<1> QED  BY <1>3, <1>4

\* The end of a system exclusive message.
LEMMA HearEnd ==
  ASSUME NEW r \in Reader, r.messages = <<>>, IsSysexOpen(r), NEW d \in Seq(Data),
         NEW bytes, bytes = d \o <<SYSEX_STOP>>
  PROVE  HearAll(r, bytes) = After(r, SYSEX_STOP, <<>>, <<Heard(SYSEX_START, r.data \o d)>>)
<1>1. /\ SYSEX_STOP \in Byte /\ IsStatusByte(SYSEX_STOP)
      /\ ~IsSystemRealTime(SYSEX_STOP) /\ SYSEX_STOP # TUNE_REQUEST
  BY DEF SYSEX_STOP, TUNE_REQUEST, Byte, IsStatusByte, IsSystemRealTime, TIMING_CLOCK,
       SEQUENCE_START, SEQUENCE_CONTINUE, SEQUENCE_STOP, ACTIVE_SENSING, SYSTEM_RESET
<1>2. d \in Seq(Byte) /\ <<SYSEX_STOP>> \in Seq(Byte)
  BY <1>1, SeqMonotonic DEF Data, Byte
<1>3. r.status \in Byte /\ r.data \in Seq(Data) /\ r.messages \in Seq(HeardMessage)
  BY DEF Reader
<1> DEFINE q == After(r, r.status, r.data \o d, <<>>)
<1>4. HearAll(r, d) = q
  BY HearSysexData
<1>5. r.data \o d \in Seq(Data)
  BY <1>3, ConcatProperties
<1>6. q \in Reader
  BY <1>3, <1>5, AfterType, EmptySeq
<1>7. q.status = r.status /\ q.data = r.data \o d /\ q.messages = <<>>
  BY <1>3, ConcatEmptySeq DEF After
<1> HIDE DEF q
<1>8. Interrupted(q) = <<Heard(SYSEX_START, r.data \o d)>>
  BY <1>7 DEF Interrupted, IsSysexOpen
<1>9. HearAll(q, <<SYSEX_STOP>>) = After(q, SYSEX_STOP, <<>>, Interrupted(q))
  BY <1>1, <1>6, HearNewStatus
<1>10. HearAll(r, bytes) = HearAll(q, <<SYSEX_STOP>>)
  BY <1>2, <1>4, HearMore
<1> QED  BY <1>7, <1>8, <1>9, <1>10 DEF After

-------------------------------------------------------------------------------
(* Packets.                                                                      *)

\* Seven bits of each of the first n bytes.
LEMMA SevenBitsPrefix ==
  ASSUME NEW s \in Seq(Byte), NEW n \in 0 .. Len(s)
  PROVE  /\ SevenBits(SubSeq(s, 1, n)) = SubSeq(SevenBits(s), 1, n)
         /\ SevenBits(SubSeq(s, 1, n)) \in Seq(Data)
         /\ Len(SevenBits(SubSeq(s, 1, n))) = n
<1>1. Len(s) \in Nat /\ n \in Nat /\ \A i \in 1 .. Len(s) : s[i] \in Byte
  BY LenProperties, ElementOfSeq
<1>2. \A b \in Byte : b % 128 \in Data
  BY DEF Byte, Data
<1> DEFINE p == SubSeq(s, 1, n)
           t == SevenBits(s)
<1>3. p \in Seq(Byte) /\ Len(p) = n /\ \A i \in 1 .. n : p[i] = s[i]
  BY <1>1, SubSeqProperties
<1>4. t \in Seq(Data) /\ Len(t) = Len(s) /\ \A i \in 1 .. Len(s) : t[i] = s[i] % 128
  <2>1. \A i \in 1 .. Len(s) : s[i] % 128 \in Data
    BY <1>1, <1>2
  <2>2. t = [i \in 1 .. Len(s) |-> s[i] % 128]
    BY DEF SevenBits
  <2> HIDE DEF t
  <2>3. t \in Seq(Data) /\ Len(t) = Len(s)
    BY <1>1, <2>1, <2>2, IsASeq
  <2> QED  BY <2>2, <2>3
<1> HIDE DEF p, t
<1> DEFINE q == SevenBits(p)
           u == SubSeq(t, 1, n)
<1>5. q \in Seq(Data) /\ Len(q) = n /\ \A i \in 1 .. n : q[i] = p[i] % 128
  <2>1. \A i \in 1 .. n : p[i] % 128 \in Data
    BY <1>1, <1>2, <1>3
  <2>2. q = [i \in 1 .. n |-> p[i] % 128]
    BY <1>3 DEF SevenBits
  <2> HIDE DEF q
  <2>3. q \in Seq(Data) /\ Len(q) = n
    BY <1>1, <2>1, <2>2, IsASeq
  <2> QED  BY <2>2, <2>3
<1>6. u \in Seq(Data) /\ Len(u) = n /\ \A i \in 1 .. n : u[i] = t[i]
  <2>1. \A i \in 1 .. n : t[i] \in Data
    BY <1>1, <1>4, ElementOfSeq
  <2> QED  BY <1>1, <1>4, <2>1, SubSeqProperties
<1> HIDE DEF q, u
<1>7. \A i \in 1 .. n : q[i] = u[i]
  BY <1>1, <1>3, <1>4, <1>5, <1>6
<1>8. q = u
  BY <1>5, <1>6, <1>7, SeqEqual
<1> QED  BY <1>5, <1>8 DEF p, q, t, u

\* The translator's data bytes are those the packet has.
LEMMA ShortPayloadIs ==
  ASSUME NEW w \in Word, w[2] \in ShortStatuses
  PROVE  /\ ShortPayload(w) = ShortData(w)
         /\ ShortData(w) \in Seq(Data)
         /\ Len(ShortData(w)) = Needs(w[2])
<1> DEFINE s == <<w[3], w[4]>>
           n == Needs(w[2])
<1>1. s \in Seq(Byte) /\ Len(s) = 2
  BY FirstWord
<1>2. n \in 0 .. 2 /\ DataLength(w[2]) = n
  BY ShortStatusFacts DEF Needs
<1>3. SevenBits(s) = <<Bits7(w[3]), Bits7(w[4])>>
  BY DEF SevenBits, Bits7
<1>4. /\ ShortData(w) = SubSeq(SevenBits(s), 1, n)
      /\ ShortPayload(w) = SevenBits(SubSeq(s, 1, n))
  BY <1>2, <1>3 DEF ShortData, ShortPayload
<1> HIDE DEF s, n
<1>5. n \in 0 .. Len(s)
  BY <1>1, <1>2
<1>6. /\ SevenBits(SubSeq(s, 1, n)) = SubSeq(SevenBits(s), 1, n)
      /\ SevenBits(SubSeq(s, 1, n)) \in Seq(Data)
      /\ Len(SevenBits(SubSeq(s, 1, n))) = n
  BY <1>1, <1>5, SevenBitsPrefix
<1> QED  BY <1>4, <1>6 DEF n

LEMMA SysexPayloadIs ==
  ASSUME NEW m, m[1] \in Word, m[2] \in Word
  PROVE  SysexPayload(m[1], m[2]) = SysexData(m) /\ SysexData(m) \in Seq(Data)
<1> DEFINE s == <<m[1][3], m[1][4], m[2][1], m[2][2], m[2][3], m[2][4]>>
           c == m[1][2] % 16
           n == IF c <= PacketBytes THEN c ELSE PacketBytes
<1>1. s \in Seq(Byte) /\ Len(s) = 6
  BY FirstWord
<1>2. c \in Nat
  BY FirstWord DEF Byte
<1>3. SevenBits(s) = <<Bits7(m[1][3]), Bits7(m[1][4]), Bits7(m[2][1]),
                       Bits7(m[2][2]), Bits7(m[2][3]), Bits7(m[2][4])>>
  BY DEF SevenBits, Bits7
<1>4. SysexData(m) = SubSeq(SevenBits(s), 1, n)
  BY <1>3 DEF SysexData
<1>5. SysexPayload(m[1], m[2])
        = SevenBits(SubSeq(s, 1, IF c > PacketBytes THEN PacketBytes ELSE c))
  BY DEF SysexPayload
<1> HIDE DEF s, c
<1>6. n \in 0 .. 6 /\ n = (IF c > PacketBytes THEN PacketBytes ELSE c)
  BY <1>2 DEF PacketBytes
<1>7. n \in 0 .. Len(s)
  BY <1>1, <1>6
<1>8. /\ SevenBits(SubSeq(s, 1, n)) = SubSeq(SevenBits(s), 1, n)
      /\ SevenBits(SubSeq(s, 1, n)) \in Seq(Data)
  <2> HIDE DEF n
  <2> QED  BY <1>1, <1>7, SevenBitsPrefix
<1> QED  BY <1>4, <1>5, <1>6, <1>8

\* The handler that is called is the one for the kind of the packet.
LEMMA KindOfSilent ==
  ASSUME NEW w \in Word, Passes(w), Silent(w)
  PROVE  Kind(w) = "other"
<1>1. w[1] \in 0 .. 255 /\ w[2] \in 0 .. 255
  BY FirstWord DEF Byte
<1>2. \/ <<MessageType(w), StatusField(w)>> \notin Handlers
      \/ MessageType(w) \notin {MT_SYSTEM, MT_M1CVM, MT_DATA64}
  BY DEF Silent, Handler, Unknown
<1>3. ~(MessageType(w) = MT_SYSTEM /\ w[2] \in SystemStatus)
  BY <1>2 DEF Handlers, StatusField, MT_SYSTEM
<1>4. ~(MessageType(w) = MT_M1CVM /\ w[2] \in NOTE_OFF .. PITCH_BEND + 15)
  <2> SUFFICES ASSUME MessageType(w) = MT_M1CVM, w[2] \in NOTE_OFF .. PITCH_BEND + 15
               PROVE  FALSE
    OBVIOUS
  <2>1. \A b \in 128 .. 239 : b \div 16 \in 8 .. 14
    OBVIOUS
  <2>2. StatusField(w) = w[2] \div 16
    BY DEF StatusField, MT_M1CVM, MT_SYSTEM, MT_STREAM, MT_FLEX
  <2>3. StatusField(w) \in M1cvmStatus
    BY <2>1, <2>2 DEF M1cvmStatus, NOTE_OFF, PITCH_BEND
  <2> QED  BY <1>2, <2>3 DEF Handlers
<1>5. ~(MessageType(w) = MT_DATA64 /\ w[2] < 64)
  <2> SUFFICES ASSUME MessageType(w) = MT_DATA64, w[2] < 64
               PROVE  FALSE
    OBVIOUS
  <2>1. \A b \in 0 .. 63 : b \div 16 \in {0, 1, 2, 3}
    OBVIOUS
  <2>2. StatusField(w) = w[2] \div 16
    BY DEF StatusField, MT_DATA64, MT_SYSTEM, MT_STREAM, MT_FLEX
  <2>3. StatusField(w) \in Data64Status
    BY <1>1, <2>1, <2>2
    DEF Data64Status, SYSEX7_IN_1, SYSEX7_START, SYSEX7_CONTINUE, SYSEX7_END
  <2> QED  BY <1>2, <2>3 DEF Handlers
<1>6. \A s \in {TIMING_CODE, SPP, SONG_SELECT, TUNE_REQUEST} : s \in SystemStatus
  BY DEF SystemStatus
<1>7. \A s : IsSystemRealTime(s) => s \in SystemStatus
  BY DEF SystemStatus, IsSystemRealTime
<1> QED  BY <1>3, <1>4, <1>5, <1>6, <1>7 DEF Kind

LEMMA KindOfShort ==
  ASSUME NEW w \in Word, IsShort(w)
  PROVE  /\ IsSystemRealTime(w[2]) => Kind(w) = "realtime"
         /\ ~IsSystemRealTime(w[2]) => Kind(w) = "short" /\ w[2] \in ShortStatuses
<1>1. w[1] \in 0 .. 255 /\ w[2] \in 0 .. 255
  BY FirstWord DEF Byte
<1>2. /\ MessageType(w) = MT_SYSTEM \/ MessageType(w) = MT_M1CVM
      /\ <<MessageType(w), StatusField(w)>> \in Handlers
  BY DEF IsShort, Silent, Handler
<1>3. MT_SYSTEM # MT_M1CVM
  BY DEF MT_SYSTEM, MT_M1CVM
<1>4. CASE MessageType(w) = MT_SYSTEM
  <2>1. StatusField(w) = w[2]
    BY <1>4 DEF StatusField
  <2>2. w[2] \in SystemStatus
    BY <1>2, <1>4, <2>1
    DEF Handlers, MT_UTILITY, MT_SYSTEM, MT_M1CVM, MT_DATA64, MT_M2CVM,
        MT_DATA128, MT_FLEX, MT_STREAM
  <2>3. ~IsSystemRealTime(w[2]) => w[2] \in {TIMING_CODE, SPP, SONG_SELECT, TUNE_REQUEST}
    BY <2>2 DEF SystemStatus, IsSystemRealTime
  <2> QED  BY <1>4, <2>3 DEF Kind, ShortStatuses
<1>5. CASE MessageType(w) = MT_M1CVM
  <2>1. StatusField(w) = w[2] \div 16
    BY <1>5 DEF StatusField, MT_M1CVM, MT_SYSTEM, MT_STREAM, MT_FLEX
  <2>2. w[2] \div 16 \in M1cvmStatus
    BY <1>2, <1>5, <2>1
    DEF Handlers, MT_UTILITY, MT_SYSTEM, MT_M1CVM, MT_DATA64, MT_M2CVM,
        MT_DATA128, MT_FLEX, MT_STREAM
  <2>3. w[2] \div 16 \in 8 .. 14
    BY <2>2 DEF M1cvmStatus
  <2>4. \A b \in 0 .. 255 : b \div 16 \in 8 .. 14 => b \in 128 .. 239
    OBVIOUS
  <2>5. w[2] \in NOTE_OFF .. PITCH_BEND + 15
    BY <1>1, <2>3, <2>4 DEF NOTE_OFF, PITCH_BEND
  <2>6. ~IsSystemRealTime(w[2])
    BY <2>5 DEF NOTE_OFF, PITCH_BEND, IsSystemRealTime, TIMING_CLOCK, SEQUENCE_START,
       SEQUENCE_CONTINUE, SEQUENCE_STOP, ACTIVE_SENSING, SYSTEM_RESET
  <2>7. MessageType(w) # MT_SYSTEM
    BY <1>3, <1>5
  <2> QED  BY <1>5, <2>5, <2>6, <2>7 DEF Kind, ShortStatuses
<1> QED  BY <1>2, <1>4, <1>5

LEMMA KindOfSysex ==
  ASSUME NEW w \in Word, NEW form \in 0 .. 3, IsSysex(w, form)
  PROVE  Kind(w) = <<"in_1", "start", "continue", "end">>[form + 1]
<1>1. w[1] \in 0 .. 255 /\ w[2] \in 0 .. 255
  BY FirstWord DEF Byte
<1>2. MessageType(w) = MT_DATA64 /\ StatusField(w) = form
  BY DEF IsSysex, Handler, Unknown
<1>3. StatusField(w) = w[2] \div 16
  BY <1>2 DEF StatusField, MT_DATA64, MT_SYSTEM, MT_STREAM, MT_FLEX
<1>4. \A b \in 0 .. 255 : b \div 16 \in 0 .. 3 => b < 64
  OBVIOUS
<1>5. w[2] < 64
  BY <1>1, <1>2, <1>3, <1>4
<1>6. MT_DATA64 # MT_SYSTEM /\ MT_DATA64 # MT_M1CVM
  BY DEF MT_DATA64, MT_SYSTEM, MT_M1CVM
<1> QED  BY <1>2, <1>3, <1>5, <1>6 DEF Kind

-------------------------------------------------------------------------------
(* The invariant.                                                                *)

(* What the device has heard so far and what the translator assumes agree: the    *)
(* status, and no data outside a message.  A packet that is begun is a packet of  *)
(* the client.                                                                    *)
LinkInv ==
  /\ IInv
  /\ InStep
  /\ message \in Seq(Input)
  /\ reader \in Reader
  /\ reader.messages = <<>>
  /\ Seen.status = status
  /\ Closed(Seen)

LEMMA SeenType ==
  ASSUME IInv, reader \in Reader
  PROVE  Seen \in Reader
BY HearAllType DEF IInv, TypeOK, Seen

\* When everything has been popped, all was read.
LEMMA AtRest ==
  ASSUME LinkInv, output = <<>>
  PROVE  /\ reader \in Reader /\ reader.messages = <<>> /\ Closed(reader)
         /\ reader.status = status
         /\ Seen = reader
         /\ Open = IF IsSysexOpen(reader) THEN <<reader.data>> ELSE <<>>
         /\ Open = <<>> <=> ~IsSysexOpen(reader)
         /\ Sender!SoFar = reader.data
         /\ Sender!Cut = Interrupted(reader)
<1>1. reader \in Reader /\ reader.messages = <<>>
  BY DEF LinkInv
<1>2. Seen = reader
  BY <1>1, HearNothing DEF Seen
<1>3. Closed(reader) /\ reader.status = status
  BY <1>2 DEF LinkInv
<1>4. Open = IF IsSysexOpen(reader) THEN <<reader.data>> ELSE <<>>
  BY <1>2 DEF Open
<1>5. Open = <<>> <=> ~IsSysexOpen(reader)
  BY <1>4
<1>6. IsSysexOpen(reader) => Open[1] = reader.data
  BY <1>4
<1>7. Sender!SoFar = reader.data
  BY <1>3, <1>5, <1>6 DEF Sender!SoFar, Closed
<1>8. Sender!Cut = Interrupted(reader)
  BY <1>5, <1>7 DEF Sender!Cut, Sender!Message, Interrupted, Heard,
                    Sender!SYSEX_START, SYSEX_START
<1> QED  BY <1>1, <1>2, <1>3, <1>4, <1>5, <1>7, <1>8

\* The bytes of one packet get to the device.
LEMMA Lands ==
  ASSUME LinkInv, output = <<>>, reader' = reader, ~refused',
         NEW bytes \in Seq(Byte), Emit(bytes),
         NEW s \in Byte, NEW d \in Seq(Data), NEW c \in Seq(HeardMessage),
         HearAll(reader, bytes) = After(reader, s, d, c),
         status' = s, s = SYSEX_START \/ d = <<>>
  PROVE  /\ Seen'.status = status' /\ Closed(Seen')
         /\ Open' = IF s = SYSEX_START THEN <<d>> ELSE <<>>
         /\ Seen'.messages = c
<1>1. output' = bytes
  <2> DEFINE all == output \o bytes
  <2>1. all = bytes /\ Len(all) \in Nat
    BY LenProperties, ConcatEmptySeq
  <2>2. ~(Len(all) > OutputSize)
    BY DEF Emit
  <2>3. output' = SubSeq(all, 1, Len(all))
    BY <2>1, <2>2 DEF Emit, OutputSize
  <2> HIDE DEF all
  <2> QED  BY <2>1, <2>3, SubSeqFull
<1>2. Seen' = After(reader, s, d, c)
  BY <1>1 DEF Seen
<1>3. reader.messages \o c = c
  BY ConcatEmptySeq DEF LinkInv
<1>4. Seen'.status = s /\ Seen'.data = d /\ Seen'.messages = c
  BY <1>2, <1>3 DEF After
<1>5. IsSysexOpen(Seen') <=> s = SYSEX_START
  BY <1>4 DEF IsSysexOpen
<1>6. Open' = IF IsSysexOpen(Seen') THEN <<Seen'.data>> ELSE <<>>
  BY DEF Open
<1> QED  BY <1>4, <1>5, <1>6 DEF Closed

-------------------------------------------------------------------------------
(* The translation of each kind of packet.                                       *)

Translates(p) ==
  \/ Sender!Skipped(p)
  \/ p.group \in only_groups
       /\ (Sender!RealTime(p) \/ Sender!Short(p) \/ Sender!Extend(p) \/ Sender!Finish(p))

\* A handler with what the device makes of its bytes.
Handles(p) == Seen'.status = status' /\ Closed(Seen') /\ Translates(p)

LEMMA SkipHeard ==
  ASSUME LinkInv, output = <<>>, reader' = reader, ~refused', Emit(<<>>), status' = status
  PROVE  /\ Seen'.status = status' /\ Closed(Seen')
         /\ Open' = Open /\ Tuned' = Tuned /\ Seen'.messages = Seen.messages
<1>1. /\ reader \in Reader /\ reader.messages = <<>> /\ Closed(reader)
      /\ reader.status = status /\ Seen = reader
      /\ Open = IF IsSysexOpen(reader) THEN <<reader.data>> ELSE <<>>
  BY AtRest
<1>2. <<>> \in Seq(Byte) /\ <<>> \in Seq(HeardMessage)
  BY EmptySeq
<1>3. reader.status \in Byte /\ reader.data \in Seq(Data)
  BY <1>1 DEF Reader
<1>4. <<>> \o <<>> = <<>>
  BY <1>2, ConcatEmptySeq
<1>5. HearAll(reader, <<>>) = After(reader, reader.status, reader.data, <<>>)
  BY <1>1, <1>4, HearNothing DEF After, Reader
<1>6. reader.status = SYSEX_START \/ reader.data = <<>>
  BY <1>1 DEF Closed, IsSysexOpen
<1>7. /\ Seen'.status = status' /\ Closed(Seen')
      /\ Open' = IF reader.status = SYSEX_START THEN <<reader.data>> ELSE <<>>
      /\ Seen'.messages = <<>>
  BY <1>1, <1>2, <1>3, <1>5, <1>6, Lands
<1> QED  BY <1>1, <1>7 DEF Tuned, IsSysexOpen

LEMMA SkipStep ==
  ASSUME LinkInv, output = <<>>, reader' = reader, ~refused', Skip, NEW p,
         \/ p.group \notin only_groups
         \/ p.kind = "other"
         \/ p.kind = "in_1" /\ p.data = <<>>
         \/ p.kind \in {"continue", "end"} /\ Open = <<>>
  PROVE  Handles(p)
<1>1. Emit(<<>>) /\ status' = status
  BY DEF Skip
<1> QED  BY <1>1, SkipHeard DEF Handles, Translates, Sender!Skipped

LEMMA RealTimeStep ==
  ASSUME LinkInv, output = <<>>, reader' = reader, ~refused', NEW w \in Word, RealTime(w),
         NEW p, p.group = GroupOf(w), p.kind = Kind(w),
         Kind(w) = "realtime" => p.status = w[2]
  PROVE  Handles(p)
<1>1. IsShort(w) /\ IsSystemRealTime(w[2]) /\ Emit(<<w[2]>>) /\ status' = status
  BY DEF RealTime
<1>2. p.kind = "realtime" /\ p.status = w[2] /\ p.group \in only_groups
  BY <1>1, KindOfShort DEF IsShort, Silent, Passes
<1>3. /\ reader \in Reader /\ reader.messages = <<>> /\ Closed(reader)
      /\ reader.status = status /\ Seen = reader
      /\ Open = IF IsSysexOpen(reader) THEN <<reader.data>> ELSE <<>>
  BY AtRest
<1>4. w[2] \in Byte /\ <<w[2]>> \in Seq(Byte)
  BY FirstWord
<1>5. reader.status \in Byte /\ reader.data \in Seq(Data)
  BY <1>3 DEF Reader
<1> DEFINE c == <<Heard(w[2], <<>>)>>
<1>6. c \in Seq(HeardMessage)
  BY <1>4, HeardType, EmptySeq
<1>7. HearAll(reader, <<w[2]>>) = After(reader, reader.status, reader.data, c)
  <2>1. IsStatusByte(w[2])
    BY <1>1, ShortStatus
  <2> QED  BY <1>1, <1>3, <1>4, <2>1, HearOne DEF Hear
<1>8. reader.status = SYSEX_START \/ reader.data = <<>>
  BY <1>3 DEF Closed, IsSysexOpen
<1>9. c = Append(Seen.messages, Sender!Message(p.status, <<>>))
  <2>1. Heard(w[2], <<>>) = Sender!Message(p.status, <<>>)
    BY <1>2 DEF Heard, Sender!Message
  <2> DEFINE x == Heard(w[2], <<>>)
  <2>2. Append(<<>>, x) = <<x>>
    <3> HIDE DEF x
    <3> QED  OBVIOUS
  <2> QED  BY <1>3, <2>1, <2>2
<1> HIDE DEF c
<1>10. /\ Seen'.status = status' /\ Closed(Seen')
       /\ Open' = IF reader.status = SYSEX_START THEN <<reader.data>> ELSE <<>>
       /\ Seen'.messages = c
  BY <1>1, <1>3, <1>4, <1>5, <1>6, <1>7, <1>8, Lands
<1>11. Open' = Open /\ Tuned' = Tuned
  BY <1>1, <1>3, <1>10 DEF Tuned, IsSysexOpen
<1> QED  BY <1>2, <1>9, <1>10, <1>11 DEF Handles, Translates, Sender!RealTime

LEMMA ShortStep ==
  ASSUME LinkInv, output = <<>>, reader' = reader, ~refused', NEW w \in Word, Short(w),
         NEW p, p.group = GroupOf(w), p.kind = Kind(w),
         Kind(w) = "short" => p.status = w[2] /\ p.data = ShortPayload(w)
  PROVE  Handles(p)
<1>1. IsShort(w) /\ ~IsSystemRealTime(w[2]) /\ status' = w[2]
  BY DEF Short
<1>2. /\ p.kind = "short" /\ p.status = w[2] /\ p.group \in only_groups
      /\ w[2] \in ShortStatuses /\ p.data = ShortPayload(w)
  BY <1>1, KindOfShort DEF IsShort, Silent, Passes
<1>3. /\ reader \in Reader /\ reader.messages = <<>> /\ Closed(reader)
      /\ reader.status = status /\ Seen = reader
      /\ Open = <<>> <=> ~IsSysexOpen(reader)
      /\ Sender!Cut = Interrupted(reader)
  BY AtRest
<1> DEFINE s == w[2]
           d == ShortData(w)
<1>4. d \in Seq(Data) /\ Len(d) = Needs(s) /\ p.data = d
  BY <1>2, ShortPayloadIs
<1>5. /\ s \in Byte /\ IsStatusByte(s) /\ s # SYSEX_START
      /\ Needs(s) = 0 <=> s = TUNE_REQUEST
  BY <1>2, ShortStatusFacts
<1> DEFINE bytes == (IF reader.status = s THEN <<>> ELSE <<s>>) \o d
<1>6. Emit(bytes)
  BY <1>3 DEF Short, Running
<1>7. bytes \in Seq(Byte)
  <2>1. d \in Seq(Byte)
    BY <1>4, SeqMonotonic DEF Data, Byte
  <2> DEFINE a == IF reader.status = s THEN <<>> ELSE <<s>>
  <2>2. a \in Seq(Byte)
    BY <1>5, EmptySeq
  <2> HIDE DEF a, d
  <2> QED  BY <2>1, <2>2, ConcatProperties DEF a
<1>8. Sender!TUNE_REQUEST = TUNE_REQUEST
  BY DEF Sender!TUNE_REQUEST, TUNE_REQUEST
<1> HIDE DEF d, bytes, s
<1>9. CASE s = TUNE_REQUEST /\ reader.status = s
  <2>1. bytes = <<>>
    <3>1. d = <<>>
      BY <1>4, <1>5, <1>9, EmptySeq
    <3>2. <<>> \o <<>> = <<>>
      BY EmptySeq, ConcatEmptySeq
    <3> QED  BY <1>9, <3>1, <3>2 DEF bytes
  <2>2. /\ Seen'.status = status' /\ Closed(Seen')
        /\ Open' = Open /\ Tuned' = Tuned /\ Seen'.messages = Seen.messages
    BY <1>1, <1>3, <1>6, <1>9, <2>1, SkipHeard DEF s
  <2>3. Sender!Skipped(p)
    <3>1. Tuned
      BY <1>3, <1>9 DEF Tuned
    <3> QED  BY <1>2, <1>8, <1>9, <2>2, <3>1 DEF Sender!Skipped, s
  <2> QED  BY <2>2, <2>3 DEF Handles, Translates
<1>10. CASE ~(s = TUNE_REQUEST /\ reader.status = s)
  <2> DEFINE i == Interrupted(reader)
             h == <<Heard(s, d)>>
             c == i \o h
  <2>1. i \in Seq(HeardMessage) /\ h \in Seq(HeardMessage)
    BY <1>3, <1>4, <1>5, HeardType, InterruptedType
  <2>2. c \in Seq(HeardMessage)
    <3> HIDE DEF i, h
    <3> QED  BY <2>1, ConcatProperties
  <2>3. HearAll(reader, bytes) = After(reader, s, <<>>, c)
    <3>1. s \in ShortStatuses
      BY <1>2 DEF s
    <3> QED  BY <1>3, <1>4, <1>10, <3>1, HearShort DEF bytes
  <2>4. Seen.messages \o Sender!Cut \o <<Sender!Message(p.status, p.data)>> = c
    <3>1. Heard(s, d) = Sender!Message(p.status, p.data)
      BY <1>2, <1>4 DEF Heard, Sender!Message, s
    <3>2. <<>> \o i = i
      <4> HIDE DEF i
      <4> QED  BY <2>1, ConcatEmptySeq
    <3>3. Seen.messages = <<>>
      BY <1>3
    <3> QED  BY <1>3, <3>1, <3>2, <3>3
  <2> HIDE DEF c, i, h
  <2>5. <<>> \in Seq(Data) /\ status' = s
    BY <1>1, EmptySeq DEF s
  <2>6. /\ Seen'.status = status' /\ Closed(Seen')
        /\ Open' = IF s = SYSEX_START THEN <<<<>>>> ELSE <<>>
        /\ Seen'.messages = c
    BY <1>3, <1>5, <1>6, <1>7, <2>2, <2>3, <2>5, Lands
  <2>7. ~(p.status = Sender!TUNE_REQUEST /\ Tuned)
    BY <1>2, <1>3, <1>8, <1>10 DEF Tuned, s
  <2>8. Tuned' = (p.status = Sender!TUNE_REQUEST)
    <3>1. Tuned' = (status' = TUNE_REQUEST)
      BY DEF Tuned
    <3> QED  BY <1>1, <1>2, <1>8, <3>1
  <2>9. Sender!Short(p)
    BY <1>2, <1>5, <2>4, <2>6, <2>7, <2>8 DEF Sender!Short
  <2> QED  BY <1>2, <2>6, <2>9 DEF Handles, Translates
<1> QED  BY <1>9, <1>10

LEMMA SysexStatusFacts ==
  /\ SYSEX_START \in Byte /\ SYSEX_STOP \in Byte /\ SYSEX_STOP # SYSEX_START
  /\ SYSEX_START # TUNE_REQUEST /\ SYSEX_STOP # TUNE_REQUEST
  /\ Sender!SYSEX_START = SYSEX_START
  /\ IsStatusByte(SYSEX_STOP) /\ ~IsSystemRealTime(SYSEX_STOP)
BY DEF SYSEX_START, SYSEX_STOP, TUNE_REQUEST, Byte, Sender!SYSEX_START, IsStatusByte,
       IsSystemRealTime, TIMING_CLOCK, SEQUENCE_START, SEQUENCE_CONTINUE, SEQUENCE_STOP,
       ACTIVE_SENSING, SYSTEM_RESET

LEMMA NotTuned ==
  ASSUME status' \in {SYSEX_START, SYSEX_STOP}
  PROVE  Tuned' = FALSE
BY SysexStatusFacts DEF Tuned

\* A packet that leaves the message open: start, or continue.
LEMMA ExtendStep ==
  ASSUME LinkInv, output = <<>>, reader' = reader, ~refused', NEW d \in Seq(Data),
         Emit(Running(SYSEX_START) \o d), status' = SYSEX_START,
         NEW p, p.group \in only_groups, p.data = d,
         p.kind = "start" \/ (p.kind = "continue" /\ status = SYSEX_START)
  PROVE  Handles(p)
<1>1. /\ reader \in Reader /\ reader.messages = <<>> /\ Closed(reader)
      /\ reader.status = status /\ Seen = reader
      /\ Open = <<>> <=> ~IsSysexOpen(reader)
      /\ Sender!SoFar = reader.data
  BY AtRest
<1> DEFINE bytes == (IF reader.status = SYSEX_START THEN <<>> ELSE <<SYSEX_START>>) \o d
           all == reader.data \o d
<1>2. Emit(bytes)
  BY <1>1 DEF Running
<1>3. bytes \in Seq(Byte)
  <2>1. d \in Seq(Byte)
    BY SeqMonotonic DEF Data, Byte
  <2> DEFINE a == IF reader.status = SYSEX_START THEN <<>> ELSE <<SYSEX_START>>
  <2>2. a \in Seq(Byte)
    BY SysexStatusFacts, EmptySeq
  <2> HIDE DEF a
  <2> QED  BY <2>1, <2>2, ConcatProperties DEF a
<1>4. HearAll(reader, bytes) = After(reader, SYSEX_START, all, <<>>)
  BY <1>1, HearStart
<1>5. all \in Seq(Data)
  BY <1>1, ConcatProperties DEF Reader
<1>6. Sender!SoFar \o p.data = all
  BY <1>1
<1> HIDE DEF bytes, all
<1>7. /\ Seen'.status = status' /\ Closed(Seen')
      /\ Open' = IF SYSEX_START = SYSEX_START THEN <<all>> ELSE <<>>
      /\ Seen'.messages = <<>>
  BY <1>1, <1>2, <1>3, <1>4, <1>5, EmptySeq, SysexStatusFacts, Lands
<1>8. Tuned' = FALSE
  BY NotTuned
<1>9. Sender!Extend(p)
  BY <1>1, <1>6, <1>7, <1>8 DEF Sender!Extend, IsSysexOpen
<1> QED  BY <1>7, <1>9 DEF Handles, Translates

\* A packet that completes the message: all in one, or end.
LEMMA FinishStep ==
  ASSUME LinkInv, output = <<>>, reader' = reader, ~refused', NEW d \in Seq(Data),
         Emit(Running(SYSEX_START) \o d \o <<SYSEX_STOP>>), status' = SYSEX_STOP,
         NEW p, p.group \in only_groups, p.data = d,
         (p.kind = "in_1" /\ d # <<>>) \/ (p.kind = "end" /\ status = SYSEX_START)
  PROVE  Handles(p)
<1>1. /\ reader \in Reader /\ reader.messages = <<>> /\ Closed(reader)
      /\ reader.status = status /\ Seen = reader
      /\ Open = <<>> <=> ~IsSysexOpen(reader)
      /\ Sender!SoFar = reader.data
  BY AtRest
<1> DEFINE first == (IF reader.status = SYSEX_START THEN <<>> ELSE <<SYSEX_START>>) \o d
           bytes == first \o <<SYSEX_STOP>>
           all == reader.data \o d
           c == <<Heard(SYSEX_START, all)>>
           q == After(reader, SYSEX_START, all, <<>>)
<1>2. Emit(bytes)
  BY <1>1 DEF Running
<1>3. first \in Seq(Byte) /\ <<SYSEX_STOP>> \in Seq(Byte)
  <2>1. d \in Seq(Byte)
    BY SeqMonotonic DEF Data, Byte
  <2> DEFINE a == IF reader.status = SYSEX_START THEN <<>> ELSE <<SYSEX_START>>
  <2>2. a \in Seq(Byte) /\ <<SYSEX_STOP>> \in Seq(Byte)
    BY SysexStatusFacts, EmptySeq
  <2> HIDE DEF a
  <2> QED  BY <2>1, <2>2, ConcatProperties DEF a
<1>4. HearAll(reader, first) = q
  BY <1>1, HearStart
<1>5. all \in Seq(Data)
  BY <1>1, ConcatProperties DEF Reader
<1>6. Sender!SoFar \o p.data = all
  BY <1>1
<1> HIDE DEF all, first
<1>7. bytes \in Seq(Byte)
  BY <1>3, ConcatProperties
<1>8. q \in Reader /\ c \in Seq(HeardMessage)
  BY <1>1, <1>5, SysexStatusFacts, AfterType, HeardType, EmptySeq
<1>9. q.status = SYSEX_START /\ q.data = all /\ q.messages = <<>>
  <2>1. <<>> \o <<>> = <<>>
    BY EmptySeq, ConcatEmptySeq
  <2> QED  BY <1>1, <2>1 DEF After
<1>10. c = Append(Seen.messages, Sender!Message(Sender!SYSEX_START, Sender!SoFar \o p.data))
  <2> DEFINE x == Heard(SYSEX_START, all)
  <2>1. x = Sender!Message(Sender!SYSEX_START, Sender!SoFar \o p.data)
    BY <1>6, SysexStatusFacts DEF Heard, Sender!Message
  <2>2. Append(<<>>, x) = <<x>>
    <3> HIDE DEF x
    <3> QED  OBVIOUS
  <2> QED  BY <1>1, <2>1, <2>2
<1> HIDE DEF q
<1>11. HearAll(q, <<SYSEX_STOP>>) = After(q, SYSEX_STOP, <<>>, c)
  <2>1. Interrupted(q) = c
    BY <1>9 DEF Interrupted, IsSysexOpen
  <2> QED  BY <1>8, <2>1, SysexStatusFacts, HearNewStatus
<1>12. HearAll(reader, bytes) = HearAll(q, <<SYSEX_STOP>>)
  BY <1>1, <1>3, <1>4, HearMore
<1> HIDE DEF bytes, c
<1>13. HearAll(reader, bytes) = After(reader, SYSEX_STOP, <<>>, c)
  BY <1>1, <1>9, <1>11, <1>12 DEF After
<1>14. /\ Seen'.status = status' /\ Closed(Seen')
       /\ Open' = IF SYSEX_STOP = SYSEX_START THEN <<<<>>>> ELSE <<>>
       /\ Seen'.messages = c
  <2>1. <<>> \in Seq(Data)
    BY EmptySeq
  <2> QED  BY <1>1, <1>2, <1>7, <1>8, <1>13, <2>1, SysexStatusFacts, Lands
<1>15. Tuned' = FALSE /\ Open' = <<>>
  BY <1>14, NotTuned, SysexStatusFacts
<1>16. Sender!Finish(p)
  BY <1>1, <1>10, <1>14, <1>15 DEF Sender!Finish, IsSysexOpen
<1> QED  BY <1>14, <1>16 DEF Handles, Translates

-------------------------------------------------------------------------------
(* The packet that the client completes.                                         *)

\* The client's packet when its last word is pushed.
LEMMA ClientPacket ==
  ASSUME LinkInv, NEW w \in Input
  PROVE  LET m == Received(w) IN
         /\ m = Append(partial, w)
         /\ m \in Seq(Input) /\ Len(m) \in Nat \ {0}
         /\ m[1] \in Input /\ m[1] \in Word
         /\ EndsPacket(m) <=> IsComplete(w)
<1> DEFINE m == Received(w)
<1>1. m = Append(partial, w) /\ message \in Seq(Input) /\ Len(message) \in Nat
  BY LenProperties DEF LinkInv, InStep, Received
<1>2. /\ m \in Seq(Input) /\ Len(m) = Len(message) + 1
      /\ \A i \in 1 .. Len(message) : m[i] = message[i]
  BY <1>1, AppendProperties DEF Received
<1>3. m[1] \in Input
  BY <1>1, <1>2, ElementOfSeq
<1>4. m[1] \in Word
  BY <1>3, ClientAssumption
<1> DEFINE mt == MessageType(m[1])
           size == MessageSize(mt)
<1>5. size = PacketWords[mt + 1]
  <2>1. m[1][1] \in 0 .. 255
    BY <1>4, FirstWord DEF Byte
  <2>2. \A b \in 0 .. 255 : b \div 16 \in 0 .. 15
    OBVIOUS
  <2>3. mt \in 0 .. 15
    BY <2>1, <2>2 DEF MessageType
  <2> HIDE DEF mt
  <2> QED
    BY <2>3
    DEF MessageSize, PacketWords, MT_UTILITY, MT_SYSTEM, MT_M1CVM, MT_DATA64, MT_M2CVM
<1>6. size \in 1 .. 4
  BY PacketSize
<1>7. Len(m) <= size
  <2>1. CASE message = <<>>
    <3>1. Len(message) = 0
      BY <2>1
    <3> HIDE DEF m, size
    <3> QED  BY <1>2, <1>6, <3>1
  <2>2. CASE message # <<>>
    <3>1. m[1] = message[1]
      <4>1. Len(message) \in Nat \ {0}
        BY <1>1, <2>2, EmptySeq
      <4> HIDE DEF m
      <4> QED  BY <1>2, <4>1
    <3>2. Len(message) < size
      BY <2>2, <3>1 DEF LinkInv, IInv, PacketIncomplete
    <3> HIDE DEF m, size
    <3> QED  BY <1>1, <1>2, <1>6, <3>2
  <2> QED  BY <2>1, <2>2
<1>8. EndsPacket(m) <=> IsComplete(w)
  <2>1. EndsPacket(m) <=> Len(m) = size
    BY <1>5 DEF EndsPacket
  <2>2. IsComplete(w) <=> Len(m) >= size
    BY DEF IsComplete
  <2> HIDE DEF m, size
  <2> QED  BY <1>1, <1>2, <1>6, <1>7, <2>1, <2>2
<1> QED  BY <1>1, <1>2, <1>3, <1>4, <1>8

LEMMA DecodeFacts ==
  ASSUME NEW m
  PROVE  /\ Decode(m).kind = Kind(m[1])
         /\ Decode(m).group = GroupOf(m[1])
         /\ Kind(m[1]) \in {"realtime", "short"} => Decode(m).status = m[1][2]
         /\ Kind(m[1]) = "short" => Decode(m).data = ShortPayload(m[1])
         /\ Kind(m[1]) \in {"in_1", "start", "continue", "end"}
              => Decode(m).data = SysexPayload(m[1], m[2])
BY DEF Decode

LEMMA DecodedPacket ==
  ASSUME NEW m \in Seq(Input), Len(m) \in Nat \ {0}, m[1] \in Word, EndsPacket(m)
  PROVE  Decode(m) \in Packets
<1>1. /\ m[1] \in Input
      /\ Len(m) >= 2 => m[2] \in Input
  BY LenProperties, ElementOfSeq
<1>2. \A x, y \in Input : Decode(<<x, y>>) \in Packets
  BY DEF Packets
<1>3. CASE Len(m) >= 2
  <2> DEFINE x == m[1]
             y == m[2]
             t == <<x, y>>
  <2>1. t[1] = m[1] /\ t[2] = m[2]
    OBVIOUS
  <2> HIDE DEF t
  <2>2. Decode(m) = Decode(t)
    BY <2>1 DEF Decode
  <2> HIDE DEF x, y
  <2>3. x \in Input /\ y \in Input
    BY <1>1, <1>3 DEF x, y
  <2> QED  BY <1>2, <2>2, <2>3 DEF t
<1>4. CASE ~(Len(m) >= 2)
  <2>1. Len(m) = 1
    BY <1>4
  <2>2. m[1][1] \in 0 .. 255
    BY FirstWord DEF Byte
  <2>3. MessageType(m[1]) # MT_DATA64
    <3> SUFFICES ASSUME MessageType(m[1]) = MT_DATA64
                 PROVE  FALSE
      OBVIOUS
    <3>1. PacketWords[4] = 2 /\ MessageType(m[1]) + 1 = 4
      BY DEF PacketWords, MT_DATA64
    <3>2. Len(m) = PacketWords[MessageType(m[1]) + 1]
      BY DEF EndsPacket
    <3> QED  BY <2>1, <3>1, <3>2
  <2>4. Kind(m[1]) \in {"realtime", "short", "other"}
    BY <2>3 DEF Kind
  <2> DEFINE x == m[1]
             t == <<x, x>>
  <2>5. t[1] = m[1]
    OBVIOUS
  <2> HIDE DEF t
  <2>6. Decode(m) = Decode(t)
    BY <2>4, <2>5 DEF Decode
  <2> HIDE DEF x
  <2>7. x \in Input
    BY <1>1 DEF x
  <2> QED  BY <1>2, <2>6, <2>7 DEF t
<1> QED  BY <1>3, <1>4

LEMMA HandleStep ==
  ASSUME LinkInv, output = <<>>, reader' = reader, ~refused',
         NEW w \in Input, Complete(w), Handle(Received(w))
  PROVE  Handles(Decode(Received(w))) /\ only_groups' = only_groups
<1> DEFINE m == Received(w)
           p == Decode(m)
           f == m[1]
<1>1. /\ m \in Seq(Input) /\ Len(m) \in Nat \ {0} /\ f \in Word
      /\ EndsPacket(m)
  BY ClientPacket DEF Complete
<1>2. /\ p.kind = Kind(f) /\ p.group = GroupOf(f)
      /\ Kind(f) \in {"realtime", "short"} => p.status = f[2]
      /\ Kind(f) = "short" => p.data = ShortPayload(f)
      /\ Kind(f) \in {"in_1", "start", "continue", "end"} => p.data = SysexPayload(f, m[2])
  BY DecodeFacts
<1>3. ASSUME NEW form \in 0 .. 3, IsSysex(f, form)
      PROVE  /\ p.kind = <<"in_1", "start", "continue", "end">>[form + 1]
             /\ p.data = SysexData(m) /\ SysexData(m) \in Seq(Data)
             /\ p.group \in only_groups
  <2>1. Kind(f) = <<"in_1", "start", "continue", "end">>[form + 1]
    BY <1>1, <1>3, KindOfSysex
  <2>2. Kind(f) \in {"in_1", "start", "continue", "end"}
    BY <2>1
  <2>3. m[2] \in Word
    <3>1. IInv /\ w \in Word
      BY ClientAssumption DEF LinkInv
    <3>2. m \in Seq(Word) /\ Len(m) >= 2
      BY <1>3, <3>1, HandledPacket DEF IInv
    <3> HIDE DEF m
    <3> QED  BY <3>2, LenProperties, ElementOfSeq
  <2>4. SysexPayload(f, m[2]) = SysexData(m) /\ SysexData(m) \in Seq(Data)
    BY <1>1, <2>3, SysexPayloadIs
  <2>5. p.group \in only_groups
    BY <1>2, <1>3 DEF IsSysex, Silent, Passes
  <2> QED  BY <1>2, <2>1, <2>2, <2>4, <2>5
<1>4. /\ reader.status = status
      /\ Open = <<>> <=> status # SYSEX_START
  BY AtRest DEF IsSysexOpen
<1>5. \A d \in Seq(Data) :
        status = SYSEX_START =>
          /\ Running(SYSEX_START) \o d = d
          /\ Running(SYSEX_START) \o d \o <<SYSEX_STOP>> = d \o <<SYSEX_STOP>>
  BY ConcatEmptySeq DEF Running
<1>6. SYSEX7_IN_1 = 0 /\ SYSEX7_START = 1 /\ SYSEX7_CONTINUE = 2 /\ SYSEX7_END = 3
  BY DEF SYSEX7_IN_1, SYSEX7_START, SYSEX7_CONTINUE, SYSEX7_END
<1> HIDE DEF p, f, m
<1>7. CASE Silent(f) /\ Skip
  <2>1. p.group \notin only_groups \/ p.kind = "other"
    BY <1>1, <1>2, <1>7, KindOfSilent DEF Passes
  <2> QED  BY <1>7, <2>1, SkipStep DEF Skip, m, p
<1>8. CASE RealTime(f)
  BY <1>1, <1>2, <1>8, RealTimeStep DEF RealTime, m, p
<1>9. CASE Short(f)
  BY <1>1, <1>2, <1>9, ShortStep DEF Short, m, p
<1>10. CASE SysexIn1(m)
  <2>1. IsSysex(f, 0)
    BY <1>6, <1>10 DEF SysexIn1, f
  <2>2. /\ p.kind = "in_1" /\ p.data = SysexData(m) /\ SysexData(m) \in Seq(Data)
        /\ p.group \in only_groups
    BY <1>3, <2>1
  <2>3. CASE SysexData(m) # <<>>
    <3>1. /\ Emit(Running(SYSEX_START) \o SysexData(m) \o <<SYSEX_STOP>>)
          /\ status' = SYSEX_STOP /\ only_groups' = only_groups
      BY <1>10, <2>3 DEF SysexIn1
    <3> QED  BY <2>2, <2>3, <3>1, FinishStep DEF m, p
  <2>4. CASE SysexData(m) = <<>>
    <3>1. Skip
      BY <1>10, <2>4 DEF SysexIn1
    <3> QED  BY <2>2, <2>4, <3>1, SkipStep DEF Skip, m, p
  <2> QED  BY <2>3, <2>4
<1>11. CASE SysexStart(m)
  <2>1. IsSysex(f, 1)
    BY <1>6, <1>11 DEF SysexStart, f
  <2>2. /\ p.kind = "start" /\ p.data = SysexData(m) /\ SysexData(m) \in Seq(Data)
        /\ p.group \in only_groups
    BY <1>3, <2>1
  <2>3. /\ Emit(Running(SYSEX_START) \o SysexData(m))
        /\ status' = SYSEX_START /\ only_groups' = only_groups
    BY <1>11 DEF SysexStart
  <2> QED  BY <2>2, <2>3, ExtendStep DEF m, p
<1>12. CASE SysexContinue(m)
  <2>1. IsSysex(f, 2)
    BY <1>6, <1>12 DEF SysexContinue, f
  <2>2. /\ p.kind = "continue" /\ p.data = SysexData(m) /\ SysexData(m) \in Seq(Data)
        /\ p.group \in only_groups
    BY <1>3, <2>1
  <2>3. CASE status = SYSEX_START
    <3>1. /\ Emit(Running(SYSEX_START) \o SysexData(m))
          /\ status' = SYSEX_START /\ only_groups' = only_groups
      BY <1>5, <1>12, <2>2, <2>3 DEF SysexContinue
    <3> QED  BY <2>2, <2>3, <3>1, ExtendStep DEF m, p
  <2>4. CASE status # SYSEX_START
    <3>1. Skip
      BY <1>12, <2>4 DEF SysexContinue
    <3> QED  BY <1>4, <2>2, <2>4, <3>1, SkipStep DEF Skip, m, p
  <2> QED  BY <2>3, <2>4
<1>13. CASE SysexEnd(m)
  <2>1. IsSysex(f, 3)
    BY <1>6, <1>13 DEF SysexEnd, f
  <2>2. /\ p.kind = "end" /\ p.data = SysexData(m) /\ SysexData(m) \in Seq(Data)
        /\ p.group \in only_groups
    BY <1>3, <2>1
  <2>3. CASE status = SYSEX_START
    <3>1. /\ Emit(Running(SYSEX_START) \o SysexData(m) \o <<SYSEX_STOP>>)
          /\ status' = SYSEX_STOP /\ only_groups' = only_groups
      BY <1>5, <1>13, <2>2, <2>3 DEF SysexEnd
    <3> QED  BY <2>2, <2>3, <3>1, FinishStep DEF m, p
  <2>4. CASE status # SYSEX_START
    <3>1. Skip
      BY <1>13, <2>4 DEF SysexEnd
    <3> QED  BY <1>4, <2>2, <2>4, <3>1, SkipStep DEF Skip, m, p
  <2> QED  BY <2>3, <2>4
<1>14. Handle(m)
  BY DEF m
<1> QED  BY <1>7, <1>8, <1>9, <1>10, <1>11, <1>12, <1>13, <1>14 DEF Handle, f

-------------------------------------------------------------------------------
(* The specification.                                                            *)

\* What the translator does is a step of its own specification.
LEMMA LinkStepIInv == IInv /\ [LinkNext]_linkvars => IInv'
<1>1. [LinkNext]_linkvars => [Next]_vars
  BY DEF LinkNext, LinkSend, LinkPop, LinkGroupFilter, LinkReset, Next, linkvars
<1> QED  BY <1>1, StepIInv

LEMMA IdleFacts ==
  /\ IdleReader \in Reader
  /\ IdleReader.messages = <<>> /\ IdleReader.status = None /\ Closed(IdleReader)
  /\ ~IsSysexOpen(IdleReader)
<1>1. <<>> \in Seq(Data) /\ <<>> \in Seq(HeardMessage)
  BY EmptySeq
<1> QED  BY <1>1 DEF IdleReader, Reader, None, Closed, Byte, IsSysexOpen, SYSEX_START

\* Nothing has been heard.
LEMMA NothingSeen ==
  ASSUME reader = IdleReader, output = <<>>, status = None
  PROVE  /\ reader \in Reader /\ reader.messages = <<>>
         /\ Seen.status = status /\ Closed(Seen)
         /\ Open = <<>> /\ Tuned = FALSE /\ Seen.messages = <<>>
<1>1. Seen = IdleReader
  BY IdleFacts, HearNothing DEF Seen
<1> QED  BY <1>1, IdleFacts DEF Open, Tuned, None, TUNE_REQUEST

LEMMA LinkInitStep == LinkInit => LinkInv /\ Sender!Init
<1> SUFFICES ASSUME LinkInit PROVE LinkInv /\ Sender!Init
  OBVIOUS
<1>1. Init /\ reader = IdleReader /\ output = <<>> /\ status = None /\ message = partial
      /\ message = <<>> /\ only_groups = Group /\ packet = <<>>
  BY DEF LinkInit, Init
<1>2. /\ reader \in Reader /\ reader.messages = <<>>
      /\ Seen.status = status /\ Closed(Seen)
      /\ Open = <<>> /\ Tuned = FALSE /\ Seen.messages = <<>>
  BY <1>1, NothingSeen
<1>3. IInv
  BY <1>1, InitIInv
<1>4. message \in Seq(Input)
  BY <1>1, EmptySeq
<1>5. Sender!Group = Group
  BY DEF Sender!Group, Group
<1> QED  BY <1>1, <1>2, <1>3, <1>4, <1>5 DEF LinkInv, InStep, Sender!Init

-------------------------------------------------------------------------------
(* The actions.                                                                  *)

LEMMA LinkSendStep ==
  ASSUME LinkInv, IInv', NEW w \in Input, LinkSend(w)
  PROVE  LinkInv' /\ Sender!Next
<1> DEFINE m == Received(w)
<1>1. /\ m = Append(partial, w) /\ m \in Seq(Input) /\ Len(m) \in Nat \ {0}
      /\ m[1] \in Word /\ (EndsPacket(m) <=> IsComplete(w))
  BY ClientPacket
<1>2. /\ output = <<>> /\ reader' = reader /\ Push(w)
      /\ partial' = IF EndsPacket(m) THEN <<>> ELSE m
      /\ packet' = IF EndsPacket(m) THEN <<Decode(m)>> ELSE <<>>
  BY <1>1 DEF LinkSend, Send
<1>3. ~refused'
  BY DEF IInv, NothingRefused
<1>4. CASE Collect(w) /\ Skip
  <2>1. /\ message' = m /\ ~IsComplete(w) /\ Emit(<<>>)
        /\ status' = status /\ only_groups' = only_groups
    BY <1>4 DEF Collect, Skip
  <2>2. /\ Seen'.status = status' /\ Closed(Seen')
        /\ Open' = Open /\ Tuned' = Tuned /\ Seen'.messages = Seen.messages
    BY <1>2, <1>3, <2>1, SkipHeard
  <2>3. Seen.messages = <<>> /\ reader \in Reader /\ reader.messages = <<>>
    BY <1>2, AtRest
  <2> HIDE DEF m
  <2>4. partial' = m /\ packet' = <<>>
    BY <1>1, <1>2, <2>1
  <2>5. LinkInv'
    BY <1>1, <1>2, <2>1, <2>2, <2>3, <2>4 DEF LinkInv, InStep
  <2>6. Sender!Read
    <3>1. 0 \in 0 .. Len(Seen.messages)
      BY <2>3
    <3>2. SubSeq(Seen.messages, 0 + 1, Len(Seen.messages)) = <<>>
      BY <2>3
    <3> QED  BY <2>1, <2>2, <2>3, <2>4, <3>1, <3>2 DEF Sender!Read
  <2> QED  BY <2>5, <2>6 DEF Sender!Next
<1>5. CASE Complete(w) /\ Handle(m)
  <2>1. Handles(Decode(m)) /\ only_groups' = only_groups
    BY <1>2, <1>3, <1>5, HandleStep
  <2>2. message' = <<>> /\ IsComplete(w)
    BY <1>5 DEF Complete
  <2>3. Decode(m) \in Packets
    BY <1>1, <2>2, DecodedPacket
  <2> HIDE DEF m
  <2>4. partial' = <<>> /\ packet' = <<Decode(m)>>
    BY <1>1, <1>2, <2>2
  <2>5. LinkInv'
    <3>1. <<>> \in Seq(Input)
      BY EmptySeq
    <3> QED  BY <1>2, <2>1, <2>2, <2>4, <3>1 DEF LinkInv, InStep, Handles
  <2>6. Sender!Translate(Decode(m))
    BY <2>1, <2>4 DEF Sender!Translate, Handles, Translates
  <2> QED  BY <2>3, <2>5, <2>6 DEF Sender!Next
<1> QED  BY <1>2, <1>4, <1>5 DEF Push

LEMMA SubSeqAfter ==
  ASSUME NEW S, NEW s \in Seq(S), NEW t \in Seq(S)
  PROVE  /\ Len(s) \in 0 .. Len(s \o t)
         /\ SubSeq(s \o t, Len(s) + 1, Len(s \o t)) = t
<1> DEFINE m == Len(s)
           n == Len(t)
           u == s \o t
<1>1. m \in Nat /\ n \in Nat
  BY LenProperties
<1>2. u \in Seq(S) /\ Len(u) = m + n /\ \A i \in 1 .. n : u[m + i] = t[i]
  BY <1>1, ConcatProperties
<1>3. \A i \in 1 .. m + n : u[i] \in S
  BY <1>2, ElementOfSeq
<1> HIDE DEF m, n, u
<1> DEFINE v == SubSeq(u, m + 1, m + n)
<1>4. v \in Seq(S) /\ Len(v) = n /\ \A i \in 1 .. n : v[i] = t[i]
  <2>1. \A i \in m + 1 .. m + n : u[i] \in S
    BY <1>1, <1>3
  <2>2. /\ v \in Seq(S)
        /\ Len(v) = IF m + 1 <= m + n THEN m + n - (m + 1) + 1 ELSE 0
        /\ \A i \in 1 .. m + n - (m + 1) + 1 : v[i] = u[m + 1 + i - 1]
    BY <1>1, <1>2, <2>1, SubSeqProperties
  <2> HIDE DEF v
  <2>3. Len(v) = n
    BY <1>1, <2>2
  <2>4. \A i \in 1 .. n : v[i] = t[i]
    <3> SUFFICES ASSUME NEW i \in 1 .. n PROVE v[i] = t[i]
      OBVIOUS
    <3>1. m + 1 + i - 1 = m + i /\ i \in 1 .. m + n - (m + 1) + 1
      BY <1>1
    <3> QED  BY <1>2, <2>2, <3>1
  <2> QED  BY <2>2, <2>3, <2>4
<1> HIDE DEF v
<1>5. v = t
  BY <1>4, SeqEqual DEF n
<1> QED  BY <1>1, <1>2, <1>5 DEF m, n, u, v

LEMMA EmptiedFacts ==
  ASSUME NEW x \in Reader
  PROVE  /\ Emptied(x) \in Reader /\ Emptied(x).messages = <<>>
         /\ Preceded(x.messages, Emptied(x)) = x
<1>1. x.status \in Byte /\ x.data \in Seq(Data) /\ x.messages \in Seq(HeardMessage)
  BY DEF Reader
<1>2. x.messages \o <<>> = x.messages /\ <<>> \in Seq(HeardMessage)
  BY <1>1, ConcatEmptySeq, EmptySeq
<1>3. Emptied(x) \in Reader /\ Emptied(x).messages = <<>>
  BY <1>1, <1>2 DEF Emptied, Reader
<1>4. Preceded(x.messages, Emptied(x)) = x
  BY <1>2 DEF Emptied, Preceded, Reader
<1> QED  BY <1>3, <1>4

LEMMA LinkPopStep ==
  ASSUME LinkInv, IInv', LinkPop
  PROVE  LinkInv' /\ Sender!Next
<1> DEFINE h == Head(output)
           t == Tail(output)
           x == Hear(reader, h)
<1>1. /\ output # <<>> /\ output \in Seq(Byte) /\ reader \in Reader
      /\ output' = t /\ reader' = Emptied(x)
      /\ UNCHANGED <<message, only_groups, status, partial>> /\ packet' = <<>>
  BY DEF LinkPop, Pop, LinkInv, IInv, TypeOK
<1>2. h \in Byte /\ t \in Seq(Byte) /\ output = <<h>> \o t /\ <<h>> \in Seq(Byte)
  BY <1>1, HeadTailProperties
<1>3. x \in Reader /\ HearAll(reader, <<h>>) = x
  BY <1>1, <1>2, HearType, HearOne
<1>4. Seen = HearAll(x, t)
  <2> HIDE DEF h, t, x
  <2> QED  BY <1>1, <1>2, <1>3, HearMore DEF Seen
<1> HIDE DEF h, t, x
<1> DEFINE e == Emptied(x)
           k == x.messages
<1>5. e \in Reader /\ e.messages = <<>> /\ Preceded(k, e) = x /\ k \in Seq(HeardMessage)
  BY <1>3, EmptiedFacts DEF Reader
<1>6. Seen' = HearAll(e, t)
  BY <1>1 DEF Seen
<1>7. HearAll(e, t) \in Reader
  BY <1>2, <1>5, HearAllType
<1> HIDE DEF e, k
<1>8. HearAll(Preceded(k, e), t) = Preceded(k, HearAll(e, t))
  BY <1>2, <1>5, HearAllPreceded
<1> DEFINE z == HearAll(e, t)
<1>9. Seen = Preceded(k, z) /\ Seen' = z /\ z.messages \in Seq(HeardMessage)
  BY <1>4, <1>5, <1>6, <1>7, <1>8 DEF Reader
<1> HIDE DEF z
<1>10. Seen.status = z.status /\ Seen.data = z.data /\ Seen.messages = k \o z.messages
  BY <1>9 DEF Preceded
<1>11. Seen'.status = status' /\ Closed(Seen')
  BY <1>1, <1>9, <1>10 DEF LinkInv, Closed, IsSysexOpen
<1>12. LinkInv'
  BY <1>1, <1>5, <1>11 DEF LinkInv, InStep, e
<1>13. Open' = Open /\ Tuned' = Tuned
  BY <1>1, <1>9, <1>10 DEF Open, Tuned, IsSysexOpen
<1>14. Sender!Read
  <2> DEFINE y == z.messages
             n == Len(k)
  <2>1. y \in Seq(HeardMessage) /\ Seen'.messages = y /\ Seen.messages = k \o y
    BY <1>9, <1>10
  <2> HIDE DEF y
  <2>2. n \in 0 .. Len(k \o y) /\ SubSeq(k \o y, n + 1, Len(k \o y)) = y
    BY <1>5, <2>1, SubSeqAfter
  <2> HIDE DEF n
  <2> QED  BY <1>1, <1>13, <2>1, <2>2 DEF Sender!Read
<1> QED  BY <1>12, <1>14 DEF Sender!Next

LEMMA LinkFilterStep ==
  ASSUME LinkInv, IInv', NEW groups \in Filters, LinkGroupFilter(groups)
  PROVE  LinkInv' /\ Sender!Next
<1>1. /\ only_groups' = IF groups = {} THEN Group ELSE groups
      /\ message' = message /\ status' = status /\ output' = output
      /\ partial' = partial /\ reader' = reader /\ packet' = <<>>
  BY DEF LinkGroupFilter, GroupFilter
<1>2. Seen' = Seen
  BY <1>1 DEF Seen
<1>3. LinkInv'
  BY <1>1, <1>2 DEF LinkInv, InStep
<1>4. Sender!Group = Group
  BY DEF Sender!Group, Group
<1>5. Sender!Select(groups)
  BY <1>1, <1>2, <1>4 DEF Sender!Select, Open, Tuned
<1> QED  BY <1>3, <1>5 DEF Sender!Next

LEMMA LinkResetStep ==
  ASSUME LinkInv, IInv', partial = <<>>, LinkReset
  PROVE  LinkInv' /\ Sender!Next
<1>1. /\ only_groups' = Group /\ status' = None /\ output' = <<>> /\ message' = message
      /\ partial' = <<>> /\ packet' = <<>> /\ reader' = IdleReader
  BY DEF LinkReset, Reset
<1>2. (/\ reader = IdleReader /\ output = <<>> /\ status = None
       => /\ reader \in Reader /\ reader.messages = <<>>
          /\ Seen.status = status /\ Closed(Seen)
          /\ Open = <<>> /\ Tuned = FALSE /\ Seen.messages = <<>>)'
  BY NothingSeen, PTL
<1>3. /\ reader' \in Reader /\ reader'.messages = <<>>
      /\ Seen'.status = status' /\ Closed(Seen')
      /\ Open' = <<>> /\ Tuned' = FALSE /\ Seen'.messages = <<>>
  BY <1>1, <1>2
<1>4. LinkInv'
  BY <1>1, <1>3 DEF LinkInv, InStep
<1>5. Sender!Group = Group
  BY DEF Sender!Group, Group
<1>6. Sender!Restart
  BY <1>1, <1>3, <1>5 DEF Sender!Restart
<1> QED  BY <1>4, <1>6 DEF Sender!Next

LEMMA LinkStutter ==
  ASSUME LinkInv, UNCHANGED linkvars
  PROVE  LinkInv' /\ UNCHANGED Sender!vars
<1>1. /\ message' = message /\ only_groups' = only_groups /\ status' = status
      /\ output' = output /\ refused' = refused
      /\ partial' = partial /\ packet' = packet /\ reader' = reader
  BY DEF linkvars, vars, context
<1>2. Seen' = Seen
  BY <1>1 DEF Seen
<1>3. IInv'
  BY LinkStepIInv DEF LinkInv
<1> QED  BY <1>1, <1>2, <1>3 DEF LinkInv, InStep, Sender!vars, Open, Tuned

LEMMA LinkStep == LinkInv /\ [LinkNext]_linkvars => LinkInv' /\ [Sender!Next]_Sender!vars
<1> SUFFICES ASSUME LinkInv, [LinkNext]_linkvars
             PROVE  LinkInv' /\ [Sender!Next]_Sender!vars
  OBVIOUS
<1>1. IInv'
  BY LinkStepIInv DEF LinkInv
<1>2. CASE UNCHANGED linkvars
  BY <1>2, LinkStutter
<1>3. ASSUME NEW w \in Input, LinkSend(w) PROVE LinkInv' /\ Sender!Next
  BY <1>1, <1>3, LinkSendStep
<1>4. CASE LinkPop
  BY <1>1, <1>4, LinkPopStep
<1>5. ASSUME NEW groups \in Filters, LinkGroupFilter(groups) PROVE LinkInv' /\ Sender!Next
  BY <1>1, <1>5, LinkFilterStep
<1>6. CASE partial = <<>> /\ LinkReset
  BY <1>1, <1>6, LinkResetStep
<1> QED  BY <1>2, <1>3, <1>4, <1>5, <1>6 DEF LinkNext

(* The reader that has heard all that was emitted has the status the translator  *)
(* goes on from.                                                                 *)
THEOREM LinkInvariance == LinkSpec => []LinkInv
BY LinkInitStep, LinkStep, PTL DEF LinkSpec

(* The dispatcher and a client that finishes its packets before reset() always   *)
(* agree on where a packet begins.                                               *)
THEOREM ClientInStep == LinkSpec => []InStep
<1>1. LinkInv => InStep
  BY DEF LinkInv
<1> QED  BY <1>1, LinkInvariance, PTL

(* The running status of the translator is that of the device, whatever packets  *)
(* it translates or skips, so that no status byte is missing when it is needed.  *)
THEOREM StatusShared == LinkSpec => []RunningStatusShared
<1>1. LinkInv => RunningStatusShared
  BY DEF LinkInv, RunningStatusShared
<1> QED  BY <1>1, LinkInvariance, PTL

(* For all packets, filters and ways to mix them, the bytes of to_bytestream say *)
(* to a device what the packets of the selected groups said.                     *)
THEOREM SenderImplemented == LinkSpec => ImplementsSender
BY LinkInitStep, LinkStep, PTL DEF LinkSpec, ImplementsSender, Sender!Spec
===============================================================================
