---------------------------- MODULE BytestreamToUmp ----------------------------
(***************************************************************************)
(* midi2::bytestream::to_ump: the translator from a MIDI 1.0 byte stream   *)
(* to UMP words (bytestream_to_ump.hpp, bytestream_to_ump.cpp), and the    *)
(* client that pushes bytes into it and pops words from it.  The output    *)
(* FIFO is a sequence: module FifoProofs shows that adt::fifo behaves so.  *)
(***************************************************************************)
EXTENDS MidiBytes

CONSTANTS
  Input,      \* the bytes the client pushes
  Groups,     \* the groups the client asks for
  MaxPending  \* the words the client may leave unread when it pushes again

\* The documented client drains the output after every push (0 words left);
\* one word left does no harm either.
ASSUME ClientAssumption ==
  /\ Input \subseteq Byte
  /\ Groups \subseteq Group
  /\ MaxPending \in 0 .. 1

VARIABLES
  group,   \* group_
  d0,      \* d0_: the current status byte, or 0
  d1,      \* d1_: the first data byte of a two-byte message, or Unknown
  sysex7,  \* sysex7_: state, pos and bytes of the packet being filled
  output,  \* output_: the words that wait to be popped, oldest first
  refused  \* output_.push_back() returned false in the last push

state == <<group, d0, d1, sysex7>>
vars == <<group, d0, d1, sysex7, output, refused>>

Unknown == 255
\* A definition named Wrong... is a bug the module's properties must catch; no
\* other definition uses it.
WrongOutputSize == 2
OutputSize == 4   \* adt::fifo<std::uint32_t, 4>

NoBytes == [i \in 0 .. PacketBytes - 1 |-> 0]
NoSysex == [state |-> "none", pos |-> 0, bytes |-> NoBytes]

-------------------------------------------------------------------------------
(* What is written to the output.                                           *)

\* push_back() of some words.  Those that find the FIFO full are dropped, and
\* nothing looks at the result.
Emit(words) ==
  LET all == output \o words
  IN  /\ output' = SubSeq(all, 1, IF Len(all) <= OutputSize THEN Len(all) ELSE OutputSize)
      /\ refused' = (Len(all) > OutputSize)

\* convert(): a system or MIDI 1.0 channel voice message.
MessageWord(b0, b1, b2) ==
  <<16 * (IF b0 >= SYSEX_START THEN MT_SYSTEM ELSE MT_M1CVM) + group, b0, b1, b2>>

\* push_sysex7<form>(): the two words of a system exclusive packet.
SysexPacket(form) ==
  LET s == sysex7.bytes
  IN  << <<16 * MT_DATA64 + group, 16 * form + sysex7.pos, s[0], s[1]>>,
         <<s[2], s[3], s[4], s[5]>> >>

\* The packet that ends a system exclusive message in progress.
LastPacket ==
  IF sysex7.state = "start" THEN SysexPacket(SYSEX7_IN_1)
  ELSE IF sysex7.state = "cont" THEN SysexPacket(SYSEX7_END)
  ELSE <<>>

WrongPacketIsFull == sysex7.pos > PacketBytes
PacketIsFull == sysex7.pos = PacketBytes

\* The full packet that makes way for one more system exclusive byte.
FullPacket ==
  IF ~PacketIsFull THEN <<>>
  ELSE IF sysex7.state = "start" THEN SysexPacket(SYSEX7_START)
  ELSE SysexPacket(SYSEX7_CONTINUE)

-------------------------------------------------------------------------------
(* push(b), case by case.                                                   *)

\* A real-time message goes out at once and disturbs nothing.
RealTime(b) ==
  /\ IsStatusByte(b) /\ IsSystemRealTime(b)
  /\ Emit(<<MessageWord(b, 0, 0)>>)
  /\ UNCHANGED <<group, d0, d1, sysex7>>

\* A status byte that leaves the packet open.
WrongStatus(b) ==
  /\ IsStatusByte(b) /\ ~IsSystemRealTime(b)
  /\ d0' = b
  /\ d1' = Unknown
  /\ Emit(LastPacket \o (IF b = TUNE_REQUEST THEN <<MessageWord(b, 0, 0)>> ELSE <<>>))
  /\ sysex7' = IF b = SYSEX_START
               THEN [NoSysex EXCEPT !.state = "start"] ELSE sysex7
  /\ UNCHANGED group

\* Any other status byte ends a system exclusive message and is the status of
\* what follows; a tune request is complete, sysex_start opens a message.
Status(b) ==
  /\ IsStatusByte(b) /\ ~IsSystemRealTime(b)
  /\ d0' = b
  /\ d1' = Unknown
  /\ Emit(LastPacket \o (IF b = TUNE_REQUEST THEN <<MessageWord(b, 0, 0)>> ELSE <<>>))
  /\ sysex7' = IF b = SYSEX_START
               THEN [NoSysex EXCEPT !.state = "start"] ELSE NoSysex
  /\ UNCHANGED group

\* The byte that finds the packet full is lost.
WrongSysexData(b) ==
  /\ ~IsStatusByte(b)
  /\ sysex7.state # "none"
  /\ Emit(FullPacket)
  /\ sysex7' =
       IF PacketIsFull
       THEN [NoSysex EXCEPT !.state = "cont"]
       ELSE [sysex7 EXCEPT !.pos = @ + 1, !.bytes[sysex7.pos] = b]
  /\ UNCHANGED <<group, d0, d1>>

\* sysex_data_byte()
SysexData(b) ==
  /\ ~IsStatusByte(b)
  /\ sysex7.state # "none"
  /\ Emit(FullPacket)
  /\ sysex7' =
       IF PacketIsFull
       THEN [state |-> "cont", pos |-> 1, bytes |-> [NoBytes EXCEPT ![0] = b]]
       ELSE [sysex7 EXCEPT !.pos = @ + 1, !.bytes[sysex7.pos] = b]
  /\ UNCHANGED <<group, d0, d1>>

\* The second byte of a two-byte message.  The status stays: running status.
SecondByte(b) ==
  /\ ~IsStatusByte(b)
  /\ sysex7.state = "none" /\ d1 # Unknown
  /\ Emit(<<MessageWord(d0, d1, b)>>)
  /\ d1' = Unknown
  /\ UNCHANGED <<group, d0, sysex7>>

OneByteMessage(b) ==
  /\ ~IsStatusByte(b)
  /\ sysex7.state = "none" /\ d1 = Unknown
  /\ IsOneByteMessage(d0)
  /\ Emit(<<MessageWord(d0, b, 0)>>)
  /\ UNCHANGED <<group, d0, d1, sysex7>>

\* The statuses that are followed by two data bytes.
TakesTwoBytes(b) ==
  b # 0 /\ ~IsOneByteMessage(b) /\ (b < SYSEX_START \/ b = SPP)

FirstByte(b) ==
  /\ ~IsStatusByte(b)
  /\ sysex7.state = "none" /\ d1 = Unknown
  /\ TakesTwoBytes(d0)
  /\ d1' = b
  /\ Emit(<<>>)
  /\ UNCHANGED <<group, d0, sysex7>>

\* Data without a status, or after one that takes none, is ignored.
Ignored(b) ==
  /\ ~IsStatusByte(b)
  /\ sysex7.state = "none" /\ d1 = Unknown
  /\ ~IsOneByteMessage(d0) /\ ~TakesTwoBytes(d0)
  /\ Emit(<<>>)
  /\ UNCHANGED state

Push(b) ==
  \/ RealTime(b)
  \/ Status(b)
  \/ SysexData(b)
  \/ SecondByte(b)
  \/ OneByteMessage(b)
  \/ FirstByte(b)
  \/ Ignored(b)

-------------------------------------------------------------------------------
\* pop(), whose precondition is !empty()
Pop ==
  /\ output # <<>>
  /\ output' = Tail(output)
  /\ UNCHANGED <<group, d0, d1, sysex7, refused>>

\* reset() and set_group(): everything in flight is lost, and reset() also
\* forgets the group.
Restart(g) ==
  /\ group' = g
  /\ d0' = 0
  /\ d1' = Unknown
  /\ sysex7' = NoSysex
  /\ output' = <<>>
  /\ refused' = FALSE

Reset == Restart(0)
SetGroup(g) == Restart(g)

\* A client that has read all but MaxPending words pushes a byte.
Send(b) == Len(output) <= MaxPending /\ Push(b)

Init ==
  /\ group \in Groups
  /\ d0 = 0
  /\ d1 = Unknown
  /\ sysex7 = NoSysex
  /\ output = <<>>
  /\ refused = FALSE

Next ==
  \/ \E b \in Input : Send(b)
  \/ Pop
  \/ Reset
  \/ \E g \in Groups : SetGroup(g)

Spec == Init /\ [][Next]_vars

-------------------------------------------------------------------------------
Sysex7 == [state : {"none", "start", "cont"},
           pos : 0 .. PacketBytes,
           bytes : [0 .. PacketBytes - 1 -> 0 .. 127]]

(* Every variable has its type; pos never indexes past the packet's bytes.   *)
TypeOK ==
  /\ group \in Group
  /\ d0 \in Byte
  /\ d1 \in 0 .. 127 \union {Unknown}
  /\ sysex7 \in Sysex7
  /\ output \in Seq(Word)
  /\ Len(output) <= OutputSize
  /\ refused \in BOOLEAN

(* The parser's three pieces of state agree: a packet is being filled exactly *)
(* while the status is sysex_start, a first data byte is held only under a    *)
(* status that takes two, and a continued message always has a byte to send.  *)
(* The assertions of convert() (its status byte is one, and not sysex_start)  *)
(* and sysex_data_byte() (some packet is in progress) rest on this.           *)
ParserConsistent ==
  /\ (sysex7.state # "none") <=> (d0 = SYSEX_START)
  /\ (d1 # Unknown) => (TakesTwoBytes(d0) /\ d0 >= 128)
  /\ (sysex7.state = "cont") => (sysex7.pos >= 1)
  /\ (sysex7.state = "none") => (sysex7.pos = 0)
  /\ (d0 # 0) => (IsStatusByte(d0) /\ ~IsSystemRealTime(d0))

(* No push() finds the output FIFO full, so no word is dropped and no packet  *)
(* torn, as long as the client leaves at most MaxPending words unread.        *)
NothingRefused == ~refused
===============================================================================
