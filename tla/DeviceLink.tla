------------------------------- MODULE DeviceLink -------------------------------
(***************************************************************************)
(* The to_bytestream translator between a client that knows which words    *)
(* make up a packet and a MIDI 1.0 device that reads the bytes, and the    *)
(* abstract sender that the translator implements.                         *)
(***************************************************************************)
EXTENDS UmpToBytestream, ByteReader

VARIABLES
  partial,  \* the words of a packet that the client has begun to push
  packet,   \* <<the packet whose last word it has just pushed>>, or <<>>
  reader    \* what the device has made of the bytes popped so far

linkvars == <<vars, partial, packet, reader>>

-------------------------------------------------------------------------------
(* Packets, by the UMP specification.                                        *)

\* The words of a packet of each message type.
PacketWords == <<1, 1, 1, 2, 2, 4, 1, 1, 2, 2, 2, 3, 3, 4, 4, 4>>

EndsPacket(words) == Len(words) = PacketWords[MessageType(words[1]) + 1]

\* What a packet says, to a device that has MIDI 1.0 messages only.
Kind(w) ==
  IF MessageType(w) = MT_SYSTEM /\ IsSystemRealTime(w[2]) THEN "realtime"
  ELSE IF \/ /\ MessageType(w) = MT_SYSTEM
             /\ w[2] \in {TIMING_CODE, SPP, SONG_SELECT, TUNE_REQUEST}
          \/ MessageType(w) = MT_M1CVM /\ w[2] \in NOTE_OFF .. PITCH_BEND + 15
  THEN "short"
  ELSE IF MessageType(w) = MT_DATA64 /\ w[2] < 64
  THEN <<"in_1", "start", "continue", "end">>[(w[2] \div 16) + 1]
  ELSE "other"

SevenBits(bytes) == [i \in 1 .. Len(bytes) |-> bytes[i] % 128]

\* The data bytes of a packet with two data bytes, or room for six.
ShortPayload(w) == SevenBits(SubSeq(<<w[3], w[4]>>, 1, Needs(w[2])))

SysexPayload(w, v) ==
  SevenBits(SubSeq(<<w[3], w[4], v[1], v[2], v[3], v[4]>>, 1,
                   IF w[2] % 16 > PacketBytes THEN PacketBytes ELSE w[2] % 16))

\* A one-word packet has no words[2] to look at.
Decode(words) ==
  LET kind == Kind(words[1])
  IN  [kind |-> kind,
       group |-> GroupOf(words[1]),
       status |-> IF kind \in {"realtime", "short"} THEN words[1][2] ELSE 0,
       data |-> IF kind \in {"realtime", "other"} THEN <<>>
                ELSE IF kind = "short" THEN ShortPayload(words[1])
                ELSE SysexPayload(words[1], words[2])]

\* The packets there are: a longer one says nothing to the device.
Packets == {Decode(words) : words \in Input \X Input}

-------------------------------------------------------------------------------
\* All that was and can be read of the byte stream so far.
Seen == HearAll(reader, output)

\* A reader whose messages have been taken.
Emptied(r) == [status |-> r.status, data |-> r.data, messages |-> <<>>]

LinkInit == Init /\ partial = <<>> /\ packet = <<>> /\ reader = IdleReader

LinkSend(w) ==
  LET words == Append(partial, w)
  IN  /\ Send(w)
      /\ partial' = IF EndsPacket(words) THEN <<>> ELSE words
      /\ packet' = IF EndsPacket(words) THEN <<Decode(words)>> ELSE <<>>
      /\ UNCHANGED reader

\* The device keeps no message that it has read.
LinkPop ==
  /\ Pop
  /\ reader' = Emptied(Hear(reader, Head(output)))
  /\ packet' = <<>>
  /\ UNCHANGED partial

LinkGroupFilter(groups) ==
  /\ GroupFilter(groups)
  /\ packet' = <<>>
  /\ UNCHANGED <<partial, reader>>

\* The client starts a new packet after reset(), and has the device drop what
\* it has half read.
LinkReset ==
  /\ Reset
  /\ partial' = <<>>
  /\ packet' = <<>>
  /\ reader' = IdleReader

\* A client that finishes the packet it has begun before it calls reset().
LinkNext ==
  \/ \E w \in Input : LinkSend(w)
  \/ LinkPop
  \/ \E groups \in Filters : LinkGroupFilter(groups)
  \/ partial = <<>> /\ LinkReset

LinkSpec == LinkInit /\ [][LinkNext]_linkvars

-------------------------------------------------------------------------------
\* The bytes so far of the system exclusive message that the stream has open.
Open == IF IsSysexOpen(Seen) THEN <<Seen.data>> ELSE <<>>

Tuned == status = TUNE_REQUEST

(* The bytes say what the packets said: a device that reads them gets the    *)
(* message of every packet of a selected group, complete, unaltered and in   *)
(* order, however running status, real-time messages and system exclusive    *)
(* packets of several groups mix, and nothing of any other group.            *)
Sender == INSTANCE MidiSender WITH
  groups <- only_groups,
  open <- Open,
  tuned <- Tuned,
  done <- Seen.messages

ImplementsSender == Sender!Spec

(* The running status the translator assumes is the one the device has: a    *)
(* status byte is only left out when the device has just read the same.      *)
RunningStatusShared == status # None => status = Seen.status

(* The dispatcher and its client agree on which words make up a packet.      *)
(* translator.hpp:36 says of reset() "Any partially translated messages are  *)
(* dropped.", after which the words of a new packet must not join old ones.  *)
InStep == message = partial
===============================================================================
