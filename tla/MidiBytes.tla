------------------------------- MODULE MidiBytes -------------------------------
(***************************************************************************)
(* The bytes of a MIDI 1.0 byte stream and the words of the Universal MIDI *)
(* Packet (UMP) that carry them.  A UMP word is the 4-tuple of its bytes,  *)
(* most significant first: the message type is the high nibble of the      *)
(* first, the group its low nibble.                                        *)
(***************************************************************************)
EXTENDS Integers, Sequences

Byte == 0 .. 255
Word == Byte \X Byte \X Byte \X Byte
Group == 0 .. 15

\* enum class status (bytestream_types.hpp)
NOTE_OFF         == 128
NOTE_ON          == 144
PROGRAM_CHANGE   == 192
CHANNEL_PRESSURE == 208
PITCH_BEND       == 224
SYSEX_START      == 240
TIMING_CODE      == 241
SPP              == 242
SONG_SELECT      == 243
TUNE_REQUEST     == 246
SYSEX_STOP       == 247
TIMING_CLOCK     == 248
SEQUENCE_START   == 250
SEQUENCE_CONTINUE == 251
SEQUENCE_STOP    == 252
ACTIVE_SENSING   == 254
SYSTEM_RESET     == 255

IsStatusByte(b) == b >= 128

IsSystemRealTime(b) ==
  b \in {TIMING_CLOCK, SEQUENCE_START, SEQUENCE_CONTINUE, SEQUENCE_STOP,
         ACTIVE_SENSING, SYSTEM_RESET}

\* A status byte that is followed by one data byte.
IsOneByteMessage(b) ==
  \/ b \in PROGRAM_CHANGE .. PROGRAM_CHANGE + 15
  \/ b \in CHANNEL_PRESSURE .. CHANNEL_PRESSURE + 15
  \/ b \in {TIMING_CODE, SONG_SELECT}

\* enum class message_type (ump_types.hpp); the others are reserved.
MT_UTILITY == 0
MT_SYSTEM  == 1
MT_M1CVM   == 2
MT_DATA64  == 3
MT_M2CVM   == 4
MT_DATA128 == 5
MT_FLEX    == 13
MT_STREAM  == 15

MessageType(w) == w[1] \div 16
GroupOf(w)     == w[1] % 16

\* enum class mt::data64: the forms of a seven-bit system exclusive packet.
SYSEX7_IN_1     == 0
SYSEX7_START    == 1
SYSEX7_CONTINUE == 2
SYSEX7_END      == 3

\* The system exclusive bytes one packet has room for.
PacketBytes == 6
===============================================================================
