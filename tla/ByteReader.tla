------------------------------- MODULE ByteReader -------------------------------
(***************************************************************************)
(* A reference reader of messages from a MIDI 1.0 byte stream, with running *)
(* status: what the stream says, independently of the library's own parser. *)
(***************************************************************************)
EXTENDS MidiBytes

\* No status is in force, nothing has been read.
IdleReader == [status |-> 0, data |-> <<>>, messages |-> <<>>]

Heard(s, bytes) == [status |-> s, data |-> bytes]

\* The data bytes that complete a message of status s.
Needs(s) ==
  IF IsOneByteMessage(s) THEN 1
  ELSE IF s \in NOTE_OFF .. PITCH_BEND + 15 \union {SPP} THEN 2
  ELSE 0

IsSysexOpen(r) == r.status = SYSEX_START

\* The reader r with another status and other data, and some messages more.
After(r, s, bytes, completed) ==
  [status |-> s, data |-> bytes, messages |-> r.messages \o completed]

\* A status byte ends a system exclusive message.
HearStatus(r, b) ==
  After(r, b, <<>>,
        (IF IsSysexOpen(r) THEN <<Heard(SYSEX_START, r.data)>> ELSE <<>>)
          \o (IF b = TUNE_REQUEST THEN <<Heard(b, <<>>)>> ELSE <<>>))

HearData(r, b) ==
  LET all == Append(r.data, b)
  IN  IF IsSysexOpen(r) \/ Len(all) < Needs(r.status)
      THEN After(r, r.status, all, <<>>)
      ELSE IF Len(all) = Needs(r.status)
      THEN After(r, r.status, <<>>, <<Heard(r.status, all)>>)
      ELSE r

\* The reader r after one more byte.
Hear(r, b) ==
  IF ~IsStatusByte(b) THEN HearData(r, b)
  ELSE IF IsSystemRealTime(b) THEN After(r, r.status, r.data, <<Heard(b, <<>>)>>)
  ELSE HearStatus(r, b)

\* ... and after some bytes.
HearAll(r, bytes) ==
  LET heard[n \in 0 .. Len(bytes)] ==
        IF n = 0 THEN r ELSE Hear(heard[n - 1], bytes[n])
  IN  heard[Len(bytes)]
===============================================================================
