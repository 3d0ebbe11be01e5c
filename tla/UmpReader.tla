------------------------------- MODULE UmpReader -------------------------------
(***************************************************************************)
(* A reference reader of MIDI 1.0 messages from a stream of UMP words: what *)
(* the stream says, independently of the library's own dispatcher.          *)
(***************************************************************************)
EXTENDS MidiBytes

\* No packet or message is open, nothing has been read.
IdleReader == [first |-> <<>>, payload |-> <<>>, messages |-> <<>>]

\* The first word of an open packet, the bytes of an open system exclusive
\* message, and the reader r with some messages more.
After(r, first, payload, completed) ==
  [first |-> first, payload |-> payload, messages |-> r.messages \o completed]

\* The message of status s with its data bytes, from a packet that starts with w.
ReadMessage(w, s, bytes) == [group |-> w[1] % 16, status |-> s, data |-> bytes]

\* How many of the two data bytes of a one-word message belong to it.
DataBytes(b) ==
  IF IsOneByteMessage(b) THEN 1
  ELSE IF b < SYSEX_START \/ b = SPP THEN 2 ELSE 0

\* The bytes of a system exclusive packet, which has room for six.
Carried(v, w) ==
  SubSeq(<<v[3], v[4], w[1], w[2], w[3], w[4]>>, 1,
         IF v[2] % 16 <= PacketBytes THEN v[2] % 16 ELSE PacketBytes)

\* The second word of a system exclusive packet, after v.
AbsorbSecond(r, v, w) ==
  LET form  == v[2] \div 16
      bytes == Carried(v, w)
      all   == IF form \in {SYSEX7_IN_1, SYSEX7_START} THEN bytes ELSE r.payload \o bytes
  IN  IF form \in {SYSEX7_IN_1, SYSEX7_END}
      THEN After(r, <<>>, <<>>, <<ReadMessage(v, SYSEX_START, all)>>)
      ELSE After(r, <<>>, all, <<>>)

\* The reader r after one more word.
Absorb(r, w) ==
  IF r.first # <<>> THEN AbsorbSecond(r, r.first[1], w)
  ELSE IF MessageType(w) = MT_DATA64 THEN After(r, <<w>>, r.payload, <<>>)
  ELSE After(r, <<>>, r.payload,
             <<ReadMessage(w, w[2], SubSeq(<<w[3], w[4]>>, 1, DataBytes(w[2])))>>)

\* ... and after some words.
AbsorbAll(r, words) ==
  LET absorbed[n \in 0 .. Len(words)] ==
        IF n = 0 THEN r ELSE Absorb(absorbed[n - 1], words[n])
  IN  absorbed[Len(words)]
===============================================================================
