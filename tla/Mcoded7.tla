-------------------------------- MODULE Mcoded7 --------------------------------
(***************************************************************************)
(* The Mcoded7 encoder and decoder (mcoded7.hpp): seven bytes of eight bits *)
(* are sent as eight bytes of seven.  A byte is the set of its one bits.    *)
(***************************************************************************)
EXTENDS Integers, Sequences

max_size == 8
msb == 7
seven_bits == 0 .. 6

\* pos_ bytes are held after the byte with their sign bits.
NewEncoder == [pos |-> 0, buffer |-> [i \in 0 .. max_size - 1 |-> {}], out |-> <<>>]

\* encoder::flush(), with the reset() that it ends with.
Flush(e) ==
  IF e.pos = 0 THEN e
  ELSE [pos |-> 0, buffer |-> [e.buffer EXCEPT ![0] = {}],
        out |-> e.out \o [i \in 1 .. e.pos + 1 |-> e.buffer[i - 1]]]

\* A definition named Wrong... is a bug that the properties must catch; no other
\* definition uses it.
WrongFull(e) == e.pos >= max_size - 2
\* encoder::parse_byte() flushes when the group has seven bytes.
Full(e) == e.pos >= max_size - 1

\* encoder::parse_byte().
EncodeByte(e, value) ==
  LET pos  == e.pos + 1
      sign == IF msb \in value THEN {msb - pos} ELSE {}
      held == [pos |-> pos, out |-> e.out,
               buffer |-> [e.buffer EXCEPT ![0] = @ \union sign,
                                           ![pos] = value \intersect seven_bits]]
  IN  IF Full(held) THEN Flush(held) ELSE held

\* An encoder is given all the bytes and then flushed.
EncodeAll(bytes) ==
  LET encoder[n \in 0 .. Len(bytes)] ==
        IF n = 0 THEN NewEncoder ELSE EncodeByte(encoder[n - 1], bytes[n])
  IN  encoder[Len(bytes)]
EncodeMcoded7(bytes) == Flush(EncodeAll(bytes)).out

-------------------------------------------------------------------------------
\* pos_ counts down from the byte with the sign bits.
NewDecoder == [msbs |-> {}, pos |-> msb, bad |-> FALSE, out |-> <<>>]

\* decoder::parse_byte().  pos_ is three bits wide.
DecodeByte(d, value) ==
  LET sign == IF d.pos \in d.msbs THEN {msb} ELSE {}
      pos  == (d.pos - 1) % 2 ^ 3
  IN  IF d.pos = msb THEN [msbs |-> value, pos |-> pos, bad |-> d.bad, out |-> d.out]
      ELSE [msbs |-> d.msbs, pos |-> pos, bad |-> d.bad \/ msb \in value,
            out |-> Append(d.out, value \union sign)]

\* A decoder is given all the bytes.
DecodeMcoded7(bytes) ==
  LET decoder[n \in 0 .. Len(bytes)] ==
        IF n = 0 THEN NewDecoder ELSE DecodeByte(decoder[n - 1], bytes[n])
  IN  decoder[Len(bytes)]
good(d) == ~d.bad
===============================================================================
