-------------------------------- MODULE Ci7Text --------------------------------
(***************************************************************************)
(* The text of MIDI-CI messages (ci7text.hpp): characters of seven bits, in *)
(* which the others are written as JSON escapes.  A text is a sequence of  *)
(* code points; the characters are numbers too.                            *)
(***************************************************************************)
EXTENDS Integers, Sequences, SequencesExt

backslash == 92
letter_u  == 117
replacement_char == 65533

-------------------------------------------------------------------------------
(* The icubaby transcoders between code points and UTF-16.                  *)

high_surrogates == 55296 .. 56319
low_surrogates  == 56320 .. 57343

t32_16(c) ==
  IF c < 65536 THEN <<c>>
  ELSE <<55296 + (c - 65536) \div 1024, 56320 + ((c - 65536) % 1024)>>

\* A high surrogate waits for its low one: high is 0 when there is none.
Outstanding(d) == d.high # 0
end_cp(d) ==
  IF Outstanding(d)
  THEN [d EXCEPT !.high = 0, !.out = Append(@, replacement_char), !.units_good = FALSE]
  ELSE d
t16_32(d, unit) ==
  IF unit \in low_surrogates /\ Outstanding(d)
  THEN [d EXCEPT !.high = 0,
          !.out = Append(@, 65536 + 1024 * (d.high - 55296) + (unit - 56320))]
  ELSE LET before == end_cp(d)
       IN  IF unit \in high_surrogates THEN [before EXCEPT !.high = unit]
           ELSE IF unit \in low_surrogates
           THEN [before EXCEPT !.out = Append(@, replacement_char), !.units_good = FALSE]
           ELSE [before EXCEPT !.out = Append(@, unit)]

-------------------------------------------------------------------------------
(* transcoder<char32_t, char>                                               *)

to_hex(v) == v + (IF v < 10 THEN 48 ELSE 55)
Escape(unit) ==
  <<backslash, letter_u>>
    \o [i \in 1 .. 4 |-> to_hex((unit \div 16 ^ (4 - i)) % 16)]

convert_from_32(c) ==
  IF c = backslash THEN <<c, c>>
  ELSE IF c < 2 ^ 7 THEN <<c>>
  ELSE FlattenSeq([i \in DOMAIN t32_16(c) |-> Escape(t32_16(c)[i])])

EncodeText(text) == FlattenSeq([i \in DOMAIN text |-> convert_from_32(text[i])])

-------------------------------------------------------------------------------
(* transcoder<char, char32_t>                                               *)

Normal == "normal"
\* The states that expect a digit of an escape, and what follows each.
Hex == [hex1 |-> "hex2", hex2 |-> "hex3", hex3 |-> "hex4", hex4 |-> Normal]

NewText == [state |-> Normal, hex |-> 0, high |-> 0, out |-> <<>>,
            well_formed |-> TRUE, units_good |-> TRUE]

IsHex(c) == c \in (48 .. 57) \union (65 .. 70) \union (97 .. 102)
Digit(c) == IF c <= 57 THEN c - 48 ELSE IF c <= 70 THEN c - 55 ELSE c - 87

\* A character that stands for itself, after what is left of a surrogate pair.
Plain(d, c) == [end_cp(d) EXCEPT !.out = Append(@, c), !.state = Normal]

\* escape_char(): the letters that stand for a control character.
Control(c) ==
  CASE c = 98  -> 8
    [] c = 102 -> 12
    [] c = 110 -> 10
    [] c = 114 -> 13
    [] c = 116 -> 9
    [] OTHER   -> c
IsEscape(c) == c \in {98, 102, 110, 114, 116, 34, backslash, 47}

escape_char(d, c) ==
  IF c = letter_u THEN [d EXCEPT !.state = "hex1", !.hex = 0]
  ELSE Plain([d EXCEPT !.well_formed = @ /\ IsEscape(c)], Control(c))

\* A definition named Wrong... is a bug that the properties must catch; no other
\* definition uses it.
WrongHexDigit(d, c) ==
  LET hex == 16 * d.hex + Digit(c)
  IN  IF ~IsHex(c) THEN [d EXCEPT !.state = Normal, !.hex = 0, !.well_formed = FALSE]
      ELSE IF d.state # "hex4" THEN [d EXCEPT !.state = Hex[d.state], !.hex = hex]
      ELSE [t16_32(end_cp(d), hex) EXCEPT !.state = Normal, !.hex = 0]

\* The fourth digit completes a code unit; any other character ends the escape
\* and is lost.  hex_ is sixteen bits wide.
HexDigit(d, c) ==
  LET hex == (16 * d.hex + Digit(c)) % 2 ^ 16
  IN  IF ~IsHex(c) THEN [d EXCEPT !.state = Normal, !.hex = 0, !.well_formed = FALSE]
      ELSE IF d.state # "hex4" THEN [d EXCEPT !.state = Hex[d.state], !.hex = hex]
      ELSE [t16_32(d, hex) EXCEPT !.state = Normal, !.hex = 0]

\* operator()
DecodeChar(d, c) ==
  IF c >= 2 ^ 7 THEN [d EXCEPT !.well_formed = FALSE]
  ELSE IF d.state \in DOMAIN Hex THEN HexDigit(d, c)
  ELSE IF d.state = "escape" THEN escape_char(d, c)
  ELSE IF c = backslash THEN [d EXCEPT !.state = "escape"]
  ELSE Plain(d, c)

\* A decoder is given all the characters, then end_cp() is called.
EndText(d) ==
  LET e == end_cp(d)
  IN  [e EXCEPT !.well_formed = @ /\ e.units_good /\ e.state = Normal]
DecodeAll(chars) ==
  LET decoder[n \in 0 .. Len(chars)] ==
        IF n = 0 THEN NewText ELSE DecodeChar(decoder[n - 1], chars[n])
  IN  decoder[Len(chars)]
DecodeText(chars) == EndText(DecodeAll(chars))
===============================================================================
