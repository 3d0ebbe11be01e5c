---------------------------- MODULE PropertyExchange ----------------------------
(***************************************************************************)
(* Property exchange over the CI link: the header of a message is text, its *)
(* data may be bytes of eight bits.  The sender writes them with the text   *)
(* transcoder and the encoder of the library, or writes text of its own     *)
(* make; the receiver reads both with the library.                          *)
(***************************************************************************)
EXTENDS CiLink, Mcoded7, Ci7Text

CONSTANT
  Written  \* what is meant, each with the message that it is written in

-------------------------------------------------------------------------------
(* What characters say: a reference for the reader of text, after the grammar *)
(* of JSON strings, with a token for each way in which text is malformed.     *)

\* A code unit of UTF-16 in hexadecimal: its digits, and which are small letters.
CodeUnits ==
  [kind : {"unit"}, digits : [1 .. 4 -> 0 .. 15], small : SUBSET (1 .. 4)]
UnitOf(u) == 4096 * u.digits[1] + 256 * u.digits[2] + 16 * u.digits[3] + u.digits[4]
IsHigh(t) == t.kind = "unit" /\ UnitOf(t) \in high_surrogates
IsLow(t)  == t.kind = "unit" /\ UnitOf(t) \in low_surrogates

\* A character stands for itself or, after a backslash, perhaps for another one; a
\* unit or a pair of them is one character.  A unit is broken by a character where a
\* digit should be; the last token may be cut off.
Tokens ==
  [kind : {"character"}, char : 0 .. 127 \ {backslash}]
    \union [kind : {"letter"}, char : 0 .. 127 \ {letter_u}]
    \union CodeUnits
    \union [kind : {"pair"}, high : {u \in CodeUnits : IsHigh(u)},
            low : {u \in CodeUnits : IsLow(u)}]
    \union [kind : {"broken"}, unit : CodeUnits, size : 2 .. 5,
            char : {c \in 0 .. 127 : ~IsHex(c)}]
    \union [kind : {"cut"}, unit : CodeUnits, size : 1 .. 5]

HexChar(v, small) == IF v < 10 THEN 48 + v ELSE IF small THEN 87 + v ELSE 55 + v
CharsOfUnit(u) ==
  <<backslash, letter_u>> \o [i \in 1 .. 4 |-> HexChar(u.digits[i], i \in u.small)]

CharsOf(t) ==
  CASE t.kind = "character" -> <<t.char>>
    [] t.kind = "letter"    -> <<backslash, t.char>>
    [] t.kind = "unit"      -> CharsOfUnit(t)
    [] t.kind = "pair"      -> CharsOfUnit(t.high) \o CharsOfUnit(t.low)
    [] t.kind = "broken"    -> Append(SubSeq(CharsOfUnit(t.unit), 1, t.size), t.char)
    [] t.kind = "cut"       -> SubSeq(CharsOfUnit(t.unit), 1, t.size)

\* A surrogate without the other one is replaced.
MeaningOf(t) ==
  CASE t.kind = "character" -> <<t.char>>
    [] t.kind = "letter"    -> <<Control(t.char)>>
    [] t.kind = "unit"      ->
         IF IsHigh(t) \/ IsLow(t) THEN <<replacement_char>> ELSE <<UnitOf(t)>>
    [] t.kind = "pair"      ->
         <<65536 + 1024 * (UnitOf(t.high) - 55296) + (UnitOf(t.low) - 56320)>>
    [] OTHER                -> <<>>
IsGood(t) ==
  \/ t.kind \in {"character", "pair"}
  \/ t.kind = "letter" /\ IsEscape(t.char)
  \/ t.kind = "unit" /\ ~IsHigh(t) /\ ~IsLow(t)

\* A low surrogate after a high one would pair with it, even across broken units.
AwaitsLow(tokens, n) ==
  \E i \in 1 .. n : /\ IsHigh(tokens[i])
                    /\ \A j \in i + 1 .. n : tokens[j].kind = "broken"
IsTokens(tokens) ==
  /\ tokens \in Seq(Tokens)
  /\ \A i \in DOMAIN tokens :
       /\ tokens[i].kind = "cut" => i = Len(tokens)
       /\ IsLow(tokens[i]) => ~AwaitsLow(tokens, i - 1)

-------------------------------------------------------------------------------
(* Text, by the library and by others.                                      *)

CodePoints ==
  {c \in Nat : c <= 1114111 /\ c \notin high_surrogates /\ c \notin low_surrogates}

IsText(t) ==
  \/ t.by = "library" /\ t.points \in Seq(CodePoints)
  \/ t.by = "another" /\ IsTokens(t.tokens)

WrittenAs(t) ==
  IF t.by = "library" THEN EncodeText(t.points)
  ELSE FlattenSeq([i \in DOMAIN t.tokens |-> CharsOf(t.tokens[i])])
MeantBy(t) ==
  IF t.by = "library" THEN t.points
  ELSE FlattenSeq([i \in DOMAIN t.tokens |-> MeaningOf(t.tokens[i])])
WellFormed(t) ==
  t.by = "library" \/ \A i \in DOMAIN t.tokens : IsGood(t.tokens[i])

\* A message has the characters in its header and the encoded data as its data; a
\* get message has none.
ASSUME WrittenAssumption ==
  \A w \in Written :
    /\ IsText(w.text) /\ w.data \in Seq(SUBSET (0 .. 7))
    /\ w.content \in Content /\ w.content.type \in PropertyExchange
    /\ w.content.type = "pe_get" => w.data = <<>>
    /\ w.content.object.header =
         [i \in DOMAIN WrittenAs(w.text) |-> BitsOf(WrittenAs(w.text)[i])]
    /\ w.content.object.data = EncodeMcoded7(w.data)

\* A handler has been called for such a message.
ToldOf(c, w) == c[1] = w.content.type /\ \E m \in sent : m.content = w.content

\* Text that goes through the header of a message is read back whatever it
\* contains, through backslashes, escapes and surrogate pairs, and text that is
\* not well formed is told from text that is (ci7text.hpp:87-112, 131-250).
TextSurvives ==
  \A c \in ToSet(calls) : \A w \in Written : ToldOf(c, w) =>
    LET read == DecodeText([i \in DOMAIN c[3].header |-> Number(c[3].header[i])])
    IN  read.out = MeantBy(w.text) /\ read.well_formed = WellFormed(w.text)

\* Eight-bit data that go through a message are read back, however many bytes the
\* last group has (mcoded7.hpp:143-186).
DataSurvives ==
  \A c \in ToSet(calls) : \A w \in Written : ToldOf(c, w) =>
    LET read == DecodeMcoded7(c[3].data)
    IN  read.out = w.data /\ good(read)
===============================================================================
