-------------------------------- MODULE MCCiLink --------------------------------
(***************************************************************************)
(* Every message of the library in both versions, and in one to come; and   *)
(* property exchange messages with text in the header and encoded data.     *)
(***************************************************************************)
EXTENDS PropertyExchange

MyMuid    == {0, 8, 16, 27}
OtherMuid == {0, 8, 16, 26}
MCMine    == {<<0, MyMuid>>}
MCHandlers ==
  (Types \ {"pe_notify"}) \union {"unknown_midici", "buffer_overflow"}

Hdr(version, muid) ==
  [version |-> version, device_id |-> {6}, remote_muid |-> {1, 9, 17, 25},
   local_muid |-> muid]

\* Every second and third bit, from a place that the field determines.
Pattern(from, step, bits) == {b \in bits : (b + from) % step # 0}

Element(k, unit) == Pattern(k, 2, 0 .. 7 * unit - 1)

Object(type, step, lengths) ==
  LET parts == Messages[type].v2
      ValueOf(name) ==
        LET i == CHOOSE k \in DOMAIN parts :
                   name \in FieldNames(parts[k]) \union {parts[k].tail}
            f == parts[i].fields
        IN  IF parts[i].tail = name
            THEN [k \in 1 .. lengths[i] |-> Element(k, parts[i].unit)]
            ELSE LET j == CHOOSE k \in DOMAIN f : f[k].name = name
                 IN  Pattern(j, step, f[j].carried)
  IN  [name \in Members(parts) |-> ValueOf(name)]

Of(type, version, muid, step, lengths) ==
  [type |-> type, header |-> Hdr(version, muid), object |-> Object(type, step, lengths)]

\* A profile inquiry reply has at least one enabled profile, and NAK has no
\* version 1: see README.md.
Lengths(type) ==
  CASE type = "profile_inquiry_reply"  -> {<<1, 0>>, <<2, 1>>}
    [] type \in {"pe_set", "pe_get"}   -> {<<0, 0>>, <<2, 0>>, <<0, 3>>, <<2, 3>>}
    [] type \in PropertyExchange       -> {<<1, 2>>}
    [] type = "ack"                    -> {<<0>>, <<1>>, <<7>>, <<8>>}
    [] Arrays(Messages[type].v2) # {}  -> {<<0>>, <<3>>}
    [] OTHER                           -> {<<0>>}

\* Texts as the library writes them, as a sender of another make may write them,
\* and as nobody should.
Text(points) == [by |-> "library", points |-> points]
Foreign7(tokens) == [by |-> "another", tokens |-> tokens]

Char(c)         == [kind |-> "character", char |-> c]
Letter(c)       == [kind |-> "letter", char |-> c]
Unit(a, b, c, d) ==
  [kind |-> "unit", digits |-> <<a, b, c, d>>, small |-> {1, 4}]
Pair(u, v)      == [kind |-> "pair", high |-> u, low |-> v]
BrokenBy(u, n, c) == [kind |-> "broken", unit |-> u, size |-> n, char |-> c]
CutOffAt(u, n)    == [kind |-> "cut", unit |-> u, size |-> n]

High1 == Unit(13, 8, 0, 15)
Low1  == Unit(13, 15, 10, 0)
Texts ==
  <<Text(<<>>), Text(<<97, 92, 117, 34>>), Text(<<127, 128, 65533>>),
    Text(<<65559, 98, 65563>>), Text(<<1114111, 65535>>),
    Foreign7(<<Letter(110), Letter(34), Letter(47), Letter(116)>>),
    Foreign7(<<Unit(0, 0, 14, 9), Unit(0, 0, 12, 10), Pair(High1, Low1), Char(117)>>),
    Foreign7(<<Low1, BrokenBy(Unit(2, 6, 0, 0), 4, 32), Char(78), High1>>),
    Foreign7(<<Char(65), High1, Letter(110), High1, High1, CutOffAt(High1, 5)>>),
    Foreign7(<<Letter(113), High1, BrokenBy(Low1, 2, 92), Pair(High1, Low1),
               CutOffAt(Low1, 1)>>)>>

\* Data of up to two groups and a byte, with the sign bits here and there.
Bytes8(n) == [k \in 1 .. n |-> {b \in 0 .. 7 : (b + k) % 3 # 0}]
Data8 == <<0, 1, 6, 7, 8, 13, 14, 15, 3, 2>>

\* The text is the header, the data are encoded.
Carrying(chars, bytes) ==
  [type |-> "pe_set", header |-> Hdr(2, MyMuid),
   object |-> [request |-> {0}, number_of_chunks |-> {0}, chunk_number |-> {0},
               header |-> [i \in DOMAIN chars |-> BitsOf(chars[i])], data |-> bytes]]
MCWritten ==
  {[text |-> Texts[i], data |-> Bytes8(Data8[i]),
    content |-> Carrying(WrittenAs(Texts[i]), EncodeMcoded7(Bytes8(Data8[i])))] :
     i \in DOMAIN Texts}

MCContent ==
  {w.content : w \in MCWritten} \union
  {Of(type, version, MyMuid, version + 1, lengths) :
     <<type, version, lengths>> \in
       {c \in Types \X (0 .. 3) \X UNION {Lengths(t) : t \in Types} :
          /\ c[3] \in Lengths(c[1])
          /\ c[1] = "nak" => c[2] # 1
          /\ c[2] = 0 => c[1] \in {"endpoint", "pi_capability", "pi_capability_reply"}
          /\ c[2] = 3 => c[1] \in {"discovery", "pi_capability", "ack"}}}
    \union {Of("discovery", 2, muid, 2, <<0>>) : muid \in {OtherMuid, broadcast_muid}}
    \union {Of("endpoint_reply", 1, MyMuid, 2, <<130>>)}
MCRooms == {25, 1000}
MCExtra == {<<>>, <<{}>>}
MCDeviceIds == {{3}}

===============================================================================
