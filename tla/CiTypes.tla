-------------------------------- MODULE CiTypes --------------------------------
(***************************************************************************)
(* The MIDI-CI messages (ci_types.hpp): for each its number and the parts   *)
(* it has in version 1 and in later versions.  The value of a field is the *)
(* set of its one bits; a byte of a message is the set of its one bits.     *)
(***************************************************************************)
EXTENDS Integers, Sequences, SequencesExt

\* A field of n bytes, and a byte of which only some bits are carried.
Bytes(name, n)    == [name |-> name, size |-> n, carried |-> 0 .. 7 * n - 1]
Byte(name)        == Bytes(name, 1)
Flags(name, bits) == [name |-> name, size |-> 1, carried |-> bits]
Reserved(n)       == [name |-> "reserved", size |-> n, carried |-> {}]

\* A part of a message: fields, or fields and an array with its length.  The
\* elements of the array have unit bytes.
Fixed(fields)               == [fields |-> fields, tail |-> "", unit |-> 0]
Counted(fields, tail, unit) == [fields |-> fields, tail |-> tail, unit |-> unit]

Message(id, v1, v2) == [id |-> id, v1 |-> v1, v2 |-> v2]
Versions(id, v1, more) == Message(id, <<Fixed(v1)>>, <<Fixed(v1 \o more)>>)
Same(id, parts) == Message(id, parts, parts)

Empty        == <<Fixed(<<>>)>>
NotAvailable == <<>>

\* The bytes of the first n fields, for each n.
Sizes(fields) ==
  LET size[n \in 0 .. Len(fields)] ==
        IF n = 0 THEN 0 ELSE size[n - 1] + fields[n].size
  IN  size
SizeOf(fields) == Sizes(fields)[Len(fields)]

-------------------------------------------------------------------------------
(* Management messages.                                                     *)

Identity ==
  <<Bytes("manufacturer", 3), Bytes("family", 2), Bytes("model", 2),
    Bytes("version", 4), Byte("capability"), Bytes("max_sysex_size", 4)>>

discovery == Versions(112, Identity, <<Byte("output_path_id")>>)
discovery_reply ==
  Versions(113, Identity, <<Byte("output_path_id"), Byte("function_block")>>)
endpoint        == Same(114, <<Fixed(<<Byte("status")>>)>>)
endpoint_reply  == Same(115, <<Counted(<<Byte("status")>>, "information", 1)>>)
invalidate_muid == Same(126, <<Fixed(<<Bytes("target_muid", 4)>>)>>)

Acknowledged ==
  <<Counted(<<Byte("original_id"), Byte("status_code"), Byte("status_data"),
              Bytes("details", 5)>>, "message", 1)>>
ack == Same(125, Acknowledged)
nak == Message(127, Empty, Acknowledged)

-------------------------------------------------------------------------------
(* Profile configuration messages.                                          *)

Pid == <<Bytes("pid", 5)>>

profile_inquiry == Same(32, Empty)
profile_inquiry_reply ==
  Same(33, <<Counted(<<>>, "enabled", 5), Counted(<<>>, "disabled", 5)>>)
profile_set_on   == Versions(34, Pid, <<Bytes("num_channels", 2)>>)
profile_set_off  == Versions(35, Pid, <<Reserved(2)>>)
profile_enabled  == Versions(36, Pid, <<Bytes("num_channels", 2)>>)
profile_disabled == Versions(37, Pid, <<Bytes("num_channels", 2)>>)
profile_added    == Same(38, <<Fixed(Pid)>>)
profile_removed  == Same(39, <<Fixed(Pid)>>)
profile_details  == Same(40, <<Fixed(Pid \o <<Byte("target")>>)>>)
profile_details_reply == Same(41, <<Counted(Pid \o <<Byte("target")>>, "data", 1)>>)
profile_specific_data == Same(47, <<Counted(Pid, "data", 1)>>)

-------------------------------------------------------------------------------
(* Property exchange messages.                                              *)

Capabilities(id) ==
  Versions(id, <<Byte("num_simultaneous")>>,
           <<Byte("major_version"), Byte("minor_version")>>)
pe_capability       == Capabilities(48)
pe_capability_reply == Capabilities(49)

Exchange(id) ==
  Same(id, <<Counted(<<Byte("request")>>, "header", 1),
             Counted(<<Bytes("number_of_chunks", 2), Bytes("chunk_number", 2)>>,
                     "data", 1)>>)
pe_get       == Exchange(52)
pe_get_reply == Exchange(53)
pe_set       == Exchange(54)
pe_set_reply == Exchange(55)
pe_sub       == Exchange(56)
pe_sub_reply == Exchange(57)
pe_notify    == Exchange(63)

-------------------------------------------------------------------------------
(* Process inquiry messages: the flags of a report are the bits of its      *)
(* bytes.                                                                   *)

SystemMessage     == Flags("system_message", 0 .. 2)
ChannelController == Flags("channel_controller", 0 .. 5)
NoteDataMessages  == Flags("note_data_messages", 0 .. 4)

pi_capability       == Same(64, Empty)
pi_capability_reply == Message(65, NotAvailable, <<Fixed(<<Byte("features")>>)>>)
pi_mm_report ==
  Message(66, NotAvailable,
          <<Fixed(<<Byte("message_data_control"), SystemMessage, Reserved(1),
                    ChannelController, NoteDataMessages>>)>>)
pi_mm_report_reply ==
  Message(67, NotAvailable,
          <<Fixed(<<SystemMessage, Reserved(1), ChannelController, NoteDataMessages>>)>>)
pi_mm_report_end == Message(68, NotAvailable, Empty)

-------------------------------------------------------------------------------
Messages ==
  [discovery |-> discovery, discovery_reply |-> discovery_reply,
   endpoint |-> endpoint, endpoint_reply |-> endpoint_reply,
   invalidate_muid |-> invalidate_muid, ack |-> ack, nak |-> nak,
   profile_inquiry |-> profile_inquiry,
   profile_inquiry_reply |-> profile_inquiry_reply,
   profile_set_on |-> profile_set_on, profile_set_off |-> profile_set_off,
   profile_enabled |-> profile_enabled, profile_disabled |-> profile_disabled,
   profile_added |-> profile_added, profile_removed |-> profile_removed,
   profile_details |-> profile_details,
   profile_details_reply |-> profile_details_reply,
   profile_specific_data |-> profile_specific_data,
   pe_capability |-> pe_capability, pe_capability_reply |-> pe_capability_reply,
   pe_get |-> pe_get, pe_get_reply |-> pe_get_reply, pe_set |-> pe_set,
   pe_set_reply |-> pe_set_reply, pe_sub |-> pe_sub,
   pe_sub_reply |-> pe_sub_reply, pe_notify |-> pe_notify,
   pi_capability |-> pi_capability, pi_capability_reply |-> pi_capability_reply,
   pi_mm_report |-> pi_mm_report, pi_mm_report_reply |-> pi_mm_report_reply,
   pi_mm_report_end |-> pi_mm_report_end]

Types == DOMAIN Messages
ProcessInquiry ==
  {"pi_capability", "pi_capability_reply", "pi_mm_report", "pi_mm_report_reply",
   "pi_mm_report_end"}
PropertyExchange ==
  {"pe_get", "pe_get_reply", "pe_set", "pe_set_reply", "pe_sub", "pe_sub_reply",
   "pe_notify"}

\* The parts that a message of some type has in a version.
Parts(type, version) ==
  IF version = 1 THEN Messages[type].v1 ELSE Messages[type].v2

\* The members of the struct that represents a message of some type.
FieldNames(part) == {part.fields[i].name : i \in DOMAIN part.fields}
Members(parts) ==
  (UNION {FieldNames(p) \union {p.tail} : p \in ToSet(parts)}) \ {"", "reserved"}
Arrays(parts) == {p.tail : p \in ToSet(parts)} \ {""}

-------------------------------------------------------------------------------
(* Conversions.                                                             *)

b7  == 0 .. 6
b28 == 0 .. 27
broadcast_muid == b28

\* Numbers of fourteen bits: bit b of n is that of n halved b times.
BitsOf(n) ==
  LET halved[b \in 0 .. 13] == IF b = 0 THEN n ELSE halved[b - 1] \div 2
  IN  {b \in 0 .. 13 : halved[b] % 2 = 1}
\* The number of the n highest bits, for each n.
Number(bits) ==
  LET highest[n \in 0 .. 14] ==
        IF n = 0 THEN 0
        ELSE 2 * highest[n - 1] + (IF 14 - n \in bits THEN 1 ELSE 0)
  IN  highest[14]

\* to_le7, from_le7: seven bits to a byte, the least significant ones first.
to_le7(value, n) == [i \in 1 .. n |-> {b \in b7 : 7 * (i - 1) + b \in value}]
from_le7(bytes) ==
  UNION {{7 * (i - 1) + b : b \in bytes[i]} : i \in DOMAIN bytes}
===============================================================================
