---------------------------- MODULE CiCreateMessage ----------------------------
(***************************************************************************)
(* create_message() (ci_create_message.hpp): the bytes of a message, in an *)
(* output range that has a limited room for them.                           *)
(***************************************************************************)
EXTENDS CiTypes

\* The fields of a part, and the elements of its array.
PackedField(field, object) ==
  to_le7(IF field.name = "reserved" THEN {} ELSE object[field.name] \intersect field.carried,
         field.size)
PackedLength(part, object) ==
  IF part.tail = "" THEN <<>> ELSE to_le7(BitsOf(Len(object[part.tail])), 2)
PackedTail(part, object) ==
  IF part.tail = "" THEN <<>>
  ELSE FlattenSeq([i \in DOMAIN object[part.tail] |->
                     to_le7(object[part.tail][i], part.unit)])
Packed(part, object) ==
  FlattenSeq([i \in DOMAIN part.fields |-> PackedField(part.fields[i], object)])
    \o PackedLength(part, object) \o PackedTail(part, object)

\* The header of a message, with its number as the second sub-ID.
PackedHeader(h, id) ==
  <<BitsOf(126), h.device_id, BitsOf(13), BitsOf(id), BitsOf(h.version)>>
    \o to_le7(h.remote_muid, 4) \o to_le7(h.local_muid, 4)

\* The bytes that are written, and the position that is returned.
Nothing == [bytes |-> <<>>, at |-> 0]

\* A definition named Wrong... is a bug that the properties must catch; no other
\* definition uses it.
WrongSafeCopy(out, room, bytes) ==
  IF out.at + Len(bytes) < room
  THEN [bytes |-> out.bytes \o bytes, at |-> out.at + Len(bytes)]
  ELSE out

\* safe_copy(), write_packed_with_tail(): nothing is written, and the end of the
\* range returned, unless a byte of it is left over.
SafeCopy(out, room, bytes) ==
  IF out.at + Len(bytes) < room
  THEN [bytes |-> out.bytes \o bytes, at |-> out.at + Len(bytes)]
  ELSE [out EXCEPT !.at = room]

\* create_message().  A message has two parts at most.
CreateMessage(type, h, object, room) ==
  LET parts == Parts(type, h.version)
      head  == SafeCopy(Nothing, room, PackedHeader(h, Messages[type].id))
      WritePart(out, i) ==
        IF i > Len(parts) \/ parts[i] = Fixed(<<>>) THEN out
        ELSE SafeCopy(out, room, Packed(parts[i], object))
  IN  IF parts = NotAvailable THEN Nothing ELSE WritePart(WritePart(head, 1), 2)
===============================================================================
