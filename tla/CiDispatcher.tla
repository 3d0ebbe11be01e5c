----------------------------- MODULE CiDispatcher -----------------------------
(***************************************************************************)
(* midi2::ci::ci_dispatcher (ci_dispatcher.hpp) with std::function handlers *)
(* (function_config): collects the bytes of one message, part by part, and  *)
(* calls the handler of the message when the last one is there.             *)
(***************************************************************************)
EXTENDS CiTypes

CONSTANTS
  Mine,      \* the pairs of a group and a MUID that check_muid accepts
  Handlers   \* the messages and events with a handler

VARIABLES
  count,      \* bytes that the consumer waits for
  pos,        \* bytes in the buffer
  buffer,
  consumer,   \* "header", "discard" or the type of the message
  header,     \* what the handlers are told of the message
  group,
  device_id,
  calls       \* the calls of handlers, each its name and its arguments

received == <<count, pos, buffer, consumer, header, calls>>
settings == <<group, device_id>>

HeaderSize == 13

\* A dispatcher that is new, with a buffer of n bytes.
New(n) ==
  [count |-> HeaderSize, pos |-> 0, buffer |-> [i \in 1 .. n |-> {}],
   consumer |-> "header", calls |-> <<>>,
   header |-> [device_id |-> {}, version |-> 1, remote_muid |-> {}, local_muid |-> {}]]

-------------------------------------------------------------------------------
(* Reading the buffer.                                                      *)

\* The bytes of a part before its array.
FixedSize(part) == SizeOf(part.fields) + (IF part.tail = "" THEN 0 ELSE 2)

Value(buf, from, n) == from_le7(SubSeq(buf, from + 1, from + n))

\* The length of the array of a part that begins at some offset.
Length(part, buf, from) ==
  IF part.tail = "" THEN 0 ELSE Number(Value(buf, from + SizeOf(part.fields), 2))
TailSize(part, buf, from) == part.unit * Length(part, buf, from)

\* The offset of the first or second part.
Start(parts, buf, i) ==
  IF i = 1 THEN 0 ELSE FixedSize(parts[1]) + TailSize(parts[1], buf, 0)

FieldValue(part, buf, from, name) ==
  LET i == CHOOSE k \in DOMAIN part.fields : part.fields[k].name = name
  IN  Value(buf, from + Sizes(part.fields)[i - 1], part.fields[i].size)
        \intersect part.fields[i].carried
TailValue(part, buf, from) ==
  [k \in 1 .. Length(part, buf, from) |->
     Value(buf, from + FixedSize(part) + part.unit * (k - 1), part.unit)]

\* make(): the members that the version of the message lacks have their default;
\* the data of a get message is not passed on.
Made(type, buf) ==
  LET parts == Parts(type, header.version)
      At(i) == Start(parts, buf, i)
      Has(name) == {i \in DOMAIN parts : name \in FieldNames(parts[i]) \union {parts[i].tail}}
      Read(name) ==
        IF Has(name) = {} THEN IF name \in Arrays(Messages[type].v2) THEN <<>> ELSE {}
        ELSE LET i == CHOOSE k \in Has(name) : TRUE
             IN  IF parts[i].tail = name THEN TailValue(parts[i], buf, At(i))
                 ELSE FieldValue(parts[i], buf, At(i), name)
  IN  [name \in Members(Messages[type].v2) |->
         IF type = "pe_get" /\ name = "data" THEN <<>> ELSE Read(name)]

-------------------------------------------------------------------------------
(* The consumers.  They find buf in the buffer; at bytes of it are new.      *)

Called(name, arguments) ==
  calls' = IF name \in Handlers THEN Append(calls, <<name>> \o arguments) ELSE calls

Discarding == consumer' = "discard" /\ count' = 0

\* The consumer waits for n more bytes.
Await(n, buf, at) ==
  /\ count' = n /\ pos' = at /\ buffer' = buf
  /\ UNCHANGED <<consumer, header, calls>>

\* The handler is called; what follows is discarded.
Handle(buf, at) ==
  /\ Called(consumer, <<header, Made(consumer, buf)>>)
  /\ Discarding /\ pos' = at /\ buffer' = buf
  /\ UNCHANGED header

\* Process inquiry began with version 2.
HandleInquiry(buf, at) ==
  \/ header.version > 1 /\ Handle(buf, at)
  \/ /\ header.version <= 1
     /\ Discarding /\ pos' = at /\ buffer' = buf
     /\ UNCHANGED <<header, calls>>

Single ==
  {"discovery", "discovery_reply", "endpoint", "invalidate_muid", "profile_set_on",
   "profile_set_off", "profile_enabled", "profile_disabled", "profile_added",
   "profile_removed", "profile_details", "pe_capability", "pe_capability_reply"}
WithArray ==
  {"ack", "nak", "endpoint_reply", "profile_details_reply", "profile_specific_data"}

\* ack(), nak() and the others whose only part may have an array.
ConsumeArray(buf, at) ==
  LET part == Parts(consumer, header.version)[1]
  IN  IF at = FixedSize(part) /\ Length(part, buf, 0) > 0
      THEN Await(TailSize(part, buf, 0), buf, at)
      ELSE Handle(buf, at)

\* profile_inquiry_reply(): the enabled profiles come with the number of the
\* disabled ones.
ConsumeProfiles(buf, at) ==
  LET parts == Parts(consumer, header.version)
      second == Start(parts, buf, 2)
  IN  IF Length(parts[1], buf, 0) > 0 /\ at = FixedSize(parts[1])
      THEN Await(TailSize(parts[1], buf, 0) + FixedSize(parts[2]), buf, at)
      ELSE IF Length(parts[2], buf, second) > 0 /\ at = second + FixedSize(parts[2])
      THEN Await(TailSize(parts[2], buf, second), buf, at)
      ELSE Handle(buf, at)

\* property_exchange(): the header, the second part, the data.
ConsumeExchange(buf, at) ==
  LET parts == Parts(consumer, header.version)
      second == Start(parts, buf, 2)
  IN  IF at = FixedSize(parts[1]) /\ Length(parts[1], buf, 0) > 0
      THEN Await(TailSize(parts[1], buf, 0), buf, at)
      ELSE IF at = second THEN Await(FixedSize(parts[2]), buf, at)
      ELSE IF at = second + FixedSize(parts[2]) /\ Length(parts[2], buf, second) > 0
      THEN Await(TailSize(parts[2], buf, second), buf, at)
      ELSE Handle(buf, at)

WrongDiscard(buf) ==
  /\ count' = Len(buf) /\ buffer' = buf
  /\ UNCHANGED <<pos, consumer, header, calls>>

\* discard(): as many bytes again as the buffer holds.
Discard(buf) ==
  /\ pos' = 0 /\ count' = Len(buf) /\ buffer' = buf
  /\ UNCHANGED <<consumer, header, calls>>

-------------------------------------------------------------------------------
(* header(): which consumer, and the bytes that it waits for first.          *)

WrongFirstSize(type, version) ==
  IF type = "nak" /\ version = 1 THEN 1
  ELSE IF Parts(type, version) = NotAvailable THEN 0
  ELSE FixedSize(Messages[type].v2[1])

\* Version 1 of NAK is an empty struct, the size of which is one.
FirstSize(type, version) ==
  IF type = "nak" /\ version = 1 THEN 1
  ELSE IF Parts(type, version) = NotAvailable THEN 0
  ELSE FixedSize(Parts(type, version)[1])

\* A message without a body: profile_inquiry() and the process inquiries, which
\* began with version 2.
ConsumeNothing(type, h) ==
  /\ IF type \in ProcessInquiry /\ h.version <= 1 THEN UNCHANGED calls
     ELSE Called(type, <<h, <<>>>>)
  /\ Discarding

Header(buf) ==
  LET found == {t \in Types : Messages[t].id = Number(buf[4])}
      h == [device_id   |-> device_id, version |-> Number(buf[5]),
            remote_muid |-> Value(buf, 5, 4), local_muid |-> Value(buf, 9, 4)]
      forUs == h.local_muid = broadcast_muid \/ <<group, h.local_muid>> \in Mine
  IN  /\ header' = h /\ pos' = 0 /\ buffer' = buf
      /\ \/ found = {} /\ Called("unknown_midici", <<h>>) /\ Discarding
         \/ found # {} /\ ~forUs /\ UNCHANGED calls /\ Discarding
         \/ \E t \in found :
              /\ forUs
              /\ IF FirstSize(t, h.version) = 0 THEN ConsumeNothing(t, h)
                 ELSE /\ consumer' = t /\ count' = FirstSize(t, h.version)
                      /\ UNCHANGED calls

-------------------------------------------------------------------------------
(* dispatch().                                                              *)

\* overflow(): a byte for which the buffer has no room.
Overflow ==
  /\ count > 0 /\ pos >= Len(buffer)
  /\ Called("buffer_overflow", <<>>)
  /\ Discarding /\ pos' = 0
  /\ UNCHANGED <<buffer, header>>

Consume(buf, at) ==
  \/ consumer = "header" /\ Header(buf)
  \/ consumer = "discard" /\ Discard(buf)
  \/ consumer \in Single /\ Handle(buf, at)
  \/ consumer \in ProcessInquiry /\ HandleInquiry(buf, at)
  \/ consumer \in WithArray /\ ConsumeArray(buf, at)
  \/ consumer = "profile_inquiry_reply" /\ ConsumeProfiles(buf, at)
  \/ consumer \in PropertyExchange /\ ConsumeExchange(buf, at)

\* The byte is stored, or ignored by a consumer that waits for nothing.
Store(byte) ==
  LET waiting == count > 0
      buf  == IF waiting THEN [buffer EXCEPT ![pos + 1] = byte] ELSE buffer
      at   == IF waiting THEN pos + 1 ELSE pos
      left == IF waiting THEN count - 1 ELSE 0
  IN  IF left = 0 THEN Consume(buf, at) ELSE Await(left, buf, at)

Dispatch(byte) ==
  /\ \/ Overflow
     \/ (count > 0 => pos < Len(buffer)) /\ Store(byte)
  /\ UNCHANGED settings
===============================================================================
