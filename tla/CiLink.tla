--------------------------------- MODULE CiLink ---------------------------------
(***************************************************************************)
(* MIDI-CI messages from one device to another: create_message() at one end, *)
(* a system exclusive message with the bytes, ci_dispatcher at the other.   *)
(* There is a new dispatcher for each message, which has no reset().         *)
(***************************************************************************)
EXTENDS CiCreateMessage, CiDispatcher

CONSTANTS
  Content,      \* the messages: type, header and object
  Rooms,        \* the sizes of the sender's buffer
  BufferSizes,  \* the sizes of the dispatcher's buffer
  Groups,       \* the groups and
  DeviceIds,    \*   device IDs that the receiver may be given
  Foreign,      \* the numbers of messages that the library does not have
  Extra         \* bytes that a sender of another make puts after a message

\* An object has for each member that a message carries a value of its width.
MaxLength == 16383  \* the length of an array has fourteen bits
Holds(object, part) ==
  /\ \A i \in DOMAIN part.fields :
       LET f == part.fields[i]
       IN  f.name # "reserved" => object[f.name] \subseteq f.carried
  /\ part.tail # "" =>
       /\ object[part.tail] \in Seq(SUBSET (0 .. 7 * part.unit - 1))
       /\ Len(object[part.tail]) <= MaxLength

Headers ==
  [version : 0 .. 127, device_id : SUBSET b7, remote_muid : SUBSET b28,
   local_muid : SUBSET b28]

\* A profile inquiry reply has at least one enabled profile, and NAK has no
\* version 1: see README.md.
IsMessage(m) ==
  LET v == m.header.version
  IN  /\ m.type \in Types /\ m.header \in Headers
      /\ DOMAIN m.object = Members(Messages[m.type].v2)
      /\ \A i \in DOMAIN Parts(m.type, v) : Holds(m.object, Parts(m.type, v)[i])
      /\ m.type = "profile_inquiry_reply" => m.object.enabled # <<>>
      /\ m.type = "nak" => v # 1

ASSUME LinkAssumption ==
  /\ \A m \in Content : IsMessage(m)
  /\ Rooms \subseteq Nat
  /\ \A n \in BufferSizes : n \in Nat /\ n >= HeaderSize
  /\ Handlers \subseteq Types \union {"unknown_midici", "buffer_overflow"}
  /\ Foreign \subseteq 0 .. 127 \ {Messages[t].id : t \in Types}
  /\ Extra \subseteq Seq(SUBSET b7)

VARIABLES
  wire,  \* the bytes of the message that are still to come
  sent   \* {the message that is under way}: history

vars == <<received, settings, wire, sent>>

Init ==
  /\ \E n \in BufferSizes :
       LET new == New(n)
       IN  /\ count = new.count /\ pos = new.pos /\ buffer = new.buffer
           /\ consumer = new.consumer /\ header = new.header /\ calls = new.calls
  /\ group = 0 /\ device_id = {}
  /\ wire = <<>> /\ sent = {}

\* The receiver's settings are changed between messages.
set_group(g) ==
  /\ sent = {} /\ group' = g
  /\ UNCHANGED <<received, device_id, wire, sent>>
set_device_id(d) ==
  /\ sent = {} /\ device_id' = d
  /\ UNCHANGED <<received, group, wire, sent>>

\* What is known of a message: content, the bytes that the receiver needs, how
\* many are sent, and how the receiver is set up.
Begin(m, bytes, extra) ==
  /\ wire' = bytes \o extra
  /\ sent' = {[content |-> m, needed |-> Len(bytes), size |-> Len(bytes \o extra),
               group |-> group, device_id |-> device_id, capacity |-> Len(buffer)]}
  /\ UNCHANGED <<received, settings>>

\* The sender gives up when create_message() returns the end of its buffer.
Send(m, room, extra) ==
  /\ sent = {}
  /\ LET out == CreateMessage(m.type, m.header, m.object, room)
     IN  /\ out.at \notin {0, room}
         /\ Begin(m, out.bytes, extra)

SendForeign(h, id) ==
  /\ sent = {}
  /\ Begin([type |-> "unknown", header |-> h], PackedHeader(h, id), <<{0}, {1}>>)

Receive ==
  /\ wire # <<>> /\ wire' = Tail(wire)
  /\ Dispatch(Head(wire))
  /\ UNCHANGED sent

\* The dispatcher is replaced by a new one.
Renew ==
  LET new == New(Len(buffer))
  IN  /\ count' = new.count /\ pos' = new.pos /\ buffer' = new.buffer
      /\ consumer' = new.consumer /\ header' = new.header /\ calls' = new.calls
      /\ UNCHANGED settings

\* The system exclusive message ends, or ends too early.
Finish ==
  /\ sent # {} /\ sent' = {}
  /\ wire = <<>> /\ UNCHANGED wire
  /\ Renew
CutOff ==
  /\ wire # <<>> /\ wire' = <<>>
  /\ sent' = {}
  /\ Renew

Next ==
  \/ \E g \in Groups : set_group(g)
  \/ \E d \in DeviceIds : set_device_id(d)
  \/ \E m \in Content, room \in Rooms, extra \in Extra : Send(m, room, extra)
  \/ \E m \in Content, id \in Foreign : SendForeign(m.header, id)
  \/ Receive \/ Finish \/ CutOff

\* The loop that dispatches the bytes of a message goes on to the end.
Spec == Init /\ [][Next]_vars /\ WF_vars(Receive \/ Finish)

-------------------------------------------------------------------------------
\* The calls that a message should lead to.
Known(m) == m.content.type \in Types

HeaderOf(m) == [m.content.header EXCEPT !.device_id = m.device_id]
ForMe(m) ==
  LET muid == m.content.header.local_muid
  IN  muid = broadcast_muid \/ <<m.group, muid>> \in Mine

Told(m) ==
  LET type == m.content.type
      old  == Members(Parts(type, m.content.header.version))
      lost == IF type = "pe_get" THEN {"data"} ELSE {}
      none(n) == IF n \in Arrays(Messages[type].v2) THEN <<>> ELSE {}
  IN  [n \in DOMAIN m.content.object |->
         IF n \in old \ lost THEN m.content.object[n] ELSE none(n)]

Fits(m) == m.needed - HeaderSize <= m.capacity

OutcomeOf(m) ==
  LET call == IF ~Known(m) THEN <<"unknown_midici", HeaderOf(m)>>
              ELSE IF ~ForMe(m) THEN <<"nobody">>
              ELSE IF ~Fits(m) THEN <<"buffer_overflow">>
              ELSE IF m.content.type \in ProcessInquiry /\ m.content.header.version <= 1
              THEN <<"nobody">>
              ELSE <<m.content.type, HeaderOf(m), Told(m)>>
  IN  IF call[1] \in Handlers THEN <<call>> ELSE <<>>

\* Only seven-bit bytes go into a system exclusive message.  A dispatcher never
\* stores beyond its buffer, and while it discards it cannot
\* run out of it (ci_dispatcher.hpp:749-785).
TypeOK ==
  /\ wire \in Seq(SUBSET b7)
  /\ pos \in 0 .. Len(buffer)
  /\ consumer \in Types \union {"header", "discard"}
  /\ consumer = "header" => pos + count = HeaderSize
  /\ consumer = "discard" => pos + count <= Len(buffer)
  /\ consumer \in Types => count > 0
  /\ header.version \in 0 .. 127

\* However the parts of a message are cut, whatever was there before and comes
\* after it: its handler is called once, with what create_message() was given, or
\* the message is reported as unknown or too long, or it is not for this device
\* (ci_dispatcher.hpp:241-745, ci_create_message.hpp:215-405, ci_types.hpp).
Transfer == INSTANCE CiTransfer WITH Outcome <- OutcomeOf, open <- wire # <<>>
Transferred == Transfer!Spec

\* The handler is called with the last byte of the message, neither earlier from
\* bytes that have not arrived, nor only when something follows; an overflow is
\* reported with the first byte that the buffer cannot take
\* (ci_dispatcher.hpp:759-785).
Awaited(m) ==
  IF ~Known(m) THEN HeaderSize
  ELSE IF Fits(m) THEN m.needed ELSE HeaderSize + m.capacity + 1
Prompt ==
  \A m \in sent :
    calls = IF m.size - Len(wire) >= Awaited(m) THEN OutcomeOf(m) ELSE <<>>
===============================================================================
