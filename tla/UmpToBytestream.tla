---------------------------- MODULE UmpToBytestream ----------------------------
(***************************************************************************)
(* midi2::bytestream::to_bytestream: the translator from UMP words to a    *)
(* MIDI 1.0 byte stream with running status (ump_to_bytestream.hpp), with   *)
(* the dispatcher it holds and the client that drains it after every push. *)
(***************************************************************************)
EXTENDS UmpDispatcher

CONSTANTS
  Input,    \* the words the client pushes
  Filters   \* the bitmaps it passes to group_filter(), as sets of groups

ASSUME ClientAssumption ==
  /\ Input \subseteq Word
  /\ Filters \subseteq SUBSET Group

VARIABLES
  only_groups,  \* the groups that are translated
  status,       \* the last status byte emitted, or None
  output,       \* the bytes that wait to be popped, oldest first
  refused       \* output.push_back() returned false in the last push

context == <<only_groups, status, output, refused>>
vars == <<message, context>>

None == 0         \* no byte below 128 is a status
WrongOutputSize == 4
OutputSize == 8   \* adt::fifo<std::byte, 8>

-------------------------------------------------------------------------------
(* context_type::push_back().  Each handler emits one status byte, or two    *)
(* for a system exclusive message, and data bytes that never are one.        *)

\* push_back() of bytes that get as far as the FIFO; a full one drops them.
Emit(bytes) ==
  LET all == output \o bytes
  IN  /\ output' = SubSeq(all, 1, IF Len(all) <= OutputSize THEN Len(all) ELSE OutputSize)
      /\ refused' = (Len(all) > OutputSize)

\* A status byte that repeats the running status is left out.
Running(s) == IF status = s THEN <<>> ELSE <<s>>

-------------------------------------------------------------------------------
(* The handlers.  w is the first word of the packet m.                       *)

Passes(w) == GroupOf(w) \in only_groups

Bits7(b) == b % 128

\* message_size<status> - 1
DataLength(s) ==
  IF IsOneByteMessage(s) THEN 1 ELSE IF s < SYSEX_START \/ s = SPP THEN 2 ELSE 0

ShortData(w) == SubSeq(<<Bits7(w[3]), Bits7(w[4])>>, 1, DataLength(w[2]))

\* write_sysex_bytes(): the packet's first number_of_bytes() bytes, six at most.
SysexData(m) ==
  LET count == m[1][2] % 16
  IN  SubSeq(<<Bits7(m[1][3]), Bits7(m[1][4]), Bits7(m[2][1]),
               Bits7(m[2][2]), Bits7(m[2][3]), Bits7(m[2][4])>>,
             1, IF count <= PacketBytes THEN count ELSE PacketBytes)

\* A packet that is filtered, or that the null backends take.
Silent(w) ==
  \/ ~Passes(w)
  \/ Handler(w) = Unknown
  \/ MessageType(w) \notin {MT_SYSTEM, MT_M1CVM, MT_DATA64}

Skip == Emit(<<>>) /\ UNCHANGED <<only_groups, status>>

IsShort(w) == ~Silent(w) /\ MessageType(w) # MT_DATA64

\* A real-time message becomes running status.
WrongRealTime(w) ==
  /\ IsShort(w) /\ IsSystemRealTime(w[2])
  /\ Emit(<<w[2]>>)
  /\ status' = w[2]
  /\ UNCHANGED only_groups

\* class system, the real-time messages.
RealTime(w) ==
  /\ IsShort(w) /\ IsSystemRealTime(w[2])
  /\ Emit(<<w[2]>>)
  /\ UNCHANGED <<only_groups, status>>

\* class system, the others, and class m1cvm.
Short(w) ==
  /\ IsShort(w) /\ ~IsSystemRealTime(w[2])
  /\ Emit(Running(w[2]) \o ShortData(w))
  /\ status' = w[2]
  /\ UNCHANGED only_groups

IsSysex(w, form) == ~Silent(w) /\ Handler(w) = <<MT_DATA64, form>>

SysexIn1(m) ==
  /\ IsSysex(m[1], SYSEX7_IN_1)
  /\ IF SysexData(m) # <<>>
     THEN /\ Emit(Running(SYSEX_START) \o SysexData(m) \o <<SYSEX_STOP>>)
          /\ status' = SYSEX_STOP
          /\ UNCHANGED only_groups
     ELSE Skip

SysexStart(m) ==
  /\ IsSysex(m[1], SYSEX7_START)
  /\ Emit(Running(SYSEX_START) \o SysexData(m))
  /\ status' = SYSEX_START
  /\ UNCHANGED only_groups

\* A continue packet without a start gets through.
WrongSysexContinue(m) ==
  /\ IsSysex(m[1], SYSEX7_CONTINUE)
  /\ Emit(SysexData(m))
  /\ UNCHANGED <<only_groups, status>>

\* Without a preceding start, a continue or end packet is skipped.
SysexContinue(m) ==
  /\ IsSysex(m[1], SYSEX7_CONTINUE)
  /\ IF status = SYSEX_START
     THEN Emit(SysexData(m)) /\ UNCHANGED <<only_groups, status>>
     ELSE Skip

SysexEnd(m) ==
  /\ IsSysex(m[1], SYSEX7_END)
  /\ IF status = SYSEX_START
     THEN /\ Emit(SysexData(m) \o <<SYSEX_STOP>>)
          /\ status' = SYSEX_STOP
          /\ UNCHANGED only_groups
     ELSE Skip

Handle(m) ==
  \/ Silent(m[1]) /\ Skip
  \/ RealTime(m[1])
  \/ Short(m[1])
  \/ SysexIn1(m)
  \/ SysexStart(m)
  \/ SysexContinue(m)
  \/ SysexEnd(m)

-------------------------------------------------------------------------------
\* push(w)
Push(w) ==
  \/ Collect(w) /\ Skip
  \/ Complete(w) /\ Handle(Received(w))

\* pop(), whose precondition is !empty()
Pop ==
  /\ output # <<>>
  /\ output' = Tail(output)
  /\ UNCHANGED <<message, only_groups, status, refused>>

\* group_filter(bitmap): no group at all means every group.
GroupFilter(groups) ==
  /\ only_groups' = IF groups = {} THEN Group ELSE groups
  /\ UNCHANGED <<message, status, output, refused>>

\* reset() is that of the context: the dispatcher keeps the words it has.
Reset ==
  /\ only_groups' = Group
  /\ status' = None
  /\ output' = <<>>
  /\ refused' = FALSE
  /\ UNCHANGED message

\* The documented client has read everything when it pushes a word.
Send(w) == output = <<>> /\ Push(w)

Init ==
  /\ message = <<>>
  /\ only_groups = Group
  /\ status = None
  /\ output = <<>>
  /\ refused = FALSE

Next ==
  \/ \E w \in Input : Send(w)
  \/ Pop
  \/ \E groups \in Filters : GroupFilter(groups)
  \/ Reset

Spec == Init /\ [][Next]_vars

-------------------------------------------------------------------------------
(* Every variable has its type; the dispatcher's array is never overrun (the *)
(* assertion of dispatch()) and the last status emitted is one.              *)
TypeOK ==
  /\ message \in Seq(Word)
  /\ Len(message) < 4
  /\ only_groups \in (SUBSET Group) \ {{}}
  /\ status = None \/ (status \in Byte /\ IsStatusByte(status))
  /\ output \in Seq(Byte)
  /\ Len(output) <= OutputSize
  /\ refused \in BOOLEAN

(* The longest message a packet can become, F0, six bytes and F7, just fits  *)
(* the output FIFO: under the documented drain no byte is ever dropped.      *)
NothingRefused == ~refused
===============================================================================
