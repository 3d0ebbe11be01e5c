-------------------------------- MODULE MidiLink --------------------------------
(***************************************************************************)
(* A MIDI 2.0 application reaches another one over a link that carries     *)
(* MIDI 1.0 messages: to_midi1 at one end, ump_to_midi2 at the other.  A    *)
(* MIDI 1.0 device is on the same link and its messages merge with those   *)
(* of the application, each on channels of its own.  The clients of the    *)
(* translators pop everything before they push again, as mainpage.md says. *)
(***************************************************************************)
EXTENDS ToMidi1, ToMidi2

CONSTANTS
  Messages,     \* the messages that the application sends
  Transactions, \* what the device sends: sequences of messages
  MaxSent,      \* messages and transactions that are begun (a bound)
  MaxLink       \* messages on the link (a bound)

(* What there is to send, by the fields of the messages: what may be on a     *)
(* MIDI 1.0 link, and the MIDI 2.0 channel voice messages.                    *)
Number7  == SUBSET AllOnes7
Types    == 0 .. 15 \ {MT_M1CVM, MT_M2CVM}
Statuses(mt) ==
  IF mt = MT_SYSTEM THEN Byte
  ELSE IF mt = MT_FLEX THEN 0 .. Dispatcher!Text
  ELSE IF mt = MT_STREAM THEN 0 .. 1023
  ELSE 0 .. 15
Others   == {m \in [mt : Types, status : Nat] : m.status \in Statuses(m.mt)}

\* Those that mean something: the enumerations of namespace mt, and text.  The
\* reserved message types have none.
Defined ==
  {MT_UTILITY} \X {0, 1, 2, 3, 4} \union {MT_DATA64} \X {0, 1, 2, 3}
    \union {MT_SYSTEM} \X {241, 242, 243, 246, 248, 250, 251, 252, 254, 255}
    \union {MT_FLEX} \X {0, 1, 2, 5, 6, Dispatcher!Text}
    \union {MT_STREAM} \X {0, 1, 2, 3, 4, 5, 6, 16, 17, 18, 32, 33}
    \union {MT_DATA128} \X {0, 1, 2, 3, 8, 9}
Meaningful(m) == <<m.mt, m.status>> \in Defined \ {<<MT_UTILITY, 0>>}

M1Values ==
  {m \in [mt : {MT_M1CVM}, status : Valued, at : Channels, index : Number7,
          value : SUBSET (0 .. 13)] : m.value \subseteq 0 .. M1Width(m.status) - 1}
M1Programs ==
  [mt : {MT_M1CVM}, status : {program_change}, at : Channels, index : Number7, bank : {{}}]
M1Messages == M1Values \union M1Programs \union Others

M2Values ==
  {m \in [mt : {MT_M2CVM}, status : Valued, at : Channels, index : Number7,
          value : SUBSET (0 .. 31)] : m.value \subseteq 0 .. M2Width(m.status) - 1}
M2Programs ==
  [mt : {MT_M2CVM}, status : {program_change}, at : Channels, index : Number7,
   bank : Optional(Number7 \X Number7)]
M2Parameters ==
  [mt : {MT_M2CVM}, status : {rpn, nrpn}, at : Channels, index : Number7 \X Number7,
   value : SUBSET (0 .. 31)]
M2Rest ==
  [mt : {MT_M2CVM}, status : 0 .. 15 \ (Valued \union {program_change, rpn, nrpn}),
   at : Channels, index : Number7, value : SUBSET (0 .. 31)]
M2Messages == M2Values \union M2Programs \union M2Parameters \union M2Rest

ASSUME LinkAssumption ==
  /\ MaxSent \in Nat /\ MaxLink \in Nat
  /\ Channels \subseteq (0 .. 15) \X (0 .. 15)
  /\ Messages \subseteq M1Messages \union M2Messages
  /\ Transactions \subseteq Seq(M1Messages) \ {<<>>}

VARIABLES
  source,    \* {the message that to_midi1 was given} until it is on the link
  script,    \* what remains of the device's transaction
  link,      \* the messages on the link
  begun,     \* how many messages and transactions have been begun
  holds,     \* history: what a MIDI 1.0 receiver on the link has been told
  applied,   \* history: a message just sent, and what such a receiver made of it
  expected,  \* history: the messages that should arrive at the other end
  received   \* history: what has just arrived, and what was expected

environment ==
  <<source, script, link, begun, holds, applied, expected, received>>
vars == <<vars1, vars2, environment>>

-------------------------------------------------------------------------------
(* A MIDI 1.0 receiver: the bank, and the parameter that data entry changes *)
(* with the MSB that it has been given.  The MSB of a parameter number, with *)
(* its kind, is pending until its LSB follows.                              *)

Knows(banks, parameter, pending, value_msb) ==
  [bank |-> banks, parameter |-> parameter, pending |-> pending,
   value_msb |-> value_msb]

Unaware == Knows(<<{}, {}>>, {}, {}, {})

NullRpn == <<rpn, <<AllOnes7, AllOnes7>>>>

KindOf(m) == IF m.index \in {rpn_msb, rpn_lsb} THEN rpn ELSE nrpn

Told(h, m) ==
  IF m.mt # MT_M1CVM \/ m.status # control_change THEN h
  ELSE IF m.index = bank_select
  THEN Knows(<<{m.value}, h.bank[2]>>, h.parameter, h.pending, h.value_msb)
  ELSE IF m.index = bank_select_lsb
  THEN Knows(<<h.bank[1], {m.value}>>, h.parameter, h.pending, h.value_msb)
  ELSE IF m.index \in {rpn_msb, nrpn_msb}
  THEN Knows(h.bank, {}, {<<KindOf(m), m.value>>}, h.value_msb)
  ELSE IF m.index \in {rpn_lsb, nrpn_lsb}
  THEN Knows(h.bank, {<<q[1], <<q[2], m.value>>>> : q \in h.pending} \ {NullRpn}, {}, {})
  ELSE IF m.index = data_entry_msb
  THEN Knows(h.bank, h.parameter, h.pending, {m.value})
  ELSE IF m.index = reset_all_controllers THEN Knows(h.bank, {}, {}, {})
  ELSE h

\* What message m tells a receiver that holds h, as MIDI 2.0 messages: none
\* unless it completes something.  Values keep the resolution of MIDI 1.0.
Meant(h, m) ==
  IF m.mt # MT_M1CVM THEN IF Meaningful(m) THEN <<m>> ELSE <<>>
  ELSE IF m.status = program_change
  THEN <<Program(MT_M2CVM, m.at, m.index, h.bank[1] \X h.bank[2])>>
  ELSE IF IsControl(m, {data_entry_lsb})
  THEN Listed({Voice(MT_M2CVM, k[1][1], m.at, k[1][2], Joined(k[2], m.value)) :
                 k \in h.parameter \X h.value_msb})
  ELSE IF IsControl(m, Controls \ {reset_all_controllers}) THEN <<>>
  ELSE <<Voice(MT_M2CVM, m.status, m.at, m.index, m.value)>>

-------------------------------------------------------------------------------
(* The application, the device and the clients of the translators.          *)

Init ==
  /\ ToMidi1Init /\ ToMidi2Init
  /\ source = {} /\ script = <<>> /\ link = <<>> /\ begun = 0
  /\ holds = [at \in Channels |-> Unaware]
  /\ applied = <<>> /\ expected = <<>> /\ received = <<>>

IsVoice(m) == m.mt \in {MT_M1CVM, MT_M2CVM}
MeantNow(m) == Meant(IF IsVoice(m) THEN holds[m.at] ELSE Unaware, m)

Quiet == applied' = <<>> /\ received' = <<>>

\* Message m goes on the link.
Carry(m) ==
  /\ Len(link) < MaxLink
  /\ link' = Append(link, m)
  /\ expected' = expected \o MeantNow(m)
  /\ holds' = IF IsVoice(m) THEN [holds EXCEPT ![m.at] = Told(@, m)] ELSE holds

\* The application pushes a message when to_midi1 is empty.
Push(m) ==
  /\ begun < MaxSent /\ begun' = begun + 1
  /\ output1 = <<>> /\ Push1(m)
  /\ source' = IF output1' = <<>> THEN {} ELSE {m}
  /\ UNCHANGED <<vars2, script, link, holds, expected>>
  /\ Quiet

\* Its client puts what it pops on the link; with the last message the receiver
\* knows what was meant.
Forward ==
  LET m == Head(output1)
  IN  /\ Pop1 /\ Carry(m)
      /\ IF Len(output1) = 1
         THEN \E s \in source : source' = {} /\ applied' = <<s, MeantNow(m)>>
         ELSE UNCHANGED source /\ applied' = <<>>
      /\ received' = <<>>
      /\ UNCHANGED <<vars2, script, begun>>

\* A sender of MIDI 1.0 gives an LSB of a parameter number after its MSB, enters a
\* value only when no MSB is pending, and an LSB alone only when it has sent the MSB
\* or no parameter is selected.
MaySend(h, m) ==
  /\ IsControl(m, {rpn_lsb, nrpn_lsb}) => \E q \in h.pending : q[1] = KindOf(m)
  /\ IsControl(m, {data_entry_msb, data_entry_lsb}) => h.pending = {}
  /\ IsControl(m, {data_entry_lsb}) => h.parameter = {} \/ h.value_msb # {}
MaySendNow(m) == IsVoice(m) => MaySend(holds[m.at], m)

\* It may leave a transaction unfinished for another one.
DeviceBegins(t) ==
  /\ begun < MaxSent /\ begun' = begun + 1
  /\ MaySendNow(Head(t))
  /\ script' = t
  /\ UNCHANGED <<vars1, vars2, source, link, holds, expected>>
  /\ Quiet

DeviceSends ==
  /\ script # <<>> /\ script' = Tail(script)
  /\ MaySendNow(Head(script))
  /\ Carry(Head(script))
  /\ UNCHANGED <<vars1, vars2, source, begun>>
  /\ Quiet

\* The client at the other end pushes the next message and pops what came of it.
Receive ==
  /\ link # <<>> /\ output2 = <<>>
  /\ Push2(Head(link)) /\ link' = Tail(link)
  /\ UNCHANGED <<vars1, source, script, begun, holds, expected>>
  /\ Quiet

Deliver ==
  /\ Pop2
  /\ IF expected = <<>>
     THEN received' = <<Head(output2)>> /\ UNCHANGED expected
     ELSE received' = <<Head(output2), Head(expected)>> /\ expected' = Tail(expected)
  /\ applied' = <<>>
  /\ UNCHANGED <<vars1, source, script, link, begun, holds>>

\* to_midi1 is reset between two messages or while it is being emptied.
ResetSender ==
  /\ Reset1 /\ source' = {}
  /\ UNCHANGED <<vars2, script, link, begun, holds, expected>>
  /\ Quiet

\* Everything is reset, the receivers as well, when nothing is under way.
ResetAll ==
  /\ output1 = <<>> /\ script = <<>> /\ link = <<>> /\ output2 = <<>>
  /\ Reset1 /\ Reset2
  /\ holds' = [at \in Channels |-> Unaware]
  /\ UNCHANGED <<source, script, link, begun, expected>>
  /\ Quiet

Next ==
  \/ \E m \in Messages : Push(m)
  \/ \E t \in Transactions : DeviceBegins(t)
  \/ DeviceSends
  \/ Forward \/ Receive \/ Deliver
  \/ ResetSender \/ ResetAll

\* The loops that pop from the translators go on until these are empty.
Spec ==
  /\ Init /\ [][Next]_vars
  /\ WF_vars(Forward) /\ WF_vars(Receive) /\ WF_vars(Deliver)

-------------------------------------------------------------------------------
Receivers ==
  [bank : Optional(Number7) \X Optional(Number7),
   parameter : Optional({rpn, nrpn} \X (Number7 \X Number7)),
   pending : Optional({rpn, nrpn} \X Number7), value_msb : Optional(Number7)]
Banks == [msb : Optional(Number7), lsb : Optional(Number7)]
ParameterNumbers ==
  [is_rpn : BOOLEAN, msb : Optional(Number7), lsb : Optional(Number7),
   value_msb : Optional(Number7)]

\* The fields of all messages have their width, the values that were scaled too; in
\* the cache are numbers of channels; to_midi1 holds output exactly while a message
\* is under way (ump_to_midi2.hpp:90-147, ump_to_midi1.hpp:76-104).
TypeOK ==
  /\ output1 \in Seq(M1Messages) /\ output2 \in Seq(M2Messages \union Others)
  /\ script \in Seq(M1Messages) /\ link \in Seq(M1Messages)
  /\ \A key \in DOMAIN pn_cache :
       /\ \E at \in Channels, k \in BOOLEAN : key = PnKey(at, k)
       /\ pn_cache[key] \in Number7 \X Number7
  /\ bank \in [Channels -> Banks]
  /\ parameter_number \in [Channels -> ParameterNumbers]
  /\ holds \in [Channels -> Receivers]
  /\ source \in Optional(Messages)
  /\ source = {} <=> output1 = <<>>

\* The four words of the output FIFOs take what one message yields, four control
\* changes for a parameter included (ump_to_midi1.hpp:103, context_type::push).
NothingRefused == ~refused1 /\ ~refused2

\* A MIDI 1.0 receiver takes what to_midi1 sends for a message to mean that
\* message: the parameter number that to_midi1 believes the receiver holds is the
\* one it holds (ump_to_midi1.cpp:121-145, the cache and its reset).
Dropped(n, value) == {b - n : b \in {c \in value : c >= n}}
Intended(m) ==
  IF m.status \notin {rpn, nrpn}
  THEN <<Voice(MT_M2CVM, m.status, m.at, m.index,
               Dropped(M2Width(m.status) - M1Width(m.status), m.value))>>
  ELSE IF <<m.status, m.index>> = NullRpn THEN <<>>
  ELSE <<Voice(MT_M2CVM, m.status, m.at, m.index, Dropped(18, m.value))>>
Conveyed(m, meant) ==
  IF m.mt # MT_M2CVM THEN Len(meant) = 1
  ELSE IF m.status = program_change
  THEN meant[1].index = m.index /\ (m.bank # {} => meant[1].bank = m.bank)
  ELSE meant = Intended(m)
MeaningSurvives == applied # <<>> => Conveyed(applied[1], applied[2])

\* The messages that a MIDI 1.0 receiver of to_midi1 can follow: on each channel
\* the application sends one kind of parameters only, no control change of the
\* numbers that mean something to a receiver, and nobody else sends there.
IsParameter(m) == m.mt = MT_M2CVM /\ m.status \in {rpn, nrpn}
Disciplined(messages, transactions) ==
  /\ \A p, q \in messages :
       IsParameter(p) /\ IsParameter(q) /\ p.at = q.at => p.status = q.status
  /\ \A m \in messages : IsVoice(m) /\ m.status = control_change => m.index \notin Controls
  /\ \A m \in messages, t \in transactions : \A i \in DOMAIN t :
       IsVoice(m) /\ IsVoice(t[i]) => m.at # t[i].at

\* What arrives at the far end is what a MIDI 1.0 receiver would have understood,
\* in that order; values are scaled up so that they keep their bits, and nothing,
\* the centre and everything stay that (ump_to_midi2.cpp:59-163, ump_utils.hpp).
Agrees(got, want) ==
  /\ "value" \notin DOMAIN got => got = want
  /\ "value" \in DOMAIN got =>
       LET width == IF got.status \in {rpn, nrpn} THEN 14 ELSE M1Width(got.status)
           more == (IF got.status \in {rpn, nrpn} THEN 32 ELSE M2Width(got.status)) - width
       IN  /\ [got EXCEPT !.value = {}] = [want EXCEPT !.value = {}]
           /\ {b - more : b \in got.value \ 0 .. more - 1} = want.value
           /\ want.value \in {{}, {width - 1}} =>
                got.value = {b + more : b \in want.value}
           /\ want.value = 0 .. width - 1 => got.value = 0 .. width + more - 1
FarEndAgrees ==
  received # <<>> => Len(received) = 2 /\ Agrees(received[1], received[2])

\* Every message that is complete on the link arrives, and to_midi1 is emptied.
Delivered ==
  /\ (expected # <<>>) ~> (expected = <<>>)
  /\ (source # {}) ~> (source = {})
===============================================================================
