-------------------------------- MODULE HostLink --------------------------------
(***************************************************************************)
(* The to_ump translator with the client that pushes bytes and reads words, *)
(* and the abstract MIDI 1.0 receiver that the two implement.               *)
(***************************************************************************)
EXTENDS BytestreamToUmp, UmpReader

VARIABLES
  reader,  \* what the client has made of the words popped so far
  heard    \* the last byte it pushed, and whether it was an odd one

linkvars == <<vars, reader, heard>>

\* All that was and can be read of the stream so far.
Seen == AbsorbAll(reader, output)

\* A reader whose messages have been taken.
Emptied(r) == [first |-> r.first, payload |-> r.payload, messages |-> <<>>]

LinkInit ==
  /\ Init
  /\ reader = IdleReader
  /\ heard = [byte |-> 0, odd |-> FALSE]

LinkSend(b) ==
  /\ Send(b)
  /\ heard' = [byte |-> b, odd |-> ~heard.odd]
  /\ UNCHANGED reader

LinkPop ==
  /\ Pop
  /\ reader' = Emptied(Absorb(reader, Head(output)))
  /\ UNCHANGED heard

\* The client drops a half-read message along with the translator.
LinkRestart ==
  /\ Reset \/ \E g \in Groups : SetGroup(g)
  /\ reader' = IdleReader
  /\ UNCHANGED heard

LinkNext == (\E b \in Input : LinkSend(b)) \/ LinkPop \/ LinkRestart

LinkSpec == LinkInit /\ [][LinkNext]_linkvars

-------------------------------------------------------------------------------
\* The bytes of the packet being filled, and those of the message in progress.
Filled == [i \in 1 .. sysex7.pos |-> sysex7.bytes[i - 1]]

InProgress ==
  IF sysex7.state # "none" THEN Seen.payload \o Filled
  ELSE IF d1 # Unknown THEN <<d1>> ELSE <<>>

(* The translator and a UMP reader together are a MIDI 1.0 receiver: every    *)
(* message of the byte stream arrives, complete, unaltered, in order, with    *)
(* the translator's group, and nothing else does.                             *)
Receiver == INSTANCE MidiMessages WITH
  status <- d0,
  data <- InProgress,
  done <- Seen.messages

ImplementsReceiver == Receiver!Spec
===============================================================================
