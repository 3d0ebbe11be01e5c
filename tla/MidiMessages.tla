----------------------------- MODULE MidiMessages -----------------------------
(***************************************************************************)
(* What a translator from a MIDI 1.0 byte stream promises: the complete    *)
(* messages of the stream, each with its group, status and data, in the    *)
(* order in which they were completed.  A status holds until the next one  *)
(* (running status); a system exclusive message takes any number of data   *)
(* bytes and is complete at the next status byte; a real-time message is   *)
(* complete by itself and may come inside any other.  How messages are cut *)
(* into UMP packets is left to the translator.                             *)
(***************************************************************************)
EXTENDS MidiBytes

CONSTANTS Input, Groups

VARIABLES
  heard,   \* the last byte received, and whether it was an odd one
  group,   \* the group given to the messages
  status,  \* the status byte in force, or 0
  data,    \* the data bytes received of the message in progress
  done     \* the complete messages that are not yet delivered, oldest first

vars == <<heard, group, status, data, done>>

Message(s, bytes) == [group |-> group, status |-> s, data |-> bytes]

\* The data bytes that complete a message of status s.
Needs(s) ==
  IF IsOneByteMessage(s) THEN 1
  ELSE IF s \in NOTE_OFF .. PITCH_BEND + 15 \union {SPP} THEN 2
  ELSE 0

RealTime(b) ==
  /\ IsSystemRealTime(b)
  /\ done' = Append(done, Message(b, <<>>))
  /\ UNCHANGED <<group, status, data>>

Status(b) ==
  /\ IsStatusByte(b) /\ ~IsSystemRealTime(b)
  /\ done' = done
       \o (IF status = SYSEX_START THEN <<Message(SYSEX_START, data)>> ELSE <<>>)
       \o (IF b = TUNE_REQUEST THEN <<Message(b, <<>>)>> ELSE <<>>)
  /\ status' = b
  /\ data' = <<>>
  /\ UNCHANGED group

SysexData(b) ==
  /\ ~IsStatusByte(b)
  /\ status = SYSEX_START
  /\ data' = Append(data, b)
  /\ UNCHANGED <<group, status, done>>

Data(b) ==
  /\ ~IsStatusByte(b)
  /\ Len(data) + 1 < Needs(status)
  /\ data' = Append(data, b)
  /\ UNCHANGED <<group, status, done>>

LastData(b) ==
  /\ ~IsStatusByte(b)
  /\ Len(data) + 1 = Needs(status)
  /\ done' = Append(done, Message(status, Append(data, b)))
  /\ data' = <<>>
  /\ UNCHANGED <<group, status>>

\* Data without a status, or after one that takes none.
Ignored(b) ==
  /\ ~IsStatusByte(b)
  /\ Needs(status) = 0 /\ status # SYSEX_START
  /\ UNCHANGED <<group, status, data, done>>

\* Every byte is heard: none can be lost in a stuttering step.
Hear(b) ==
  /\ heard' = [byte |-> b, odd |-> ~heard.odd]
  /\ RealTime(b) \/ Status(b) \/ SysexData(b) \/ Data(b) \/ LastData(b) \/ Ignored(b)

Deliver ==
  /\ done # <<>>
  /\ done' = Tail(done)
  /\ UNCHANGED <<heard, group, status, data>>

\* Everything in flight is lost.
Restart(g) ==
  /\ group' = g
  /\ status' = 0
  /\ data' = <<>>
  /\ done' = <<>>
  /\ UNCHANGED heard

Init ==
  /\ heard = [byte |-> 0, odd |-> FALSE]
  /\ group \in Groups
  /\ status = 0
  /\ data = <<>>
  /\ done = <<>>

Next ==
  \/ \E b \in Input : Hear(b)
  \/ Deliver
  \/ \E g \in Groups \union {0} : Restart(g)

Spec == Init /\ [][Next]_vars
===============================================================================
