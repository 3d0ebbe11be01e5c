------------------------------- MODULE MidiSender -------------------------------
(***************************************************************************)
(* What a translator from UMP packets to a MIDI 1.0 byte stream promises   *)
(* the device at the other end: the message of every packet of a selected  *)
(* group, with its status and data, in the order of the packets.           *)
(*                                                                         *)
(* A byte stream has one system exclusive message at a time and no groups, *)
(* so that the packets of all the selected groups feed the same one:       *)
(* a start while one is open goes on with it, and a message that is not    *)
(* real-time cuts it short.  A tune request directly after a tune request  *)
(* is not sent again.                                                      *)
(***************************************************************************)
EXTENDS MidiBytes

CONSTANTS Packets, Filters

VARIABLES
  groups,  \* the selected groups
  packet,  \* the packet that has just been translated, or <<>>
  open,    \* <<the bytes so far>> of the open system exclusive message, or <<>>
  tuned,   \* the last message that was not real-time is a tune request
  done     \* the messages that are complete and not yet read, oldest first

vars == <<groups, packet, open, tuned, done>>

Message(s, bytes) == [status |-> s, data |-> bytes]

SoFar == IF open = <<>> THEN <<>> ELSE open[1]

\* The open message, cut short.
Cut == IF open = <<>> THEN <<>> ELSE <<Message(SYSEX_START, SoFar)>>

Skipped(p) ==
  /\ \/ p.group \notin groups
     \/ p.kind = "other"
     \/ p.kind = "in_1" /\ p.data = <<>>
     \/ p.kind \in {"continue", "end"} /\ open = <<>>
     \/ p.kind = "short" /\ p.status = TUNE_REQUEST /\ tuned
  /\ UNCHANGED <<open, tuned, done>>

RealTime(p) ==
  /\ p.kind = "realtime"
  /\ done' = Append(done, Message(p.status, <<>>))
  /\ UNCHANGED <<open, tuned>>

Short(p) ==
  /\ p.kind = "short"
  /\ ~(p.status = TUNE_REQUEST /\ tuned)
  /\ done' = done \o Cut \o <<Message(p.status, p.data)>>
  /\ open' = <<>>
  /\ tuned' = (p.status = TUNE_REQUEST)

\* A packet that leaves a system exclusive message open.
Extend(p) ==
  /\ p.kind = "start" \/ (p.kind = "continue" /\ open # <<>>)
  /\ open' = <<SoFar \o p.data>>
  /\ tuned' = FALSE
  /\ UNCHANGED done

\* A packet that completes one.
Finish(p) ==
  /\ (p.kind = "in_1" /\ p.data # <<>>) \/ (p.kind = "end" /\ open # <<>>)
  /\ done' = Append(done, Message(SYSEX_START, SoFar \o p.data))
  /\ open' = <<>>
  /\ tuned' = FALSE

Translate(p) ==
  /\ packet' = <<p>>
  /\ UNCHANGED groups
  /\ \/ Skipped(p)
     \/ p.group \in groups /\ (RealTime(p) \/ Short(p) \/ Extend(p) \/ Finish(p))

\* The device reads a byte, which may be the last of some messages.
Read ==
  /\ packet' = <<>>
  /\ \E n \in 0 .. Len(done) : done' = SubSeq(done, n + 1, Len(done))
  /\ UNCHANGED <<groups, open, tuned>>

Select(gs) ==
  /\ groups' = IF gs = {} THEN Group ELSE gs
  /\ packet' = <<>>
  /\ UNCHANGED <<open, tuned, done>>

Init ==
  /\ groups = Group
  /\ packet = <<>>
  /\ open = <<>>
  /\ tuned = FALSE
  /\ done = <<>>

\* Everything in flight is lost.
Restart ==
  /\ groups' = Group
  /\ packet' = <<>>
  /\ open' = <<>>
  /\ tuned' = FALSE
  /\ done' = <<>>

Next ==
  \/ \E p \in Packets : Translate(p)
  \/ Read
  \/ \E gs \in Filters : Select(gs)
  \/ Restart

Spec == Init /\ [][Next]_vars
===============================================================================
