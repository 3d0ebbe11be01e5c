-------------------------------- MODULE UsbLink --------------------------------
(***************************************************************************)
(* A USB host, usbm1_to_bytestream for one of its cables, and the client   *)
(* that pushes each byte it pops into to_ump and reads the words of that.  *)
(***************************************************************************)
EXTENDS HostLink, UsbToBytestream

CONSTANTS
  Packets,  \* the bytes that the host puts into one packet, but for more data of
            \* a system exclusive message
  Payload   \* what the n-th data byte of a system exclusive message may be

\* A system common or channel voice message, all of it.
IsMessage(s) ==
  /\ s[1] >= NOTE_OFF /\ s[1] # SYSEX_START
  /\ \/ Len(s) = 2 /\ IsOneByteMessage(s[1])
     \/ Len(s) = 3 /\ TakesTwoBytes(s[1])
  /\ \A i \in 2 .. Len(s) : ~IsStatusByte(s[i])

\* The first packet of a system exclusive message.
IsOpening(s) ==
  /\ Len(s) \in 2 .. 3 /\ s[1] = SYSEX_START
  /\ \A i \in 2 .. Len(s) - 1 : ~IsStatusByte(s[i])
  /\ s[Len(s)] = SYSEX_STOP \/ (Len(s) = 3 /\ ~IsStatusByte(s[3]))

\* The USB MIDI class has a packet hold a message, a part of a system exclusive
\* message, or any single byte.
ASSUME UsbAssumption ==
  /\ \A s \in Packets : s \in Seq(Input) /\ (Len(s) = 1 \/ IsMessage(s) \/ IsOpening(s))
  /\ Payload \in Seq({data \in SUBSET Input : \A b \in data : ~IsStatusByte(b)})
  /\ SYSEX_STOP \in Input

VARIABLES
  owed,    \* the bytes that the host has sent for the cable, not yet pushed
  packet   \* {the packet that they are from}

usbvars == <<linkvars, usb, owed, packet>>

\* The data bytes of the message in progress are numbered from 1.
DataByte(n) == IF n \in DOMAIN Payload THEN Payload[n] ELSE {}

\* What the host puts into a packet while a system exclusive message is open.
More ==
  LET n == Len(Seen.payload \o Filled)
  IN  {<<a>> : a \in DataByte(n + 1)}
        \union {<<a, SYSEX_STOP>> : a \in DataByte(n + 1)}
        \union {<<a, b, SYSEX_STOP>> : a \in DataByte(n + 1), b \in DataByte(n + 2)}
        \union {<<a, b, c>> : a \in DataByte(n + 1), b \in DataByte(n + 2),
                              c \in DataByte(n + 3)}

Contents ==
  IF sysex7.state = "none" THEN Packets
  ELSE More \union {s \in Packets : IsStatusByte(s[1])}

\* The code index number for some bytes: the high half of a channel voice status,
\* or what the USB MIDI class says of the others.  Any single byte may have 15.
CodeIndices(s) ==
  IF Len(s) = 1 THEN IF s[1] \in {TUNE_REQUEST, SYSEX_STOP} THEN {5, 15} ELSE {15}
  ELSE IF s[Len(s)] = SYSEX_STOP THEN {4 + Len(s)}
  ELSE IF s[1] \in NOTE_OFF .. SYSEX_START - 1 THEN {s[1] \div 16}
  ELSE IF s[1] \in {TIMING_CODE, SPP, SONG_SELECT} THEN {Len(s)}
  ELSE {4}

UsbLinkInit ==
  /\ LinkInit /\ UsbInit
  /\ owed = <<>> /\ packet = {}

\* The client has popped the bytes of a packet when the host sends the next one, and
\* read all words if that has more than one byte (a bound: LinkSend would wait).
HostSends(c, s, cin) ==
  LET p == [cable |-> c, cin |-> cin, data |-> SubSeq(s \o <<0, 0>>, 1, 3)]
  IN  /\ owed = <<>> /\ (output = <<>> \/ Len(s) = 1)
      /\ bytes = <<>> /\ PushPacket(p)
      /\ IF c = cable THEN owed' = s /\ packet' = {p} ELSE UNCHANGED <<owed, packet>>
      /\ UNCHANGED linkvars

Forward ==
  /\ bytes # <<>>
  /\ LET b == Head(bytes)
     IN  PopByte /\ LinkSend(b)
  /\ owed' = SubSeq(owed, 2, Len(owed))
  /\ packet' = IF Len(owed) <= 1 THEN {} ELSE packet

ReadWord == LinkPop /\ UNCHANGED <<usb, owed, packet>>

\* The rest of a packet means something else to a to_ump that starts anew.
RestartToUmp == LinkRestart /\ packet' = {} /\ UNCHANGED <<usb, owed>>

RestartCable ==
  /\ ResetUsb \/ \E c \in Cables : SetCable(c)
  /\ owed' = <<>> /\ packet' = {}
  /\ UNCHANGED linkvars

UsbLinkNext ==
  \/ \E c \in Cables, s \in Contents : \E cin \in CodeIndices(s) : HostSends(c, s, cin)
  \/ Forward \/ ReadWord \/ RestartToUmp \/ RestartCable

UsbLinkSpec == UsbLinkInit /\ [][UsbLinkNext]_usbvars

-------------------------------------------------------------------------------
\* The message that a packet holds is over with its last byte, and a system
\* exclusive message is open or not as its code index number says.
Whole(p) ==
  \/ p.cin = 15
  \/ p.cin = 4 /\ sysex7.state # "none"
  \/ p.cin # 4 /\ sysex7.state = "none" /\ d1 = Unknown

\* The bytes of a packet for the cable, all of them and no padding, are what is
\* pushed next, through other cables' packets; and the two translators agree on how
\* many bytes a message has (usbm1_to_bytestream.hpp:92-107, 131-155 and
\* bytestream_to_ump.cpp:96-140).
PacketsHeard ==
  [][/\ bytes' = owed'
     /\ heard' # heard /\ packet' = {} => \A p \in packet : Whole(p)']_usbvars
===============================================================================
