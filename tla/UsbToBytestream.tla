---------------------------- MODULE UsbToBytestream ----------------------------
(***************************************************************************)
(* midi2::bytestream::usbm1_to_bytestream: the MIDI 1.0 bytes of one cable *)
(* from USB-MIDI event packets (usbm1_to_bytestream.hpp).  A packet has a   *)
(* cable number, a code index number (cin) and three bytes.                *)
(***************************************************************************)
EXTENDS MidiBytes

CONSTANT Cables   \* the cables the client asks for

VARIABLES
  cable,  \* cable_
  bytes   \* output_: the bytes that wait to be popped, oldest first

usb == <<cable, bytes>>

UsbInit == cable \in Cables /\ bytes = <<>>

\* A definition named Wrong... is a bug that the properties must catch; no other
\* definition uses it.
Wrong_midi_x_size(cin) == <<0, 0, 2, 3, 3, 1, 3, 2, 3, 3, 3, 3, 2, 2, 3, 1>>[cin + 1]

\* How many of the three bytes a packet uses.
midi_x_size(cin) == <<0, 0, 2, 3, 3, 1, 2, 3, 3, 3, 3, 3, 2, 2, 3, 1>>[cin + 1]

\* push().  The FIFO has four slots.
PushPacket(p) ==
  /\ bytes' = IF p.cable # cable THEN bytes
              ELSE LET all == bytes \o SubSeq(p.data, 1, midi_x_size(p.cin))
                   IN  SubSeq(all, 1, IF Len(all) <= 4 THEN Len(all) ELSE 4)
  /\ UNCHANGED cable

\* pop(), whose precondition is !empty()
PopByte == bytes # <<>> /\ bytes' = Tail(bytes) /\ UNCHANGED cable

\* reset() and set_cable(): the bytes in flight are lost, and reset() also forgets
\* the cable.
RestartUsb(c) == cable' = c /\ bytes' = <<>>
ResetUsb    == RestartUsb(0)
SetCable(c) == RestartUsb(c)
===============================================================================
