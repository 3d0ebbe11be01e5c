--------------------------- MODULE MCBytestreamToUmp ---------------------------
(***************************************************************************)
(* The to_ump translator between a USB host, of which usbm1_to_bytestream  *)
(* translates one cable, and a reader of its words.                        *)
(***************************************************************************)
EXTENDS UsbLink

CONSTANT MaxSysex   \* bound on the data bytes of one system exclusive message

\* One status byte of each kind, and two data bytes.
MCInput == {1, 2, NOTE_ON + 3, PROGRAM_CHANGE, SYSEX_START, SPP, SONG_SELECT,
            244, TUNE_REQUEST, SYSEX_STOP, TIMING_CLOCK}
\* Inside a system exclusive message each data byte is its position, so that a
\* lost, repeated or misplaced byte shows.
MCPayload == [n \in 1 .. MaxSysex |-> {n}]
AllInput == MCInput \union 1 .. MaxSysex
MCGroups == {0, 9}

\* A single byte, a message of each kind, or the beginning of a system exclusive
\* message.
MCPackets ==
  {<<b>> : b \in MCInput}
    \union {<<NOTE_ON + 3, 1, 2>>, <<SPP, 2, 1>>, <<PROGRAM_CHANGE, 2>>,
            <<SONG_SELECT, 1>>, <<SYSEX_START, 1, 2>>, <<SYSEX_START, SYSEX_STOP>>,
            <<SYSEX_START, 1, SYSEX_STOP>>}
===============================================================================
