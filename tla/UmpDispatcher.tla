----------------------------- MODULE UmpDispatcher -----------------------------
(***************************************************************************)
(* midi2::ump::ump_dispatcher: collects the words of one UMP packet and     *)
(* then calls the handler its first word selects (ump_dispatcher.hpp).      *)
(* What a handler does belongs to the module that extends this one.         *)
(***************************************************************************)
EXTENDS MidiBytes

VARIABLE message  \* the first pos_ words of message_: the packet so far

\* A definition named Wrong... is a bug the properties of the modules that
\* extend this one must catch; no other definition uses it.
WrongMessageSize(mt) ==
  IF mt \in {MT_UTILITY, MT_SYSTEM, MT_M1CVM, 6, 7} THEN 1
  ELSE IF mt \in {MT_DATA64, MT_M2CVM, 8, 9, 10, 11} THEN 2
  ELSE IF mt = 12 THEN 3
  ELSE 4

\* ump_message_size(): the words of a packet of message type mt.
MessageSize(mt) ==
  IF mt \in {MT_UTILITY, MT_SYSTEM, MT_M1CVM, 6, 7} THEN 1
  ELSE IF mt \in {MT_DATA64, MT_M2CVM, 8, 9, 10} THEN 2
  ELSE IF mt \in {11, 12} THEN 3
  ELSE 4

-------------------------------------------------------------------------------
(* Which handler: a pair of message type and status, or Unknown.            *)

Unknown == <<>>
Text    == 256   \* a flex data packet of any status bank but 0

\* The statuses with a handler of their own.
UtilityStatus == 0 .. 4
SystemStatus  == {TIMING_CODE, SPP, SONG_SELECT, TUNE_REQUEST, TIMING_CLOCK,
                  SEQUENCE_START, SEQUENCE_CONTINUE, SEQUENCE_STOP,
                  ACTIVE_SENSING, SYSTEM_RESET}
M1cvmStatus   == 8 .. 14
Data64Status  == {SYSEX7_IN_1, SYSEX7_START, SYSEX7_CONTINUE, SYSEX7_END}
M2cvmStatus   == 0 .. 15 \ {7}
StreamStatus  == 0 .. 6 \union 16 .. 18 \union 32 .. 33
Data128Status == 0 .. 3 \union 8 .. 9
FlexStatus    == {0, 1, 2, 5, 6, Text}

Handlers ==
  {MT_UTILITY} \X UtilityStatus \union {MT_SYSTEM} \X SystemStatus
    \union {MT_M1CVM} \X M1cvmStatus \union {MT_DATA64} \X Data64Status
    \union {MT_M2CVM} \X M2cvmStatus \union {MT_DATA128} \X Data128Status
    \union {MT_FLEX} \X FlexStatus \union {MT_STREAM} \X StreamStatus

\* The status field, whose place depends on the message type.
StatusField(w) ==
  IF MessageType(w) = MT_SYSTEM THEN w[2]
  ELSE IF MessageType(w) = MT_STREAM THEN 256 * (w[1] % 4) + w[2]
  ELSE IF MessageType(w) = MT_FLEX THEN IF w[3] = 0 THEN w[4] ELSE Text
  ELSE w[2] \div 16

\* The handler for the packet that starts with word w.
Handler(w) ==
  LET selected == <<MessageType(w), StatusField(w)>>
  IN  IF selected \in Handlers THEN selected ELSE Unknown

-------------------------------------------------------------------------------
(* dispatch(w).                                                             *)

Received(w) == Append(message, w)
WrongIsComplete(w) ==
  Len(Received(w)) > MessageSize(MessageType(Received(w)[1]))
IsComplete(w) ==
  Len(Received(w)) >= MessageSize(MessageType(Received(w)[1]))

\* The packet wants more words.
Collect(w) == ~IsComplete(w) /\ message' = Received(w)

WrongComplete(w) == IsComplete(w) /\ message' = Received(w)

\* The packet is complete: its handler is called with Received(w).
Complete(w) == IsComplete(w) /\ message' = <<>>

\* reset(): the words of an incomplete packet are forgotten.
WrongResetDispatcher == UNCHANGED message
ResetDispatcher == message' = <<>>
===============================================================================
