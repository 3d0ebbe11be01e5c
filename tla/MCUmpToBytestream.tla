--------------------------- MODULE MCUmpToBytestream ---------------------------
(***************************************************************************)
(* The to_bytestream translator, its client and a device, over packets of  *)
(* each kind in two groups.                                                *)
(***************************************************************************)
EXTENDS DeviceLink

CONSTANT MaxSysex   \* bound on the data bytes of one system exclusive message

\* First words.  One-word packets of each kind, in two groups; system exclusive
\* packets that are empty, short, full, or claim more bytes than there is room
\* for; packets of two, three and four words that the translator skips.
MCShort == {<<0, 16, 0, 0>>,
            <<16, TIMING_CLOCK, 0, 0>>, <<16, SPP, 1, 2>>, <<16, 244, 0, 0>>,
            <<16, TUNE_REQUEST, 0, 0>>, <<25, TUNE_REQUEST, 0, 0>>,
            <<32, NOTE_ON + 3, 1, 130>>, <<41, NOTE_ON + 3, 1, 130>>,
            <<32, PROGRAM_CHANGE, 1, 0>>}
MCSysex == {<<48, 16 * SYSEX7_IN_1, 1, 2>>, <<57, 16 * SYSEX7_IN_1 + 6, 1, 2>>,
            <<48, 16 * SYSEX7_START + 3, 1, 2>>, <<57, 16 * SYSEX7_START, 1, 2>>,
            <<48, 16 * SYSEX7_CONTINUE + 15, 1, 2>>, <<57, 16 * SYSEX7_CONTINUE + 1, 1, 2>>,
            <<48, 16 * SYSEX7_END, 1, 2>>, <<57, 16 * SYSEX7_END + 2, 1, 2>>}
MCOther == {<<48, 64, 1, 2>>, <<64, NOTE_ON, 1, 0>>, <<176, 0, 0, 0>>, <<213, 0, 0, 0>>}
MCFirst == MCShort \union MCSysex \union MCOther
\* Words that follow, one of them with reserved bits set.
MCLater == {<<3, 4, 5, 6>>, <<131, 4, 133, 6>>}
MCInput == MCFirst \union MCLater
MCFilters == {{}, {0}, {9}}

\* The words the client may push next.
Sendable(w) ==
  IF partial # <<>> THEN w \in MCLater
  ELSE /\ w \in MCFirst
       /\ Kind(w) \in {"start", "continue"} =>
            (IsSysexOpen(Seen) => Len(Seen.data) + PacketBytes <= MaxSysex)

MCNext ==
  \/ \E w \in Input : Sendable(w) /\ LinkSend(w)
  \/ LinkPop
  \/ \E groups \in Filters : LinkGroupFilter(groups)
  \/ partial = <<>> /\ LinkReset

\* The client of LinkSpec, and one that calls reset() at any time.
MCSpec == LinkInit /\ [][MCNext]_linkvars
MCAnyResetSpec == LinkInit /\ [][MCNext \/ LinkReset]_linkvars

-------------------------------------------------------------------------------
(* UMPToBytestream.SystemTuneRequest (test_ump_to_bytestream.cpp:277-283)    *)
(* expects a tune request to be translated to its status byte.               *)
TuneRequestTranslated ==
  \A i \in DOMAIN packet :
    (packet[i].status = TUNE_REQUEST /\ packet[i].group \in only_groups)
      => output = <<TUNE_REQUEST>>
===============================================================================
