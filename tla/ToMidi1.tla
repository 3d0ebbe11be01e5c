-------------------------------- MODULE ToMidi1 --------------------------------
(***************************************************************************)
(* midi2::ump::to_midi1: MIDI 2.0 UMP messages to MIDI 1.0 UMP messages     *)
(* (ump_to_midi1.hpp, ump_to_midi1.cpp).  Parameter numbers are sent when   *)
(* the cache does not hold them: the cache is module Cache, which           *)
(* plru_cache implements.                                                   *)
(***************************************************************************)
EXTENDS ChannelVoice

VARIABLES
  pn_cache,  \* context_type::pn_cache, by key
  pn_access, \* its last access
  output1,   \* context_type::output
  refused1   \* history: a message that did not fit the FIFO

vars1 == <<pn_cache, pn_access, output1, refused1>>

\* pn_cache_key
PnKey(at, is_rpn) == at[1] + 16 * at[2] + (IF is_rpn THEN 256 ELSE 0)

PnCache == INSTANCE Cache WITH
  Key <- 0 .. 511, Value <- {}, Sets <- 4, Ways <- 8, Accepted <- {},
  map <- pn_cache, ret <- pn_access

ToMidi1Init ==
  /\ PnCache!Init /\ output1 = <<>> /\ refused1 = FALSE

Emit1(messages) ==
  /\ output1' = Pushed(output1, messages)
  /\ refused1' = (refused1 \/ ~Fits(output1, messages))

-------------------------------------------------------------------------------
(* The handlers.  A handler ends what push() begins with the last word of   *)
(* a packet.  A definition named Wrong... is a bug the properties of        *)
(* MCMidiLink must catch; no other definition uses it.                      *)

Send1(messages) == Emit1(messages) /\ UNCHANGED <<pn_cache, pn_access>>

Pass1(in) ==
  in.mt \in {MT_SYSTEM, MT_M1CVM, MT_DATA64} /\ Handled(in) /\ Send1(<<in>>)

\* Utility, stream, flex data and 128-bit data have null backends, and so has
\* utility.unknown; what MIDI 1.0 cannot say is left out.
Drop1(in) ==
  /\ \/ ~Handled(in)
     \/ in.mt \in {MT_UTILITY, MT_DATA128, MT_FLEX, MT_STREAM}
     \/ in.mt = MT_M2CVM /\ in.status \notin Valued \union {program_change, rpn, nrpn}
  /\ UNCHANGED vars1

Value1(in) ==
  /\ in.mt = MT_M2CVM /\ in.status \in Valued
  /\ Send1(<<Voice(MT_M1CVM, in.status, in.at, in.index,
                   Scale(M2Width(in.status), M1Width(in.status), in.value))>>)

\* bank is {} or {<<msb, lsb>>}, as bank_valid says.
Program1(in) ==
  LET program == Program(MT_M1CVM, in.at, in.index, {})
  IN  /\ in.mt = MT_M2CVM /\ in.status = program_change
      /\ Send1(IF in.bank = {} THEN <<program>>
               ELSE <<Control(in.at, bank_select, Only(in.bank)[1]),
                      Control(in.at, bank_select_lsb, Only(in.bank)[2]), program>>)

\* send_controller_number()
Number(at, is_rpn, number) ==
  <<Control(at, IF is_rpn THEN rpn_msb ELSE nrpn_msb, number[1]),
    Control(at, IF is_rpn THEN rpn_lsb ELSE nrpn_lsb, number[2])>>
WrongDataEntry(at, value) ==
  LET scaled == Scale(32, 16, value)
  IN  <<Control(at, data_entry_msb, Hi7(scaled)),
        Control(at, data_entry_lsb, Lo7(scaled))>>
DataEntry(at, value) ==
  LET scaled == Scale(32, 14, value)
  IN  <<Control(at, data_entry_msb, Hi7(scaled)),
        Control(at, data_entry_lsb, Lo7(scaled))>>

\* A cached number that is not this one is stale.
Access(key, number) ==
  \/ PnCache!Hit(key, {number})
  \/ PnCache!Renew(key, {number}, number)
  \/ PnCache!Admit(key, number)

\* rpn_controller(), nrpn_controller() and pn_message().
Parameter1(in) ==
  LET is_rpn == in.status = rpn
  IN  /\ in.mt = MT_M2CVM /\ in.status \in {rpn, nrpn}
      /\ Access(PnKey(in.at, is_rpn), in.index)
      /\ Emit1(IF pn_access'.called
               THEN Number(in.at, is_rpn, in.index) \o DataEntry(in.at, in.value)
               ELSE DataEntry(in.at, in.value))

\* push() of the words of a message.
Push1(in) == Pass1(in) \/ Drop1(in) \/ Value1(in) \/ Program1(in) \/ Parameter1(in)

\* pop() of the words of a message.
Pop1 ==
  /\ output1 # <<>> /\ output1' = Tail(output1)
  /\ UNCHANGED <<pn_cache, pn_access, refused1>>

WrongReset1 == output1' = <<>> /\ UNCHANGED <<pn_cache, pn_access, refused1>>
Reset1 == PnCache!Clear /\ output1' = <<>> /\ UNCHANGED refused1
===============================================================================
