-------------------------------- MODULE ToMidi2 --------------------------------
(***************************************************************************)
(* midi2::ump::ump_to_midi2: MIDI 1.0 UMP messages to MIDI 2.0 UMP messages *)
(* (ump_to_midi2.hpp, ump_to_midi2.cpp).                                    *)
(***************************************************************************)
EXTENDS ChannelVoice

CONSTANT Channels  \* the pairs <<group, channel>> in use

VARIABLES
  bank,              \* context::bank: msb and lsb, {} when not valid
  parameter_number,  \* context::parameter_number, likewise
  output2,           \* context::output
  refused2           \* history: a message that did not fit the FIFO

vars2 == <<bank, parameter_number, output2, refused2>>

Bank(msb, lsb) == [msb |-> msb, lsb |-> lsb]
NoBank == Bank({}, {})

ParameterNumber(is_rpn, msb, lsb, value_msb) ==
  [is_rpn |-> is_rpn, msb |-> msb, lsb |-> lsb, value_msb |-> value_msb]
NoNumber == ParameterNumber(FALSE, {}, {}, {})

ToMidi2Init ==
  /\ bank = [at \in Channels |-> NoBank]
  /\ parameter_number = [at \in Channels |-> NoNumber]
  /\ output2 = <<>> /\ refused2 = FALSE

Emit2(messages) ==
  /\ output2' = Pushed(output2, messages)
  /\ refused2' = (refused2 \/ ~Fits(output2, messages))

-------------------------------------------------------------------------------
(* The handlers.  A definition named Wrong... is a bug the properties of    *)
(* MCMidiLink must catch; no other definition uses it.                      *)

Send2(messages) == Emit2(messages) /\ UNCHANGED <<bank, parameter_number>>

\* noop() and unknown() do nothing; all other handlers but those of MIDI 1.0 channel
\* voice messages send the message on as it is.
Drop2(in) ==
  /\ ~Handled(in) \/ <<in.mt, in.status>> = <<MT_UTILITY, 0>>
  /\ UNCHANGED vars2
Pass2(in) ==
  /\ in.mt # MT_M1CVM /\ <<in.mt, in.status>> # <<MT_UTILITY, 0>> /\ Handled(in)
  /\ Send2(<<in>>)

Scaled(in) ==
  Voice(MT_M2CVM, in.status, in.at, in.index,
        Scale(M1Width(in.status), M2Width(in.status), in.value))
Value2(in) ==
  /\ in.mt = MT_M1CVM /\ in.status \in Valued \ {control_change}
  /\ Send2(<<Scaled(in)>>)

Program2(in) ==
  LET b == bank[in.at]
  IN  /\ in.mt = MT_M1CVM /\ in.status = program_change
      /\ Send2(<<Program(MT_M2CVM, in.at, in.index, b.msb \X b.lsb)>>)

\* control_change().
IsControl(in, controllers) ==
  in.mt = MT_M1CVM /\ in.status = control_change /\ in.index \in controllers

BankSelect(in) ==
  /\ IsControl(in, {bank_select, bank_select_lsb})
  /\ bank' = [bank EXCEPT ![in.at] = IF in.index = bank_select
                                     THEN Bank({in.value}, @.lsb)
                                     ELSE Bank(@.msb, {in.value})]
  /\ UNCHANGED <<parameter_number, output2, refused2>>

\* parameter_number::reset() leaves is_rpn and value_msb alone.
Forgotten(pn) == ParameterNumber(pn.is_rpn, {}, {}, pn.value_msb)

NumberMsb(in) ==
  /\ IsControl(in, {nrpn_msb, rpn_msb})
  /\ parameter_number' = [parameter_number EXCEPT
       ![in.at] = ParameterNumber(in.index = rpn_msb, {in.value}, @.lsb, @.value_msb)]
  /\ UNCHANGED <<bank, output2, refused2>>

\* RPN 7F 7F: no parameter is selected.
IsNull(pn, in) ==
  in.index = rpn_lsb /\ pn.is_rpn /\ pn.msb = {AllOnes7} /\ in.value = AllOnes7

WrongNumberLsb(in) ==
  /\ IsControl(in, {nrpn_lsb, rpn_lsb})
  /\ parameter_number' = [parameter_number EXCEPT
       ![in.at] = ParameterNumber(in.index = rpn_lsb, @.msb, {in.value}, @.value_msb)]
  /\ UNCHANGED <<bank, output2, refused2>>
NumberLsb(in) ==
  /\ IsControl(in, {nrpn_lsb, rpn_lsb})
  /\ parameter_number' = [parameter_number EXCEPT
       ![in.at] = IF IsNull(@, in) THEN Forgotten(@)
                  ELSE ParameterNumber(in.index = rpn_lsb, @.msb, {in.value}, @.value_msb)]
  /\ UNCHANGED <<bank, output2, refused2>>

DataMsb(in) ==
  /\ IsControl(in, {data_entry_msb})
  /\ parameter_number' = [parameter_number EXCEPT
       ![in.at] = ParameterNumber(@.is_rpn, @.msb, @.lsb, {in.value})]
  /\ UNCHANGED <<bank, output2, refused2>>

\* Nothing is sent before the number and the value's MSB are known.
DataLsb(in) ==
  LET pn == parameter_number[in.at]
      known == pn.msb \X pn.lsb \X pn.value_msb
      Sent(k) == Voice(MT_M2CVM, IF pn.is_rpn THEN rpn ELSE nrpn, in.at,
                       <<k[1], k[2]>>, Scale(14, 32, Joined(k[3], in.value)))
  IN  /\ IsControl(in, {data_entry_lsb})
      /\ Send2(Listed({Sent(k) : k \in known}))

WrongResetControllers(in) ==
  /\ IsControl(in, {reset_all_controllers})
  /\ parameter_number' = [parameter_number EXCEPT ![in.at] = Forgotten(@)]
  /\ UNCHANGED <<bank, output2, refused2>>
ResetControllers(in) ==
  /\ IsControl(in, {reset_all_controllers})
  /\ parameter_number' = [parameter_number EXCEPT ![in.at] = Forgotten(@)]
  /\ Emit2(<<Scaled(in)>>)
  /\ UNCHANGED bank

Controls == {bank_select, bank_select_lsb, nrpn_msb, nrpn_lsb, rpn_msb, rpn_lsb,
             data_entry_msb, data_entry_lsb, reset_all_controllers}
OtherControl(in) ==
  /\ in.mt = MT_M1CVM /\ in.status = control_change /\ in.index \notin Controls
  /\ Send2(<<Scaled(in)>>)

\* push() of the words of a message.
Push2(in) ==
  \/ Pass2(in) \/ Drop2(in) \/ Value2(in) \/ Program2(in)
  \/ BankSelect(in) \/ NumberMsb(in) \/ NumberLsb(in)
  \/ DataMsb(in) \/ DataLsb(in) \/ ResetControllers(in) \/ OtherControl(in)

\* pop() of the words of a message.
Pop2 ==
  /\ output2 # <<>> /\ output2' = Tail(output2)
  /\ UNCHANGED <<bank, parameter_number, refused2>>

Reset2 ==
  /\ bank' = [at \in Channels |-> NoBank]
  /\ parameter_number' = [at \in Channels |-> Forgotten(parameter_number[at])]
  /\ output2' = <<>> /\ UNCHANGED refused2
===============================================================================
