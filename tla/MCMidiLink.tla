------------------------------ MODULE MCMidiLink ------------------------------
(***************************************************************************)
(* An application on two channels and a device on a third.                  *)
(***************************************************************************)
EXTENDS MidiLink

App1   == <<0, 0>>
App2   == <<4, 1>>
Device == <<0, 1>>
MCChannels == {App1, App2, Device}

Volume  == {0, 1, 2}
Numbers == {<<{}, {0}>>, <<AllOnes7, AllOnes7>>}
Max32   == 0 .. 31
Centre  == {31}
Odd     == {30, 28, 17, 3}

V1(status, at, index, value) == Voice(MT_M1CVM, status, at, index, value)
V2(status, at, index, value) == Voice(MT_M2CVM, status, at, index, value)

Values ==
  {V2(note_on, App1, {2}, 0 .. 15), V2(control_change, App1, Volume, Centre),
   V2(pitch_bend, App1, {}, Odd)}
Ignored ==
  {V2(per_note_pitch_bend, App1, {2}, Centre), Other(MT_STREAM, 0),
   Other(MT_DATA64, 4)}
Programs ==
  {Program(MT_M2CVM, App1, {3}, {}), Program(MT_M2CVM, App1, {3}, {<<{0}, {1}>>})}
Through ==
  {Other(MT_DATA64, 0), V1(note_on, App1, {2}, {6, 0})}

\* On each channel one kind of parameter only: see ParameterNumber.cfg.
MCMessages ==
  Values \union Ignored \union Programs \union Through
    \union {V2(rpn, App1, n, Odd) : n \in Numbers}
    \union {V2(nrpn, App2, n, Max32) : n \in Numbers}
MixedMessages ==
  {V2(kind, App1, n, Odd) : kind \in {rpn, nrpn}, n \in {<<{}, {0}>>}}

Select(kind, n) ==
  IF kind = rpn
  THEN <<Control(Device, rpn_msb, n[1]), Control(Device, rpn_lsb, n[2])>>
  ELSE <<Control(Device, nrpn_msb, n[1]), Control(Device, nrpn_lsb, n[2])>>
Enter == <<Control(Device, data_entry_msb, {6}), Control(Device, data_entry_lsb, {5})>>
Tune  == <<Control(Device, data_entry_lsb, AllOnes7)>>
MCTransactions ==
  {Select(kind, n) \o Enter : kind \in {rpn, nrpn}, n \in Numbers}
    \union {Enter, Tune, <<Control(Device, reset_all_controllers, {})>>,
            <<Control(Device, bank_select, {1}), Control(Device, bank_select_lsb, {}),
              Program(MT_M1CVM, Device, {4}, {})>>,
            <<Program(MT_M1CVM, Device, {5}, {})>>,
            <<Other(MT_UTILITY, 0), V1(poly_pressure, Device, {2}, {5, 1})>>,
            <<Other(MT_SYSTEM, 245), Other(MT_STREAM, 1023),
              Other(MT_FLEX, Dispatcher!Text), Other(11, 0)>>}
NoTransactions == {}

\* The theorem on MeaningSurvives is about such messages.
ASSUME MCDisciplined == Disciplined(MCMessages, MCTransactions)
===============================================================================
