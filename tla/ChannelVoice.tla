------------------------------ MODULE ChannelVoice ------------------------------
(***************************************************************************)
(* The messages that to_midi1 and ump_to_midi2 translate into each other,   *)
(* the control numbers that mean something to them, and the scaling of      *)
(* values between resolutions (ump_utils.hpp).  A number of up to 32 bits   *)
(* is the set of its one bits, 0 for the least significant.                 *)
(***************************************************************************)
EXTENDS MidiBytes

\* enum class mt::m1cvm and mt::m2cvm (ump_types.hpp).
rpn                 == 2
nrpn                == 3
per_note_pitch_bend == 6
note_off            == 8
note_on             == 9
poly_pressure       == 10
control_change      == 11
program_change      == 12
channel_pressure    == 13
pitch_bend          == 14
per_note_management == 15

\* enum class control.
bank_select           == {}
data_entry_msb        == {1, 2}
bank_select_lsb       == {5}
data_entry_lsb        == {1, 2, 5}
nrpn_lsb              == {1, 5, 6}
nrpn_msb              == {0, 1, 5, 6}
rpn_lsb               == {2, 5, 6}
rpn_msb               == {0, 2, 5, 6}
reset_all_controllers == {0, 3, 4, 5, 6}

AllOnes7 == 0 .. 6

\* A set that has at most one element is a value that may be absent: Only is the
\* value, Listed the sequence of it.
Optional(S) == {v \in SUBSET S : \A x, y \in v : x = y}
Only(S)     == CHOOSE x \in S : TRUE
Listed(S)   == IF S = {} THEN <<>> ELSE <<Only(S)>>

\* A channel voice message: at is its group and channel; index the note, the
\* controller, the program or the pair <<bank, index>>.  The messages of the
\* other types have nothing that the translators look at.
Voice(mt, status, at, index, value) ==
  [mt |-> mt, status |-> status, at |-> at, index |-> index, value |-> value]
Program(mt, at, program, bank) ==
  [mt |-> mt, status |-> program_change, at |-> at, index |-> program,
   bank |-> bank]
Other(mt, status) == [mt |-> mt, status |-> status]

Control(at, controller, value) ==
  Voice(MT_M1CVM, control_change, at, controller, value)

\* The messages that have one value in both protocols, and its width.
Valued == {note_off, note_on, poly_pressure, control_change, channel_pressure,
           pitch_bend}
M1Width(status) == IF status = pitch_bend THEN 14 ELSE 7
M2Width(status) == IF status \in {note_off, note_on} THEN 16 ELSE 32

-------------------------------------------------------------------------------
(* mcm_scale<source, dest>().                                               *)

\* The bits below those of the shifted value repeat all but its highest one.
Repeated(source, dest, v) ==
  {b \in 0 .. dest - source - 1 :
     source - 2 - ((dest - source - 1 - b) % (source - 1)) \in v}

Scale(source, dest, v) ==
  IF source >= dest
  THEN {b - (source - dest) : b \in {c \in v : c >= source - dest}}
  ELSE {b + (dest - source) : b \in v} \union
         IF source - 1 \in v /\ v # {source - 1}
         THEN Repeated(source, dest, v) ELSE {}

\* hi7(), lo7(), and the two put together.
Hi7(v) == {b - 7 : b \in {c \in v : c >= 7}}
Lo7(v) == {b \in v : b < 7}
Joined(hi, lo) == {b + 7 : b \in hi} \union lo

-------------------------------------------------------------------------------
(* The dispatcher through which the messages come.                          *)

Dispatcher == INSTANCE UmpDispatcher WITH message <- <<>>

\* A message without a handler of its own goes to utility.unknown.
Handled(in) == <<in.mt, in.status>> \in Dispatcher!Handlers

-------------------------------------------------------------------------------
(* The output FIFO of a translator, word by word; output is kept as a       *)
(* sequence of messages, of which the one that does not fit is lost.        *)

\* A definition named Wrong... is a bug the properties of MCMidiLink must
\* catch; no other definition uses it.

WrongOutputSize == 3
OutputSize == 4

Words(messages) ==
  LET sum[n \in 0 .. Len(messages)] ==
        IF n = 0 THEN 0 ELSE sum[n - 1] + Dispatcher!MessageSize(messages[n].mt)
  IN  sum[Len(messages)]

Fits(output, messages) == Words(output \o messages) <= OutputSize
Pushed(output, messages) ==
  LET out[n \in 0 .. Len(messages)] ==
        IF n = 0 THEN output
        ELSE IF Fits(out[n - 1], <<messages[n]>>) THEN Append(out[n - 1], messages[n])
        ELSE out[n - 1]
  IN  out[Len(messages)]
===============================================================================
