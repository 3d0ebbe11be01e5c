------------------------------ MODULE UmpMessages ------------------------------
(***************************************************************************)
(* A client builds objects of the classes of ump_types.hpp and passes their *)
(* words to a ump_dispatcher with the callbacks of function_config          *)
(* (ump_dispatcher_backend.hpp), which read them back.  midi2::ump::apply() *)
(* hands over one word after the other and stops when a call says so.       *)
(***************************************************************************)
EXTENDS UmpTypes, UmpDispatcher

CONSTANTS
  MaxEdits,   \* how many times a message is edited before it is sent (a bound)
  Fills,      \* what fields are set to, each cut to the width of the field
  Contents,   \* the bytes that are assigned to a message that holds data
  AfterView,  \* what may follow the characters of a u8string_view in memory
  Unset       \* the callbacks, pairs <<mt, status>>, that the client did not set

ASSUME EditsAssumption ==
  /\ MaxEdits \in Nat
  /\ \A data \in Contents : data \in Seq(SUBSET (0 .. 7))
  /\ \A byte \in AfterView : byte \subseteq 0 .. 7

VARIABLES
  type,     \* the class of the message that the client builds, or NoType
  words,    \* the words of the message
  edits,    \* how often it has been edited
  sent,     \* how many of its words have been passed to the dispatcher
  wanted,   \* history: for each field, the value it was last given
  assigned, \* history: {the bytes it was last given}, or {}
  heard     \* history: the callback, the words it got, and what was wanted

vars == <<message, type, words, edits, sent, wanted, assigned, heard>>

NoType  == <<>>
Nothing == [by |-> <<>>]

-------------------------------------------------------------------------------
(* The concepts of ump_dispatcher_backend.hpp: for each callback, its status *)
(* and the class of the object that it is given.                            *)

utility ==
  {<<0, utility_noop>>, <<1, utility_jr_clock>>, <<2, utility_jr_timestamp>>,
   <<3, utility_delta_clockstamp_tpqn>>, <<4, utility_delta_clockstamp>>}
system ==
  {<<TIMING_CODE, system_midi_time_code>>, <<SPP, system_song_position_pointer>>,
   <<SONG_SELECT, system_song_select>>, <<TUNE_REQUEST, system_tune_request>>,
   <<TIMING_CLOCK, system_timing_clock>>, <<SEQUENCE_START, system_sequence_start>>,
   <<SEQUENCE_CONTINUE, system_sequence_continue>>,
   <<SEQUENCE_STOP, system_sequence_stop>>,
   <<ACTIVE_SENSING, system_active_sensing>>, <<SYSTEM_RESET, system_reset>>}
m1cvm ==
  {<<8, m1cvm_note_off>>, <<9, m1cvm_note_on>>, <<10, m1cvm_poly_pressure>>,
   <<11, m1cvm_control_change>>, <<12, m1cvm_program_change>>,
   <<13, m1cvm_channel_pressure>>, <<14, m1cvm_pitch_bend>>}
data64 == {<<status, data64_sysex7(status)>> : status \in Data64Status}
m2cvm ==
  {<<8, m2cvm_note_off>>, <<9, m2cvm_note_on>>, <<10, m2cvm_poly_pressure>>,
   <<0, m2cvm_rpn_per_note_controller>>, <<1, m2cvm_nrpn_per_note_controller>>,
   <<2, m2cvm_rpn_controller>>, <<3, m2cvm_nrpn_controller>>,
   <<4, m2cvm_rpn_relative_controller>>, <<5, m2cvm_nrpn_relative_controller>>,
   <<12, m2cvm_program_change>>, <<13, m2cvm_channel_pressure>>,
   <<15, m2cvm_per_note_management>>, <<11, m2cvm_control_change>>,
   <<14, m2cvm_pitch_bend>>, <<6, m2cvm_per_note_pitch_bend>>}
data128 ==
  {<<status, data128_sysex8(status)>> : status \in 0 .. 3}
    \union {<<8, data128_mds_header>>, <<9, data128_mds_payload>>}
stream ==
  {<<0, stream_endpoint_discovery>>, <<1, stream_endpoint_info_notification>>,
   <<2, stream_device_identity_notification>>,
   <<3, stream_endpoint_name_notification>>,
   <<4, stream_product_instance_id_notification>>,
   <<5, stream_jr_configuration_request>>,
   <<6, stream_jr_configuration_notification>>,
   <<16, stream_function_block_discovery>>,
   <<17, stream_function_block_info_notification>>,
   <<18, stream_function_block_name_notification>>, <<32, stream_start_of_clip>>,
   <<33, stream_end_of_clip>>}
flex_data ==
  {<<0, flex_set_tempo>>, <<1, flex_set_time_signature>>, <<2, flex_set_metronome>>,
   <<5, flex_set_key_signature>>, <<6, flex_set_chord_name>>,
   <<Text, flex_text_common>>}
\* By message type; the class that the callback <<mt, status>> is given.
Backends ==
  {MT_UTILITY} \X utility \union {MT_SYSTEM} \X system \union {MT_M1CVM} \X m1cvm
    \union {MT_DATA64} \X data64 \union {MT_M2CVM} \X m2cvm
    \union {MT_DATA128} \X data128 \union {MT_FLEX} \X flex_data
    \union {MT_STREAM} \X stream
Classes == {backend[2][2] : backend \in Backends}
ClassOf == [handler \in Handlers |->
              CHOOSE class \in Classes : <<handler[1], <<handler[2], class>>>> \in Backends]

-------------------------------------------------------------------------------
(* Building a message.                                                      *)

Init ==
  /\ message = <<>> /\ type = NoType /\ words = <<>> /\ edits = 0 /\ sent = 0
  /\ wanted = <<>> /\ assigned = {} /\ heard = Nothing

Create(class) ==
  /\ type = NoType
  /\ type' = class /\ words' = Made(class)
  /\ edits' = 0 /\ assigned' = {}
  /\ wanted' = [f \in Settable(class) |-> {}]
  /\ heard' = Nothing
  /\ UNCHANGED <<message, sent>>

Edits == type # NoType /\ sent = 0 /\ edits < MaxEdits /\ edits' = edits + 1

\* A setter.  Setting a byte by name leaves the iterators alone, the history of
\* the assigned bytes does not follow it.
SetField(f, v) ==
  /\ Edits
  /\ words' = SetFields(type, words, [g \in {f} |-> v])
  /\ wanted' = [wanted EXCEPT ![f] = v]
  /\ assigned' = {}
  /\ UNCHANGED <<message, type, sent, heard>>

\* What a client may assign to a message: bytes of its width, text without NUL.
IsContent(data) ==
  \A i \in DOMAIN data :
    data[i] \subseteq AllOnes(type, "data0") /\ (IsText(type) => data[i] # {})

\* data(range): text ignores what is beyond its last byte.
AssignData(data) ==
  LET held == Least(Len(data), MaxSize(type))
  IN  /\ Edits /\ IsArray(type) /\ IsContent(data)
      /\ words' = Assigned(type, words, data)
      /\ assigned' = {SubSeq(data, 1, held)}
      /\ wanted' =
           [f \in DOMAIN wanted |->
              IF f = "number_of_bytes" THEN Bits[held]
              ELSE IF f \notin ToSet(DataFields) THEN wanted[f]
              ELSE IF Index(f) <= held THEN data[Index(f)]
              ELSE IF IsText(type) THEN {} ELSE wanted[f]]
      /\ UNCHANGED <<message, type, sent, heard>>

\* data(u8string_view): one character beyond the view is read as well.
AssignView(view, next) ==
  LET held == Least(Len(view), MaxSize(type))
      data == Append(SubSeq(view, 1, held), next)
  IN  /\ Edits /\ IsArray(type) /\ IsText(type) /\ IsContent(view)
      /\ words' = Assigned(type, words, data)
      /\ assigned' = {SubSeq(view, 1, held)}
      /\ wanted' = [f \in DOMAIN wanted |->
                      IF f \in ToSet(DataFields)
                      THEN Get(type, words', f) ELSE wanted[f]]
      /\ UNCHANGED <<message, type, sent, heard>>

-------------------------------------------------------------------------------
(* apply(message, dispatch) and the callbacks.                              *)

\* call(): a callback that is not set is skipped.
Called(handler, packet) ==
  IF handler = Unknown \/ handler \notin Unset
  THEN [by |-> handler, words |-> [i \in DOMAIN packet |-> FromBytes(packet[i])],
        type |-> type, wanted |-> wanted, assigned |-> assigned]
  ELSE [by |-> <<"skipped">>]

SendCollected ==
  /\ Collect(Bytes(words[sent + 1]))
  /\ sent' = sent + 1
  /\ UNCHANGED <<type, words, edits, wanted, assigned, heard>>

SendCompleted ==
  LET packet == Received(Bytes(words[sent + 1]))
  IN  /\ Complete(Bytes(words[sent + 1]))
      /\ heard' = Called(Handler(packet[1]), packet)
      /\ IF sent + 1 < Len(words)
         THEN sent' = sent + 1 /\ UNCHANGED type
         ELSE sent' = 0 /\ type' = NoType
      /\ UNCHANGED <<words, edits, wanted, assigned>>

SendWord ==
  /\ type # NoType /\ sent < Len(words)
  /\ SendCollected \/ SendCompleted

\* The function that apply() calls returns true: apply() ends, and the client
\* resets the dispatcher, which holds the words of half a message.
Abandon ==
  /\ type # NoType /\ sent > 0
  /\ ResetDispatcher
  /\ type' = NoType /\ sent' = 0
  /\ heard' = [by |-> <<"abandoned">>]
  /\ UNCHANGED <<words, edits, wanted, assigned>>

Edit ==
  \/ \E f \in Settable(type), v \in Fills : SetField(f, v \intersect AllOnes(type, f))
  \/ \E data \in Contents :
       \/ AssignData(data)
       \/ \E next \in AfterView : AssignView(data, next)

Next ==
  \/ \E class \in Classes : Create(class)
  \/ type # NoType /\ Edit
  \/ SendWord
  \/ Abandon

\* apply() is a loop: once it has been called it goes on.
Spec == Init /\ [][Next]_vars /\ WF_vars(sent > 0 /\ SendWord)

-------------------------------------------------------------------------------
HasRead == "words" \in DOMAIN heard

\* The dispatcher holds fewer words than the packet it collects has, and they
\* are the words sent of the message being sent (ump_dispatcher.hpp:117-150).
TypeOK ==
  /\ message \in Seq(Word)
  /\ type \in Classes \union {NoType}
  /\ Len(message) = sent
  /\ type # NoType => \A i \in 1 .. sent : message[i] = Bytes(words[i])

\* A message reaches the callback that takes its own class, with all its words
\* and a first word its check() accepts; flex data, whose class is chosen by the
\* status bank, the class that its bank selects (ump_dispatcher.hpp:180-482
\* against the field positions and status values of ump_types.hpp).
OwnHandler ==
  HasRead =>
    LET bank(t) == Get(t, heard.words, "status_bank")
        IsFlex  == "status_bank" \in Fields(heard.type)
    IN  /\ heard.by # Unknown => Checks(ClassOf[heard.by], heard.words)
        /\ Len(heard.words) = Len(heard.type.words)
        /\ IsFlex /\ bank(heard.type) # {} => ClassOf[heard.by] = flex_text_common
        /\ IsFlex /\ bank(heard.type) = {} /\ heard.type # flex_text_common
             => heard.by \in {<<MT_FLEX, heard.type.status>>}
        /\ ~IsFlex => heard.by \in Handlers /\ ClassOf[heard.by] = heard.type

\* What the callback's getters return is what the client's setters were given
\* last, and zero for the fields it did not set: no setter touches another field.
\* (option_flags and set_to_default of per_note_management are one bit under two
\* names, ump_types.hpp:2689-2691; both are not checked together.)
Aliases == {"option_flags", "set_to_default"}
FieldsSurvive ==
  HasRead =>
    \A f \in DOMAIN heard.wanted :
      \/ Get(heard.type, heard.words, f) = heard.wanted[f]
      \/ f \in Aliases /\ Aliases \subseteq DOMAIN heard.wanted

\* The bytes that the callback iterates over are those that the client assigned
\* last, as many as there is room for, whatever the message held before
\* (ump_types.hpp:2022-2040, 4905-4937, 5152-5172 and ump_as_array.hpp:239-284).
DataSurvives ==
  HasRead => \A bytes \in heard.assigned : Data(heard.type, heard.words) = bytes

\* A message that has begun to be sent is heard, skipped or abandoned: it does
\* not stay in the dispatcher for the next one to complete.
Delivered == (sent > 0) ~> (heard # Nothing)
===============================================================================
