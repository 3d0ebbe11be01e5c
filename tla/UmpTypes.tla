-------------------------------- MODULE UmpTypes --------------------------------
(***************************************************************************)
(* The classes of ump_types.hpp: one for each UMP message.  A class is a   *)
(* layout: for each of its words, where each field lies.  An object of a   *)
(* class is the sequence of its words, and a word (or the value of a       *)
(* field) the set of its one bits, 0 for the least significant.            *)
(* Reserved fields without an accessor are left out.                       *)
(***************************************************************************)
EXTENDS MidiBytes, FiniteSets, SequencesExt

\* f, and g where f is not defined.
f ++ g ==
  [x \in DOMAIN f \union DOMAIN g |-> IF x \in DOMAIN f THEN f[x] ELSE g[x]]

\* The number that the bits of a byte make, and the bits of such a number.
Number ==
  LET Bit(b, bits) == IF b \in bits THEN 1 ELSE 0
  IN  [bits \in SUBSET (0 .. 7) |->
         Bit(0, bits) + 2 * Bit(1, bits) + 4 * Bit(2, bits) + 8 * Bit(3, bits)
           + 16 * Bit(4, bits) + 32 * Bit(5, bits) + 64 * Bit(6, bits)
           + 128 * Bit(7, bits)]
Bits == [n \in Byte |-> CHOOSE bits \in SUBSET (0 .. 7) : Number[bits] = n]

\* A definition named Wrong... is a bug the properties of the modules that
\* extend this one must catch; no other definition uses it.

\* A field is a pair <<index, bits>> (bit_range); one with n one bits at most.
WrongBitsOf(field) == field[1] .. field[1] + field[2]
BitsOf(field) == field[1] .. field[1] + field[2] - 1

\* The class of message type mt and status whose default constructor sets these
\* two fields and nothing else; they have no setter.
Type(mt, status, words) ==
  [mt |-> mt, status |-> status, words |-> words, fixed |-> {"mt", "status"}]

-------------------------------------------------------------------------------
(* The first word, as far as the messages of a type share it, and the       *)
(* layouts that several of them have in common.                             *)

Utility == [mt |-> <<28, 4>>, status |-> <<20, 4>>]
System == [mt |-> <<28, 4>>, group |-> <<24, 4>>, status |-> <<16, 8>>]
Channel == [mt |-> <<28, 4>>, group |-> <<24, 4>>, status |-> <<20, 4>>,
            channel |-> <<16, 4>>]
Sysex == [mt |-> <<28, 4>>, group |-> <<24, 4>>, status |-> <<20, 4>>,
          number_of_bytes |-> <<16, 4>>]
Mds == [mt |-> <<28, 4>>, group |-> <<24, 4>>, status |-> <<20, 4>>,
        mds_id |-> <<16, 4>>]
Stream == [mt |-> <<28, 4>>, format |-> <<26, 2>>, status |-> <<16, 10>>]
Flex == [mt |-> <<28, 4>>, group |-> <<24, 4>>, form |-> <<22, 2>>,
         address |-> <<20, 2>>, channel |-> <<16, 4>>,
         status_bank |-> <<8, 8>>, status |-> <<0, 8>>]
Value == [value |-> <<0, 32>>]
Parameter == [bank |-> <<8, 7>>, index |-> <<0, 7>>]

-------------------------------------------------------------------------------
\* Utility messages.
utility_noop == Type(MT_UTILITY, 0, <<Utility>>)
utility_jr_clock ==
  Type(MT_UTILITY, 1, <<Utility ++ [sender_clock_time |-> <<0, 16>>]>>)
utility_jr_timestamp ==
  Type(MT_UTILITY, 2, <<Utility ++ [timestamp |-> <<0, 16>>]>>)
utility_delta_clockstamp_tpqn ==
  Type(MT_UTILITY, 3, <<Utility ++ [ticks_pqn |-> <<0, 16>>]>>)
utility_delta_clockstamp ==
  Type(MT_UTILITY, 4, <<Utility ++ [num_ticks |-> <<0, 20>>]>>)

\* System common and real-time messages.
system_midi_time_code ==
  Type(MT_SYSTEM, 241, <<System ++ [time_code |-> <<8, 7>>]>>)
system_song_position_pointer ==
  Type(MT_SYSTEM, 242, <<System ++ [position_lsb |-> <<8, 7>>,
       position_msb |-> <<0, 7>>]>>)
system_song_select == Type(MT_SYSTEM, 243, <<System ++ [song |-> <<8, 7>>]>>)
system_tune_request == Type(MT_SYSTEM, 246, <<System>>)
system_timing_clock == Type(MT_SYSTEM, 248, <<System>>)
system_sequence_start == Type(MT_SYSTEM, 250, <<System>>)
system_sequence_continue == Type(MT_SYSTEM, 251, <<System>>)
system_sequence_stop == Type(MT_SYSTEM, 252, <<System>>)
system_active_sensing == Type(MT_SYSTEM, 254, <<System>>)
system_reset == Type(MT_SYSTEM, 255, <<System>>)

\* MIDI 1.0 channel voice messages.
m1cvm_note_on ==
  Type(MT_M1CVM, 9, <<Channel ++ [note |-> <<8, 7>>, velocity |-> <<0, 7>>]>>)
m1cvm_note_off ==
  Type(MT_M1CVM, 8, <<Channel ++ [note |-> <<8, 7>>, velocity |-> <<0, 7>>]>>)
m1cvm_poly_pressure ==
  Type(MT_M1CVM, 10, <<Channel ++ [note |-> <<8, 7>>,
       pressure |-> <<0, 7>>]>>)
m1cvm_control_change ==
  Type(MT_M1CVM, 11, <<Channel ++ [controller |-> <<8, 7>>,
       value |-> <<0, 7>>]>>)
m1cvm_program_change ==
  Type(MT_M1CVM, 12, <<Channel ++ [program |-> <<8, 7>>]>>)
m1cvm_channel_pressure ==
  Type(MT_M1CVM, 13, <<Channel ++ [data |-> <<8, 7>>]>>)
m1cvm_pitch_bend ==
  Type(MT_M1CVM, 14, <<Channel ++ [lsb_data |-> <<8, 7>>,
       msb_data |-> <<0, 7>>]>>)

\* 64-bit data.
data64_sysex7(status) ==
  Type(MT_DATA64, status, <<Sysex ++ [data0 |-> <<8, 7>>,
       data1 |-> <<0, 7>>], [data2 |-> <<24, 7>>, data3 |-> <<16, 7>>,
       data4 |-> <<8, 7>>, data5 |-> <<0, 7>>]>>)

\* MIDI 2.0 channel voice messages.
m2cvm_note_off ==
  Type(MT_M2CVM, 8, <<Channel ++ [note |-> <<8, 7>>,
       attribute_type |-> <<0, 8>>], [velocity |-> <<16, 16>>,
       attribute |-> <<0, 16>>]>>)
m2cvm_note_on ==
  Type(MT_M2CVM, 9, <<Channel ++ [note |-> <<8, 7>>,
       attribute_type |-> <<0, 8>>], [velocity |-> <<16, 16>>,
       attribute |-> <<0, 16>>]>>)
m2cvm_poly_pressure ==
  Type(MT_M2CVM, 10, <<Channel ++ [note |-> <<8, 7>>],
       [pressure |-> <<0, 32>>]>>)
m2cvm_rpn_per_note_controller ==
  Type(MT_M2CVM, 0, <<Channel ++ [reserved |-> <<15, 1>>, note |-> <<8, 7>>,
       index |-> <<0, 8>>], Value>>)
m2cvm_nrpn_per_note_controller ==
  Type(MT_M2CVM, 1, <<Channel ++ [reserved |-> <<15, 1>>, note |-> <<8, 7>>,
       index |-> <<0, 8>>], Value>>)
m2cvm_rpn_controller == Type(MT_M2CVM, 2, <<Channel ++ Parameter, Value>>)
m2cvm_nrpn_controller == Type(MT_M2CVM, 3, <<Channel ++ Parameter, Value>>)
m2cvm_rpn_relative_controller ==
  Type(MT_M2CVM, 4, <<Channel ++ Parameter, Value>>)
m2cvm_nrpn_relative_controller ==
  Type(MT_M2CVM, 5, <<Channel ++ [reserved0 |-> <<15, 1>>, bank |-> <<8, 7>>,
       reserved1 |-> <<7, 1>>, index |-> <<0, 7>>], Value>>)
m2cvm_per_note_management ==
  Type(MT_M2CVM, 15, <<Channel ++ [reserved |-> <<15, 1>>, note |-> <<8, 7>>,
       option_flags |-> <<0, 1>>, detach |-> <<1, 1>>,
       set_to_default |-> <<0, 1>>], Value>>)
m2cvm_control_change ==
  Type(MT_M2CVM, 11, <<Channel ++ [controller |-> <<8, 7>>], Value>>)
m2cvm_program_change ==
  Type(MT_M2CVM, 12, <<Channel ++ [option_flags |-> <<1, 7>>,
       bank_valid |-> <<0, 1>>], [program |-> <<24, 8>>,
       bank_msb |-> <<8, 7>>, bank_lsb |-> <<0, 7>>]>>)
m2cvm_channel_pressure == Type(MT_M2CVM, 13, <<Channel, Value>>)
m2cvm_pitch_bend == Type(MT_M2CVM, 14, <<Channel, Value>>)
m2cvm_per_note_pitch_bend ==
  Type(MT_M2CVM, 6, <<Channel ++ [note |-> <<8, 7>>], Value>>)

\* UMP stream messages.
stream_endpoint_discovery ==
  Type(MT_STREAM, 0, <<Stream ++ [version_major |-> <<8, 8>>,
       version_minor |-> <<0, 8>>], [filter |-> <<0, 8>>],
       [value2 |-> <<0, 32>>], [value3 |-> <<0, 32>>]>>)
stream_endpoint_info_notification ==
  Type(MT_STREAM, 1, <<Stream ++ [version_major |-> <<8, 8>>,
       version_minor |-> <<0, 8>>], [static_function_blocks |-> <<31, 1>>,
       number_function_blocks |-> <<24, 7>>,
       midi2_protocol_capability |-> <<9, 1>>,
       midi1_protocol_capability |-> <<8, 1>>,
       receive_jr_timestamp_capability |-> <<1, 1>>,
       transmit_jr_timestamp_capability |-> <<0, 1>>],
       [value2 |-> <<0, 32>>], [value3 |-> <<0, 32>>]>>)
stream_device_identity_notification ==
  Type(MT_STREAM, 2, <<Stream, [dev_manuf_sysex_id_1 |-> <<16, 7>>,
       dev_manuf_sysex_id_2 |-> <<8, 7>>, dev_manuf_sysex_id_3 |-> <<0, 7>>],
       [device_family_lsb |-> <<24, 7>>, device_family_msb |-> <<16, 7>>,
       device_family_model_lsb |-> <<8, 7>>,
       device_family_model_msb |-> <<0, 7>>], [sw_revision_1 |-> <<24, 7>>,
       sw_revision_2 |-> <<16, 7>>, sw_revision_3 |-> <<8, 7>>,
       sw_revision_4 |-> <<0, 7>>]>>)
stream_endpoint_name_notification ==
  Type(MT_STREAM, 3, <<Stream ++ [name1 |-> <<8, 8>>, name2 |-> <<0, 8>>],
       [name3 |-> <<24, 8>>, name4 |-> <<16, 8>>, name5 |-> <<8, 8>>,
       name6 |-> <<0, 8>>], [name7 |-> <<24, 8>>, name8 |-> <<16, 8>>,
       name9 |-> <<8, 8>>, name10 |-> <<0, 8>>], [name11 |-> <<24, 8>>,
       name12 |-> <<16, 8>>, name13 |-> <<8, 8>>, name14 |-> <<0, 8>>]>>)
stream_product_instance_id_notification ==
  Type(MT_STREAM, 4, <<Stream ++ [pid1 |-> <<8, 8>>, pid2 |-> <<0, 8>>],
       [pid3 |-> <<24, 8>>, pid4 |-> <<16, 8>>, pid5 |-> <<8, 8>>,
       pid6 |-> <<0, 8>>], [pid7 |-> <<24, 8>>, pid8 |-> <<16, 8>>,
       pid9 |-> <<8, 8>>, pid10 |-> <<0, 8>>], [pid11 |-> <<24, 8>>,
       pid12 |-> <<16, 8>>, pid13 |-> <<8, 8>>, pid14 |-> <<0, 8>>]>>)
stream_jr_configuration_request ==
  Type(MT_STREAM, 5, <<Stream ++ [protocol |-> <<8, 8>>, rxjr |-> <<1, 1>>,
       txjr |-> <<0, 1>>], [value1 |-> <<0, 32>>], [value2 |-> <<0, 32>>],
       [value3 |-> <<0, 32>>]>>)
stream_jr_configuration_notification ==
  Type(MT_STREAM, 6, <<Stream ++ [protocol |-> <<8, 8>>, rxjr |-> <<1, 1>>,
       txjr |-> <<0, 1>>], [value1 |-> <<0, 32>>], [value2 |-> <<0, 32>>],
       [value3 |-> <<0, 32>>]>>)
stream_function_block_discovery ==
  Type(MT_STREAM, 16, <<Stream ++ [block_num |-> <<8, 8>>,
       filter |-> <<0, 8>>], [value1 |-> <<0, 32>>], [value2 |-> <<0, 32>>],
       [value3 |-> <<0, 32>>]>>)
stream_function_block_info_notification ==
  Type(MT_STREAM, 17, <<Stream ++ [block_active |-> <<15, 1>>,
       block_num |-> <<8, 7>>, ui_hint |-> <<4, 2>>, midi1 |-> <<2, 2>>,
       direction |-> <<0, 2>>], [first_group |-> <<24, 8>>,
       num_spanned |-> <<16, 8>>, ci_message_version |-> <<8, 8>>,
       max_sys8_streams |-> <<0, 8>>], [value2 |-> <<0, 32>>],
       [value3 |-> <<0, 32>>]>>)
stream_function_block_name_notification ==
  Type(MT_STREAM, 18, <<Stream ++ [block_num |-> <<8, 8>>,
       name0 |-> <<0, 8>>], [name1 |-> <<24, 8>>, name2 |-> <<16, 8>>,
       name3 |-> <<8, 8>>, name4 |-> <<0, 8>>], [name5 |-> <<24, 8>>,
       name6 |-> <<16, 8>>, name7 |-> <<8, 8>>, name8 |-> <<0, 8>>],
       [name9 |-> <<24, 8>>, name10 |-> <<16, 8>>, name11 |-> <<8, 8>>,
       name12 |-> <<0, 8>>]>>)
stream_start_of_clip ==
  Type(MT_STREAM, 32, <<Stream, [value1 |-> <<0, 32>>],
       [value2 |-> <<0, 32>>], [value3 |-> <<0, 32>>]>>)
stream_end_of_clip ==
  Type(MT_STREAM, 33, <<Stream, [value1 |-> <<0, 32>>],
       [value2 |-> <<0, 32>>], [value3 |-> <<0, 32>>]>>)

\* Flex data.
flex_set_tempo ==
  Type(MT_FLEX, 0, <<Flex, [value1 |-> <<0, 32>>], [value2 |-> <<0, 32>>],
       [value3 |-> <<0, 32>>]>>)
flex_set_time_signature ==
  Type(MT_FLEX, 1, <<Flex, [numerator |-> <<24, 8>>,
       denominator |-> <<16, 8>>, number_of_32_notes |-> <<8, 8>>],
       [value2 |-> <<0, 32>>], [value3 |-> <<0, 32>>]>>)
flex_set_metronome ==
  Type(MT_FLEX, 2, <<Flex, [num_clocks_per_primary_click |-> <<24, 8>>,
       bar_accent_part_1 |-> <<16, 8>>, bar_accent_part_2 |-> <<8, 8>>,
       bar_accent_part_3 |-> <<0, 8>>],
       [num_subdivision_clicks_1 |-> <<24, 8>>,
       num_subdivision_clicks_2 |-> <<16, 8>>], [value3 |-> <<0, 32>>]>>)
flex_set_key_signature ==
  Type(MT_FLEX, 5, <<Flex, [sharps_flats |-> <<28, 4>>,
       tonic_note |-> <<24, 4>>], [value2 |-> <<0, 32>>],
       [value3 |-> <<0, 32>>]>>)
flex_set_chord_name ==
  [Type(MT_FLEX, 6, <<Flex, [tonic_sharps_flats |-> <<28, 4>>,
        chord_tonic |-> <<24, 4>>, chord_type |-> <<16, 8>>,
        alter_1_type |-> <<12, 4>>, alter_1_degree |-> <<8, 4>>,
        alter_2_type |-> <<4, 4>>, alter_2_degree |-> <<0, 4>>],
        [alter_3_type |-> <<28, 4>>, alter_3_degree |-> <<24, 4>>,
        alter_4_type |-> <<20, 4>>, alter_4_degree |-> <<16, 4>>],
        [bass_sharps_flats |-> <<28, 4>>, bass_note |-> <<24, 4>>,
        bass_chord_type |-> <<16, 8>>, bass_alter_1_type |-> <<12, 4>>,
        bass_alter_1_degree |-> <<8, 4>>, bass_alter_2_type |-> <<4, 4>>,
        bass_alter_2_degree |-> <<0, 4>>]>>)
     EXCEPT !.fixed = {"mt", "status", "form", "status_bank"}]
flex_text_common ==
  [Type(MT_FLEX, 0, <<Flex, [data0 |-> <<24, 8>>, data1 |-> <<16, 8>>,
        data2 |-> <<8, 8>>, data3 |-> <<0, 8>>], [data4 |-> <<24, 8>>,
        data5 |-> <<16, 8>>, data6 |-> <<8, 8>>, data7 |-> <<0, 8>>],
        [data8 |-> <<24, 8>>, data9 |-> <<16, 8>>, data10 |-> <<8, 8>>,
        data11 |-> <<0, 8>>]>>)
     EXCEPT !.fixed = {"mt"}]

\* 128-bit data.
data128_sysex8(status) ==
  Type(MT_DATA128, status, <<Sysex ++ [stream_id |-> <<8, 8>>,
       data0 |-> <<0, 8>>], [data1 |-> <<24, 8>>, data2 |-> <<16, 8>>,
       data3 |-> <<8, 8>>, data4 |-> <<0, 8>>], [data5 |-> <<24, 8>>,
       data6 |-> <<16, 8>>, data7 |-> <<8, 8>>, data8 |-> <<0, 8>>],
       [data9 |-> <<24, 8>>, data10 |-> <<16, 8>>, data11 |-> <<8, 8>>,
       data12 |-> <<0, 8>>]>>)
data128_mds_header ==
  Type(MT_DATA128, 8, <<Mds ++ [bytes_in_chunk |-> <<0, 16>>],
       [chunks_in_mds |-> <<16, 16>>, chunk_num |-> <<0, 16>>],
       [manufacturer_id |-> <<16, 16>>, device_id |-> <<0, 16>>],
       [sub_id_1 |-> <<16, 16>>, sub_id_2 |-> <<0, 16>>]>>)
data128_mds_payload ==
  Type(MT_DATA128, 9, <<Mds ++ [value0 |-> <<0, 16>>],
       [value1 |-> <<0, 32>>], [value2 |-> <<0, 32>>],
       [value3 |-> <<0, 32>>]>>)

-------------------------------------------------------------------------------
(* The constructor, the accessors and check().                              *)

\* The fields of a class, and which of its words one lies in.
Fields(type)      == UNION {DOMAIN type.words[i] : i \in DOMAIN type.words}
Settable(type)    == Fields(type) \ type.fixed
WordOf(type, f)   == CHOOSE i \in DOMAIN type.words : f \in DOMAIN type.words[i]
FieldOf(type, f)  == type.words[WordOf(type, f)][f]
AllOnes(type, f)  == 0 .. FieldOf(type, f)[2] - 1

Get(type, words, f) ==
  LET field == FieldOf(type, f)
  IN  {b - field[1] : b \in words[WordOf(type, f)] \intersect BitsOf(field)}

\* The setters of the fields in DOMAIN values, one after the other: no two
\* fields that are set together have a bit in common.
SetFields(type, words, values) ==
  [i \in DOMAIN type.words |->
     LET layout == type.words[i]
         fields == DOMAIN layout \intersect DOMAIN values
     IN  (words[i] \ UNION {BitsOf(layout[f]) : f \in fields})
           \union UNION {{b + layout[f][1] : b \in values[f]} : f \in fields}]

\* word_base::init(): the default constructor.
Made(type) ==
  SetFields(type, [i \in DOMAIN type.words |-> {}],
            [mt |-> Bits[type.mt], status |-> Bits[type.status]])

\* word_base::check() of the first word.
Checks(type, words) ==
  /\ Get(type, words, "mt") = Bits[type.mt]
  /\ "status" \in type.fixed => Get(type, words, "status") = Bits[type.status]

\* The word as the four bytes that go to the dispatcher.
Bytes(word) ==
  LET ByteAt(n) == Number[{b \in 0 .. 7 : b + n \in word}]
  IN  <<ByteAt(24), ByteAt(16), ByteAt(8), ByteAt(0)>>

\* The object a handler makes of the words it is given.
FromBytes(word) ==
  UNION {{8 * (4 - i) + b : b \in Bits[word[i]]} : i \in 1 .. 4}

-------------------------------------------------------------------------------
(* Messages that hold a number of bytes: ump_as_array.hpp.                  *)

DataFields ==
  <<"data0", "data1", "data2", "data3", "data4", "data5", "data6", "data7",
    "data8", "data9", "data10", "data11", "data12">>

IsArray(type) == "data0" \in Fields(type) /\ "data1" \in Fields(type)
Elements(type) == {i \in DOMAIN DataFields : DataFields[i] \in Fields(type)}
MaxSize(type) == Cardinality(Elements(type))

\* Only text has no field for its size: the text ends before its first NUL.
IsText(type) == "number_of_bytes" \notin Fields(type)
Size(type, words) ==
  IF IsText(type)
  THEN Cardinality({n \in 1 .. MaxSize(type) :
         \A i \in 1 .. n : Get(type, words, DataFields[i]) # {}})
  ELSE Number[Get(type, words, "number_of_bytes")]

\* What an iteration from begin() to end() reads.
Data(type, words) ==
  [i \in 1 .. Size(type, words) |-> Get(type, words, DataFields[i])]

\* data(range): as many elements as there is room for, and the size of the
\* message; text has no field for it and is filled up with NULs.
Least(m, n) == IF m < n THEN m ELSE n
Index(f) == CHOOSE i \in DOMAIN DataFields : DataFields[i] = f
Stored(data, n) ==
  [f \in {DataFields[i] : i \in 1 .. n} |->
     IF Index(f) <= Len(data) THEN data[Index(f)] ELSE {}]
WrongAssigned(type, words, data) ==
  LET size == Least(Len(data), MaxSize(type))
  IN  SetFields(type, words, Stored(data, size) ++ [number_of_bytes |-> Bits[size]])
Assigned(type, words, data) ==
  LET size   == Least(Len(data), MaxSize(type))
      filled == IF IsText(type) THEN MaxSize(type) ELSE size
  IN  SetFields(type, words, Stored(data, filled) ++ [number_of_bytes |-> Bits[size]])
===============================================================================
