# A verification project for AM_MIDI2.0Lib

TLA+ models of the MIDI 2.0 library in `src/`, checked with TLC on small
instances and, for the modules named `...Proofs`, proved with TLAPS for every
value of the constants. `PROJECT.json` lists the components, runs, mutants,
findings, hazards and theorems, and maps each definition to the lines it models.

## 1. The system

The library is single-threaded and event driven: a client pushes bytes or 32-bit
words of the Universal MIDI Packet (UMP) into an object and pops what came out of
it, or is called back. Nothing is persisted and nothing runs concurrently; what is
hard is the *order of inputs*: messages of several kinds and groups interleave,
real-time messages come inside others, a client resets or reconfigures an object in
the middle of a message, output FIFOs have four or eight slots and drop what does
not fit, and several objects keep a copy of what the *receiver* is believed to
know (running status, parameter numbers, banks).

| Component | State | Operations | Uses | What makes it correct |
|---|---|---|---|---|
| `adt::fifo` | raw slots, two indices with a wrap bit | construct, copy, move, push, pop, clear, destroy | – | it is a bounded queue; only live elements are read |
| `bytestream::to_ump` | group, status `d0_`, first data byte `d1_`, sysex packet, output | push byte, pop, reset, set_group | fifo | its words say what the bytes said |
| `ump::ump_dispatcher` | up to four words | dispatch, reset | handlers of a client | cuts the stream into packets, calls the right handler |
| `bytestream::to_bytestream` | group filter, running status, output | push word, pop, group_filter, reset | dispatcher, fifo | its bytes say what the packets of the selected groups said |
| `adt::plru_cache` | keys, values, tree bits per set | access, contains, clear, iterate | miss and valid callbacks | a map; recently used entries survive |
| `ump::to_midi1` | cache of parameter numbers, output | push, pop, reset | dispatcher, fifo, cache | a MIDI 1.0 receiver applies each value to the parameter meant |
| `ump::ump_to_midi2` | banks and parameter numbers per channel, output | push, pop, reset | dispatcher, fifo | what is complete on the link arrives, with its context |
| message classes, `ump_as_array` | one to four words | create, set and get a field, assign and read bytes, `apply` | bit fields | setters disturb nothing else; what is set is what a callback gets |
| `ci::ci_dispatcher` | header, buffer, expected count, consumer | dispatch byte, set group, set device ID | backend callbacks | frames every message, calls once and in time, survives overflow |
| `ci::create_message` | none | serialise a message | ci types | what the dispatcher reads back |
| `mcoded7`, `ci7text` | a few bytes each | push byte or character, flush, end | – | round trips; malformed input is told |
| `usbm1_to_bytestream` | cable, output | push packet, pop, reset, set cable | fifo | the bytes of one cable, each message whole |
| `ump_utils` | none | `mcm_scale` | – | keeps bits; minimum, centre and maximum are fixed points |

The documented client (`mainpage.md:58-79`) pops everything after each push; the
concept `translator` (`translator.hpp:22-52`) fixes push, empty, pop and reset.

## 2. The modules

| Module | What it is | Code |
|---|---|---|
| `BoundedQueue` | abstract: bounded queues that can be constructed, copied, cleared, destroyed | what `fifo.hpp` promises |
| `Fifo` | the circular buffer with raw storage and lifetimes | `adt/fifo.hpp` |
| `MCFifo` | values of the constants | |
| `FifoProofs` | invariants and refinement of `BoundedQueue` | |
| `MidiBytes` | status bytes, message types, the 4-tuple that stands for a UMP word | `bytestream_types.hpp`, `ump_types.hpp` |
| `MidiMessages` | abstract: a MIDI 1.0 receiver, one action per kind of byte | – |
| `UmpReader` | a reference reader of UMP words, written from the packet format | – |
| `BytestreamToUmp` | `bytestream::to_ump` and its client | `bytestream_to_ump.hpp/.cpp` |
| `HostLink` | the translator with a client that pushes bytes and reads the words; refinement of `MidiMessages` | client of `mainpage.md` |
| `UsbToBytestream` | USB-MIDI packets of one cable to bytes | `usbm1_to_bytestream.hpp` |
| `UsbLink` | `HostLink` fed by a USB host through `UsbToBytestream` | client of `mainpage.md`, both translators |
| `MCBytestreamToUmp` | packets and bytes for `UsbLink` | |
| `BytestreamToUmpProofs` | type, parser consistency, no refused word, refinement of `MidiMessages`, packets heard | |
| `UmpDispatcher` | `ump_dispatcher`: collection and classification of packets | `ump_dispatcher.hpp` |
| `MidiSender` | abstract: a sender of MIDI 1.0 messages for a set of groups | – |
| `ByteReader` | a reference reader of bytes with running status | – |
| `UmpToBytestream` | `bytestream::to_bytestream`, composed with the dispatcher | `ump_to_bytestream.hpp` |
| `DeviceLink` | the translator between a client that knows packet sizes and a device that reads the bytes; refinement of `MidiSender` | client of `mainpage.md` |
| `MCUmpToBytestream` | words and filters for `DeviceLink` | |
| `DeviceLinkProofs` | type, no refused byte; client in step, running status shared, refinement of `MidiSender` | |
| `Cache` | abstract: a map that calls a function for what it lacks and may lose one entry for another | what users of the cache rely on |
| `PlruCache` | keys, values and access tree of `adt::plru_cache`; refinement of `Cache` | `adt/plru_cache.hpp` |
| `PlruHistory` | the cache with the order in which its ways were last used (a history variable, no code) | – |
| `MCPlruCache` | keys that compete | |
| `PlruProofs` | distinct keys, lifetimes, which entries survive, refinement of `Cache` | |
| `UmpTypes` | every message class: its words, the bit range of each field, arrays of bytes, setters and getters | `ump_types.hpp`, `bitfield.hpp`, `ump_as_array.hpp` |
| `UmpMessages` | a client that builds messages and sends them with `apply`; the callbacks | `ump_dispatcher_backend.hpp`, `ump_dispatcher.hpp` |
| `MCUmpMessages` | values of the constants | |
| `UmpMessagesProofs` | layout of every class, type, the callback of each class, what it reads back | |
| `ChannelVoice` | messages as records, values as sets of bits, `mcm_scale`, output FIFOs | `ump_utils.hpp`, `ump_types.hpp` |
| `ToMidi1` | `ump::to_midi1`; its cache is an instance of `Cache` | `ump_to_midi1.hpp/.cpp` |
| `ToMidi2` | `ump::ump_to_midi2` | `ump_to_midi2.hpp/.cpp` |
| `MidiLink` | `ToMidi1`, a link with a device on it, `ToMidi2`; a MIDI 1.0 receiver that listens in | client of `mainpage.md` |
| `MCMidiLink` | messages and transactions | |
| `MidiLinkProofs` | types, no refused message, what a receiver takes each message to mean, what arrives at the far end | |
| `Iteration` | lemmas: induction over natural numbers, and steps taken one after the other | – |
| `CiTypes` | the fields, arrays and versions of every MIDI-CI message | `ci_types.hpp` |
| `CiCreateMessage` | `create_message()` | `ci_create_message.hpp` |
| `CiDispatcher` | `ci_dispatcher` with `function_config` | `ci_dispatcher.hpp`, `ci_dispatcher_backend.hpp` |
| `CiLink` | a sender, the bytes under way, the dispatcher; refinement of `CiTransfer` | demos |
| `CiTransfer` | abstract: for each message the calls it should lead to | – |
| `Mcoded7`, `Ci7Text` | the codecs for data and text | `mcoded7.hpp`, `ci7text.hpp` |
| `PropertyExchange` | text and data that go through the messages of `CiLink`; a grammar of what text says | – |
| `MCCiLink` | every message in its versions, encoded data and text in some | |
| `CiProofs` | type, prompt calls, refinement of `CiTransfer`; round trips of data and text | |

### How state and actions correspond to the code

**`Fifo`.** `arr`, `write_index`, `read_index` are `arr_`, `write_index_`,
`read_index_` of each object in `alive`. A slot holds `Raw` when no element lives in
it: `construct_at` fills it, `destroy_at` empties it. An index is a slot number plus
a wrap bit, as in the bit-field of `bits_ + 1` bits. There is one action per member
function; `push_back` has two, one for each side of its `if (full())`.

**`BytestreamToUmp`.** `group`, `d0`, `d1`, `sysex7` and `output` are the members of
the same names; `refused` records a `push_back()` of the output FIFO that returned
false, which the code ignores. `push(b)` is one step, the disjunction of its
branches: `RealTime`, `Status`, `SysexData`, `SecondByte`, `OneByteMessage`,
`FirstByte`, `Ignored`. `Restart` is `reset()` and `set_group()`.

**`UmpToBytestream`.** `message` is the part of the dispatcher's array that is in use
(`message_[0..pos_)`), `status` and `only_groups` are fields of the context that the
dispatcher's handlers share, `output` its FIFO. `push(w)` appends the word; when
the packet is complete, the handler for its message type runs in the same step, as
in the code. The output FIFOs of both translators are sequences: `FifoProofs` proves
that the circular buffer behaves so.

**`PlruCache`.** A way is the function from levels of the tree to "left or right"
that is its number in binary; a node of the tree is a level and the digits above
it, so that the index arithmetic of `touch()` and `oldest()` becomes equality of
prefixes, and the theorems hold for every power-of-two number of ways. `access()` is
four actions: `Hit`, `Refresh` (the client rejects the value), `Insert`, and
`MissThrows`. `values[s][w] = Raw` says that no value lives there.

**`UsbToBytestream`, `UsbLink`.** `cable` and `bytes` are `cable_` and `output_`. In
`UsbLink` a host sends packets for this cable and others, the client pushes each byte
that it pops into `to_ump` (`Forward`), and may restart either translator. `Packets` and
`Payload` are the packets that the host may send and the data of system exclusive
messages, of which `UsbAssumption` says what the USB MIDI class demands; `owed` and
`packet` remember what has been sent and not yet pushed.

**`HostLink`, `DeviceLink`.** The translators with the client that `mainpage.md`
describes and somebody who reads what the client pops. `reader` is what the reader has
made of it so far, `Seen` what it will make of it once everything is popped: the
mappings to the abstract receiver and sender use `Seen`, so that a push is one abstract
step and a pop none. In `DeviceLink`, `partial` is the packet that the client has begun
to push and `packet` the one that it has just finished.

**`UmpTypes`, `UmpMessages`.** A class is a record of its words (field name to bit
range, as the `ADT_BITFIELD` aliases list them) and the fields that `init()` stores and
that have no setter; a word, and the value of a field, is the set of its one bits
(`Number` and `Bits` convert bytes). `words` is the tuple of the object, `message` the
dispatcher's collected words. `Create` is the default constructor, `SetField` a
setter, `AssignData` and `AssignView` the overloads of `data()`, `SendWord` one call
that `apply()` makes, and `Abandon` the case that it returns true. All classes are
there, some sixty: `WordOf` and `FieldOf` are the getter macros, `SetFields` and `Get`
the bit fields; `data()` sets several fields one after the other, which `SetFields`
does at once since they share no bit. What setters are given (`Fills`) and what is
assigned (`Contents`) are constants, arbitrary in the proofs.

**`ToMidi1`, `ToMidi2`, `MidiLink`.** A message is a record (type, status, place,
index, value), not its words: that words arrive as messages is what `ump_messages`
shows. `push` of all the words of a message is one step and `pop` of one message
another. `pn_cache` and `pn_access` are the cache as its abstract specification sees
it, any entry may be lost; `bank`, `parameter_number`, `output1`, `output2` are the
fields of the two contexts. In `MidiLink`, `Push` and `Forward` are the client of
`to_midi1`, `DeviceBegins` and `DeviceSends` a device whose messages merge with the
application's on the link, `Receive` and `Deliver` the client at the far end. Both
translators drop what has no handler of its own in the dispatcher (`Handled`, `Drop1`,
`Drop2`); what has a meaning is stated from the enumerations (`Defined`), not from the
dispatcher. `holds`
is what a MIDI 1.0 receiver that listens in has been told, and decides what *should*
arrive.

**`CiTypes`, `CiCreateMessage`, `CiDispatcher`, `CiLink`.** A message has parts, each
of fields and perhaps an array with its length, as the packed structs and the
functions that read and write them agree on. The variables of `CiDispatcher` are the
members of the class, `consumer` names the function that `consumer_` points to, and
`calls` is what handlers were called with. `Dispatch(byte)` is the whole of
`dispatch()`: overflow or store, and the consumer when its bytes are there. The
operators `Consume...` are the member functions with the same branches; thirteen of
them, the same but for the type, are one (`Single`, `Handle`). In `CiLink` every
message has a new dispatcher. `LinkAssumption` says what the constants may be: messages
whose fields have the width that `ci_types.hpp` gives them and whose arrays have at most
16383 elements, which the two bytes of a length can hold; a buffer that holds at least a
header; numbers of foreign messages that the library does not have.
`PropertyExchange` adds no state. Its constant `Written` has texts and data together
with the messages that carry them, and `WrittenAssumption` says that their header is
what the text is written as, and their data what `EncodeMcoded7` makes of the bytes.

## 3. The runs

| Run | Specification | Distinct states | Properties |
|---|---|---|---|
| `fifo` | `Spec` | 43,048 | `TypeOK`, `IndicesTellSize`, `OccupiedIsLive`, refinement `ImplementsQueue` |
| `bytestream_to_ump` | `UsbLinkSpec` | 208,008 | `TypeOK`, `ParserConsistent`, `NothingRefused`, action property `PacketsHeard`, refinement `ImplementsReceiver` |
| `ump_to_bytestream` | `MCSpec` | 9,804 | `TypeOK`, `NothingRefused`, `RunningStatusShared`, `InStep`, refinement `ImplementsSender` |
| `plru_cache` | `MCSpec` | 47,308 | `TypeOK`, `KeysDistinct`, `ValuesLive`, `LastUsedKept`, refinement `ImplementsCache` |
| `ump_messages` | `Spec` | 27,321 | `TypeOK`, `OwnHandler`, `FieldsSurvive`, `DataSurvives`, liveness `Delivered` |
| `midi_link` | `Spec` | 361,576 | `TypeOK`, `NothingRefused`, `MeaningSurvives`, `FarEndAgrees`, liveness `Delivered` |
| `midi_ci` | `Spec` | 47,224 | `TypeOK`, `Prompt`, `TextSurvives`, `DataSurvives`, refinement with liveness `Transferred` |
| `fifo_erasure` | `Spec` | violated | `NothingOutlivesErasure` |
| `translator_reset` | `MCAnyResetSpec` | violated | `InStep` |
| `tune_request` | `MCSpec` | violated | `TuneRequestTranslated` |
| `plru_eviction` | `MCSpec` | violated | `OnlyFullSetsEvict` |
| `parameter_number` | `Spec` | violated | `MeaningSurvives` |

The five refinements are the centre of the project. Each says that a component with
its internal state is, to its user, something much simpler:

- a `fifo` is a sequence of at most `Elements` values, through copies, moves, wraps
  and lifetimes;
- `to_ump`, read by somebody who knows the packet format, is a MIDI 1.0 receiver:
  every message arrives complete, unaltered, in order, with the group in force. The
  abstract receiver records each byte it hears, so that a byte that is swallowed is
  a violation and not a stuttering step;
- `to_bytestream`, heard by a device with running status, is a sender of the
  messages of the selected groups. What the code does to system exclusive packets of
  two groups that interleave (a start while a message is open is merged into it) and to
  a repeated tune request is part of that sender, not judged by it. Each push that ends a packet is a step of the
  abstract sender with that packet, so that none can be swallowed;
- `plru_cache` is a map. `ret` holds the key of the last access, what was returned
  and whether `miss()` was called, in both;
- `create_message()`, the bytes and `ci_dispatcher` together deliver each message with
  the one call it should lead to, or none, and do not stop in the middle
  (`Transferred` includes the fairness of `CiTransfer`).

The others are what the refinements do not see: output that is lost because a FIFO
is full (`NothingRefused`), the agreement of the translator with the device about
running status (`RunningStatusShared`) and with the client about packet boundaries
(`InStep`), which entries survive in the cache (`LastUsedKept`), the lifetimes
of elements and values (`OccupiedIsLive`, `ValuesLive`), that no byte of a USB packet
is left over or missing (`PacketsHeard`), and that a MIDI-CI call comes with the last
byte and not one later or earlier (`Prompt`).

`ump_messages` compares three hand-written tables with each other: the fields of each
class, the status that `init()` stores, and the dispatcher's way from status to
callback (`OwnHandler`). `FieldsSurvive` and `DataSurvives` follow each field and byte
from its last setter to the getter in the callback. `midi_link` is about context that
two sides must share. `MeaningSurvives` compares each message given to `to_midi1` with
what a MIDI 1.0 receiver makes of the output; the cache of parameter numbers, which
may lose entries and is emptied by `reset()`, must never claim more than the receiver
knows. `FarEndAgrees` compares what `ump_to_midi2` delivers with what the same
receiver understood, message by message, values included.

`PROJECT.json` gives for each property of a passing run a mutant, a definition named
`Wrong...` in the module, under which TLC finds the property violated.

### Bounds, and why they are enough

- `fifo`: two objects, two values, capacity 2. Every pair of index values occurs,
  and so does every copy and move between objects; larger capacities are covered
  by the proofs.
- `bytestream_to_ump`: one status byte of each kind that the code distinguishes (two
  data bytes, one data byte, none, undefined, sysex start and stop, real-time), two
  data values, two groups. System exclusive messages have up to `MaxSysex = 13` data
  bytes, which give the packets in-one, start, continue and end, with the last full and
  not full. Inside such a message the n-th data byte is n, so that a byte in the wrong
  place shows. The host sends the packets that the USB MIDI class has for these
  messages, and single bytes; the cable is 3, and after `reset()`, which sets it to 0,
  packets for 3 are another cable's.
  `MaxPending = 1`: with two unread words a tune request that ends a system exclusive
  message (three words) overflows the four-word FIFO; the documented client leaves none.
- `ump_to_bytestream`: first words of all sixteen message-type sizes that occur (1, 2,
  3 and 4 words, reserved types included), system exclusive packets empty, short,
  full and with a count of 15, in two groups; words with reserved bits set;
  filters for all, one and another group. `MaxSysex = 12` is two full packets.
- `plru_cache`: two sets of four ways (the smallest tree with two levels), five keys
  for one set and one for the other; `FewValues` lets only key 0 hold the second
  value, which is enough for a value to become stale.
- `ump_messages`: every class, with up to two calls of setters (`MaxEdits`): two are
  enough for one setter to disturb the field of another. A field is set to nothing or
  to all ones, bytes to 7F or 01, with 0, 1, 5, 12 and 14 bytes: empty, short, the
  capacity of text, and beyond every capacity. Two callbacks are not set.
- `midi_link`: two channels of the application in different groups, one of the device;
  values nothing, centre, all ones and an irregular pattern; the null parameter and
  another one; messages of undefined status and of a reserved type among the others.
  Three messages or transactions (`MaxSent`) are a selection, a reset and
  a use after it, or two unfinished transactions and a whole one. One message is on
  the link (`MaxLink`), besides those in the translators.
- `midi_ci`: each message of the library in versions 1 and 2, some in version 0 or 3,
  with empty and with filled arrays; a dispatcher with a buffer of 17 bytes, less than
  the longest messages, or of 140; room to send less than 25 bytes, or any number. The
  text is written by the library, from code points of seven to twenty-one bits, or by
  another sender, from tokens of every kind: escapes, code units and surrogate pairs in
  capital and small digits, single surrogates, escapes that are wrong, broken or cut
  off; the data have 0 to 15 bytes, around one and two groups of seven.

### Environment and fairness

A client is part of every model: it pushes only when at most `MaxPending` words (for
`to_bytestream`: no byte) are unread, as `mainpage.md:58-79` tells it to, and pops only
what is there, as the precondition of `pop()` demands. In `LinkNext` of `DeviceLink`, and so in
`MCSpec` of `MCUmpToBytestream`, it calls `reset()` between packets only;
`MCAnyResetSpec` lifts that, and is where `reset()` fails.

What some senders do not do, because the code cannot take it or because a receiver
would be entitled to another answer:

- `midi_link`: on each channel the application uses registered or assignable
  parameters, not both (finding 5), and does not send the controls 0, 6, 32, 38, 98 to
  101 and 121 as plain control changes, which `to_midi1` passes through without
  touching its cache. The device sends the LSB of a number after its MSB, no value
  between the two, and the LSB of a value alone only when the receiver has its MSB or
  no number is selected (`MaySend`; what anything else means is up to the receiver).
  `to_midi1` alone may be reset at any time; both translators and the receivers only
  when nothing is under way. An LSB of a value alone, after a null number or a reset of
  all controllers and a new number, is therefore never sent: `ump_to_midi2` would join
  it to the MSB that it had kept from before (`ump_to_midi2.cpp:90`).
- `midi_ci`: no `profile_inquiry_reply` without enabled profiles (the dispatcher reads
  the number of disabled ones, `ci_dispatcher.hpp:432-434`, before it has arrived),
  and no NAK of version 1 (see section 4). Versions other than 1 and 2 are sent for
  some messages.

Most properties are safety properties, since every call of the library returns and
nothing happens without a call. The liveness properties assume only that loops of the
client go on once they are entered: `apply()` hands over all words of a message
(`ump_messages`: weak fairness of `SendWord` once it has begun); the clients of the
two translators pop until they are empty and push what they receive (`midi_link`: weak
fairness of `Forward`, `Receive`, `Deliver`, none of the application or the device);
whoever has the bytes of a system exclusive message dispatches all of them (`midi_ci`:
weak fairness of `Receive` or `Finish`). Deadlock is checked in every run.

## 4. Findings

1. **`fifo::clear()` destroys one element repeatedly** (`fifo.hpp:140`, run
   `fifo_erasure`). The loop advances `write_index_` but destroys the element at the
   read slot each time: of two or more elements, one is destroyed several times and
   the others never. With the trivial elements the library itself uses, this shows
   nowhere; with elements that own something it is a leak and a double destruction.
2. **`to_bytestream::reset()` forgets the dispatcher** (`ump_to_bytestream.hpp:107`,
   run `translator_reset`). `translator.hpp:36` promises that partially translated
   messages are dropped; the words of an unfinished packet stay in the dispatcher
   and are joined to the next packet.
3. **A tune request after a tune request is not sent** (`ump_to_bytestream.hpp:117`,
   run `tune_request`). Running status is applied to system common messages; one
   without data bytes then yields no byte at all. `MidiSender` states this behaviour
   as it is, so that the passing run can show everything else.
4. **The cache evicts while there is room** (`plru_cache.hpp:214`, run
   `plru_eviction`). The comment at `plru_cache.hpp:409-412` has a value evicted when
   the cache is fully occupied; the code re-uses the way the tree points to whether
   or not another is free.
5. **A value is applied to the wrong parameter** (`ump_to_midi1.cpp:129`, run
   `parameter_number`). `to_midi1` has one cache entry for the registered and one for
   the assignable parameter of a channel, but a receiver has one selected parameter.
   After RPN, NRPN and the same RPN again, the last value is sent without a number, and
   the receiver applies it to the NRPN.

Also noted, without a run of their own:

- `packed::nak_v1` (`ci_types.hpp:712`) is an empty struct, whose size is one: the
  dispatcher waits for a byte after a NAK of version 1 that `create_message()` does not
  write (`test_ci_dispatcher.cpp:230` adds "a stray extra byte").
- `profile_inquiry_reply()` of the dispatcher decides from bytes of the header whether a
  message without enabled profiles is complete (`ci_dispatcher.hpp:432`).
- `ci_create_message.hpp:226` says that `safe_copy()` returns `first` when there is no
  room; it returns `last`, and takes an exact fit for no room.
- The handler of a `pe_get` is not given the data of the message.
- `data(u8string_view)` reads one character beyond the view (`ump_types.hpp:4935`).
- `option_flags` and `set_to_default` of `per_note_management` are one bit
  (`ump_types.hpp:2689-2691`).
- `translator.hpp:33` says that `empty()` returns true if output is available; all
  translators return true if there is none.
- `plru_cache.hpp:244` masks a tag with the 32 bits of `~0x01U`, so that iterators of a
  cache with 64-bit keys lose their high bits.

## 5. The proofs

All are checked by TLAPS for every value of the constants that the named
assumptions of the modules allow: capacity, sets and ways are powers of two (the
`requires` clauses of the classes; more than one set), input bytes are bytes, groups
are groups, the fields of messages have the width that `ump_types.hpp` and
`ci_types.hpp` give them, USB packets hold what their class demands, the client leaves at
most one word unread, and the buffer of a `ci_dispatcher` holds a header.

- **`FifoProofs`**: `Spec => []TypeOK`, `[]IndicesTellSize`, `[]OccupiedIsLive` and the
  refinement `Spec => ImplementsQueue`. The inductive invariant `IInv` adds to the type
  that the distance between the indices of a live object is at most the capacity
  and that every slot between them holds an element; `IndicesTellSize`, which is
  about the expression in `size()`, then follows by arithmetic on the wrap bits. The
  refinement needs lemmas that say how each operation changes the sequence of
  elements between the indices (`PushElems`, `PopElems`, `TransferredElems`, ...).
- **`BytestreamToUmpProofs`**: `TypeOK`, `ParserConsistent` and `NothingRefused` are
  inductive only together: that `pos` stays within the packet and that a data byte
  yields at most two words rest on the agreement of `sysex7`, `d0` and `d1`, and that
  `output` is not overrun rests on what each branch can emit. The refinement
  `LinkSpec => ImplementsReceiver` of `HostLink` adds (`HostInv`) that the reader
  of the words is between two packets, and has the beginning of a system exclusive
  message only when the translator's next packet continues it. One lemma for each
  packet form says what the reader makes of it; a push is then one action of
  `MidiMessages`, and a pop none, because it only moves a word from what will be read
  to what has been read (`Seen` is unchanged).
  `PacketsHeard` and `UsbLinkSpec => LinkSpec` hold for every set of packets that
  `UsbAssumption` allows. The invariant `UsbInv` says that what is in the FIFO of
  `usbm1_to_bytestream` is what the host has sent and the client has not pushed, and that
  it is, to the parser of `to_ump`, the rest of what the code index number of the packet
  says (`Remains`): the size table of the one translator and the parser of the other
  agree. A packet for another cable, which arrives when nothing is owed, changes nothing.
- **`DeviceLinkProofs`**: first, for `UmpToBytestream` and any input, `TypeOK` and
  `NothingRefused`, with the part of the inductive invariant that they rest on: the
  words in the dispatcher are fewer than their packet has (`PacketIncomplete`). The longest output of a handler is
  the eight bytes F0, six data bytes, F7; `SysexDataType` bounds the data bytes whatever
  the packet claims. Then `InStep`, `RunningStatusShared` and the refinement
  `LinkSpec => ImplementsSender`. The invariant `LinkInv` says that the
  device, once it has read everything, has exactly the translator's running status
  (also `None`), that it has no data byte left over unless a system exclusive message
  is open, and that the dispatcher holds the words of the client's packet. It has to be
  this strong: `RunningStatusShared` alone does not say what a device makes of the
  next data byte. The proof follows the packet through the size table, the dispatcher
  and the handler of its kind, and the bytes of the handler through the reader.
- **`PlruProofs`**: `CacheInv` (`TypeOK`, `KeysDistinct`, `ValuesLive`) is inductive
  as it stands. `LastUsedKept` says that the entry the tree points to has at least
  `Depth` entries used after it; it is not inductive. The invariant that is,
  `SiblingUsedLater`, speaks of single nodes: where a bit on the path to an entry
  leads to it, some entry on the other side of the node was used later. For the entry
  at the end of the path this gives one entry per level, and entries that leave the
  path at different levels differ (`LeaveOnce`), so that there is an injection from
  the levels into the entries used later (`SiblingsCounted`). The refinement
  `HSpec => ImplementsCache` needs only `CacheInv`: with distinct keys the ways are a
  function from keys to values (`Contents`), with one step for each action. It does not
  say that an entry is lost only when its set is full: `Cache` may give up one entry
  of the set whenever it takes in a key, and finding 4 is that the code does.
- **`MidiLinkProofs`**: `TypeOK` and `NothingRefused` together (`TypeInv`): no message
  yields more words than an output FIFO has, and a client pushes only when it is
  empty. `MeaningSurvives` has a hypothesis, `Disciplined(Messages, Transactions)`:
  the application uses one kind of parameter on a channel, does not send the controls
  that select parameters and banks itself, and shares no channel with the device. The
  run `midi_link` checks that its constants satisfy it (`MCDisciplined`), and the run
  `parameter_number` shows that it cannot be dropped (finding 5). The invariant
  `SenderInv` says for each number in the cache that the receiver has selected it, or
  that the message under way is about to tell it (`Settled`), and for the message
  under way what of it is still in the FIFO and what the receiver knows by then
  (`Left`). That entries may vanish from the cache and that `reset()` empties it
  without telling the receiver are steps like others.
  `FarEndAgrees` has the same hypothesis. The messages that are no channel voice
  messages may have any status that fits the field; that the dispatcher has handlers
  just for those that the enumerations name is `HandledDefined`. `holds` is ahead of the
  context of `ump_to_midi2` by whatever is on the link. The invariant (`Trail`) is that
  there are states of knowledge, one before and one behind each message on the link,
  that lead message by message from what the far end knows to `holds`: the far end's
  `bank` and `parameter_number` follow the first (`Follows`), each message was one that
  a sender may send to a receiver in the state before it (`MaySend`), and what each
  means there is what has been added to `expected`. A message that is put on the link
  lengthens the trail, `Receive` shortens it by its first state, and one lemma for each
  branch of `ump_to_midi2` shows that its context then follows the second one and that
  its output agrees with what the message meant (`OneReceived`). `Follows` says what a
  context keeps that a receiver forgets: after an LSB, `ump_to_midi2` keeps the MSB for
  the next one, and a null number stays as no number.
- **`UmpMessagesProofs`**: `TypeOK`, `OwnHandler`, `FieldsSurvive` and `DataSurvives`, for
  every class and for every value of the fields, contents of arrays, number of edits and
  set of missing callbacks. `Layout` says of a class that its fields lie within their
  words, that no two of them share a bit (but for the two names of one bit in
  `per_note_management`), and that message type, status and status bank are where the
  dispatcher looks for them. There is a lemma for each message type (`UtilityClasses` to
  `FlexClasses`), which goes through its classes one by one, and one (`UtilityTable` to
  `FlexTable`) which says that each status for which the dispatcher calls a function of
  the backend has exactly one class, and that this class stores that status (`Known`).
  From the layout alone follow that a setter changes its own field and no other
  (`GetSet`), and what the dispatcher reads from the first word (`TypeRead`,
  `StatusRead`); `RoundTrip` says that a word survives being cut into bytes. The
  invariant `Inv` is that the object being built, and the one last heard, is `Faithful`:
  it has the type and status of its class, each field is as wanted, and it carries the
  assigned bytes; and that the words passed so far are those in the dispatcher.
  `DataSurvives` has the hypothesis `AfterView \subseteq {{}}`: what follows a
  `u8string_view` in memory is a NUL, as behind a literal. The code reads that character
  (section 4), and with another one the message would carry it.
- **`CiProofs`**: `TypeOK`, `Prompt`, and that every step is one of `CiTransfer` or none
  (`MessagesTransferred`, the safety part of `Transferred`), `DataSurvives` and
  `TextSurvives`, for every message that
  `LinkAssumption` allows, of any length, every buffer, room, set of handlers and of
  trailing bytes. `Laid` says where in some bytes the fields of a part, the length of
  its array and its elements are. That `create_message()` lays them out so (`PackedIs`,
  `CreateIs`), that copied bytes keep them (`LaidMoved`) and that `make()` reads from
  such bytes the object that was sent (`FieldRead`, `TailRead`, `MadeIs`) do not depend
  on the dispatcher. The invariant `Inv` does: a message is in one of three phases. The
  header is arriving (`Heading`); or its consumer waits for the next of the places
  where it is called, `Ends`, and the buffer has what has arrived of the body
  (`Reading`); or the message has been dealt with, the handler has been told what it
  should be (`OutcomeOf`), and what follows is only counted (`Past`). `TypeOK` cannot be
  proved without it: that a consumer never waits for more than the message has, and so
  never for the bytes that follow it, rests on the lengths it reads being those that
  were written. `Stage` shows for each of the three forms of a message (fields; fields
  and an array; two arrays) that what the consumer does at one of the ends leads to
  the next one or, at the last, to the handler. `Prompt` and the steps of `CiTransfer`
  then follow from counting the bytes that have been taken.

  What the handler of a property exchange message is told is what was sent
  (`ExchangeTold`, from `Prompt`), so `DataSurvives` and `TextSurvives` rest on the
  codecs alone, for every sequence of bytes, code points or tokens.
  `Mcoded7RoundTrip`: `Laid7` says where the seven bits and the sign bit of each byte
  are; the encoder lays them out so, group by group (`OneMoreEncoded`, `GroupFlushed`
  for the last one), and a decoder that has been given a byte at some place in its
  group has decoded all bytes up to it (`OneMoreDecoded`). `TextRead`: a text is a
  sequence of tokens (`IsTokens`), each with its characters and its meaning, in the
  manner of the grammar of JSON strings. There is a lemma for each branch of
  `operator()` (`NormalRead` to `LastDigit`) and for each token (`CharacterToken` to
  `CutToken`); the invariant of the reader (`TokenRead`) is that what it would have
  read if the text ended now is what the tokens mean so far, with a high surrogate that
  waits counted as replaced. `TextRoundTrip` then only has to show that the library
  writes one well formed token for each code point (`PointWritten`).
- **`Iteration`** has what the proofs about readers and lists rest on. TLAPS cannot
  instantiate the induction theorems of its library, which take an operator as a
  parameter; but the well-foundedness of the natural numbers has a first-order form
  (every non-empty set has a least element), and from that follow induction over sets
  of numbers (`AllNumbers`) and that steps taken one after the other, as the functions
  `HearAll` and `AbsorbAll` take them, have exactly one outcome (`PathExists`,
  `PathUnique`).

All invariants and safety properties that the passing runs check are proved. What is
only model-checked is liveness, which is out of the provers' reach: `Delivered` of
`ump_messages` and `midi_link`, and the part of `Transferred` that rests on fairness.
The five runs that expect a violation are counterexamples and need no proof. The proofs
are about the modules as they stand: that the modules say what the code does, and that
the external libraries do what `Ci7Text` and the USB host of `UsbLink` take them to do,
is a matter of reading.

## 6. Not modelled, and abstractions

- Values of data bytes and words are a few representatives in the runs; in the
  proofs they are arbitrary bytes.
- Copies of `to_bytestream`: the copied dispatcher keeps a pointer to the context of
  the original. Object identity is not in the model.
- Handlers that dispatch into the dispatcher that called them; the `std::function`
  backends only forward.
- In `ToMidi1` and `ToMidi2` messages are pushed and popped whole; a reset between two
  words of a message is what the run `translator_reset` shows for `to_bytestream`.
- The NEON version of the tag search is taken to return what the portable one does.
- Enumerations and signed fields of messages are their bits; `uinteger.hpp` chooses
  types at compile time; arithmetic and comparison of the iterators of `ump_as_array`
  keep no state.
- `icubaby`, the library that converts between UTF encodings, is modelled from its
  use, with `char32_t` on the side of the application.
- Text in which a broken escape, or several, but nothing else stands between a high
  surrogate and a low one (`AwaitsLow`): the code makes one character of the two. Such text is not well
  formed, so what it means is open, and `IsTokens` leaves it out. Characters of more
  than seven bits, which a system exclusive message cannot carry, are left out too.
- Demos, benchmarks, unit and fuzz tests, build files: clients of the library.

## 7. Plan

The order was: what everything rests on (`Fifo`, the byte stream translators, the
dispatcher, the cache), then the translators between protocol versions with the link
between them, then MIDI-CI with its codecs, and the message classes. All of these are
modelled; the refinements of the first group, the invariants of the link between the
protocol versions, the transfer of MIDI-CI messages and what the message classes carry
are proved, and so is what the codecs do. Two things are left for later: the shapes of
messages that the code misreads (section 3) can be sent once the code reads them, and
handlers that call back into the dispatcher can be modelled once the library has one.
