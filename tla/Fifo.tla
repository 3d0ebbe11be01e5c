--------------------------------- MODULE Fifo ---------------------------------
(***************************************************************************)
(* midi2::adt::fifo<ElementType, Elements>: a circular buffer whose read   *)
(* and write indices have one bit more than it takes to number the slots,  *)
(* so that "full" and "empty" can be told apart (include/midi2/adt/fifo.hpp). *)
(*                                                                         *)
(* Storage is raw: an element lives in a slot from construct_at until      *)
(* destroy_at.  A slot with no live element holds Raw.                     *)
(***************************************************************************)
EXTENDS Naturals, Sequences

CONSTANTS
  Objects,    \* storage for fifo objects
  Value,      \* the elements a client pushes
  MovedFrom,  \* a live element whose value was moved away
  Raw,        \* storage in which no element lives
  Elements    \* the capacity; a power of two, at least 2

\* requires(Elements > 1 && is_power_of_two(Elements)), less than 2^32.
ASSUME ElementsAssumption ==
  /\ Elements \in Nat
  /\ Elements > 1
  /\ \E bits \in 1 .. 31 : Elements = 2 ^ bits

ASSUME ValueAssumption ==
  /\ MovedFrom \notin Value
  /\ Raw \notin Value \union {MovedFrom}

VARIABLES
  alive,        \* the objects within their lifetime
  arr,          \* arr[o][s]: what lives in slot s of o
  write_index,  \* where the next element goes
  read_index,   \* where the oldest element is
  ret           \* what the last call returned

vars == <<alive, arr, write_index, read_index, ret>>

Slot  == 0 .. Elements - 1
Index == 0 .. 2 * Elements - 1     \* bits_ + 1 bits wide
Live  == Value \union {MovedFrom}

-------------------------------------------------------------------------------
(* Index arithmetic.  An index is a slot number and a wrap bit: because      *)
(* Elements is a power of two, masking with mask_ is subtracting Elements    *)
(* when the wrap bit is set, and the increment of the bit-field drops the    *)
(* carry.                                                                    *)

\* A definition named Wrong... is a bug the module's properties must catch; no
\* other definition uses it.
SlotOf(i) == IF i < Elements THEN i ELSE i - Elements
WrongInc(i) == i + 1      \* an index that keeps the carry
Inc(i)    == IF i = 2 * Elements - 1 THEN 0 ELSE i + 1
Plus(i, n) == IF i + n < 2 * Elements THEN i + n ELSE i + n - 2 * Elements

Wrapped(o) == (write_index[o] < Elements) # (read_index[o] < Elements)
Empty(o)   == write_index[o] = read_index[o]
\* The classic ring buffer, which gives up a slot to tell full from empty.
WrongFull(o) == SlotOf(Inc(write_index[o])) = SlotOf(read_index[o])
Full(o)    == SlotOf(write_index[o]) = SlotOf(read_index[o]) /\ Wrapped(o)

\* The two operands of size()'s subtraction.
SizeWrite(o) == SlotOf(write_index[o]) + (IF Wrapped(o) THEN Elements ELSE 0)
Size(o)      == SizeWrite(o) - SlotOf(read_index[o])

\* How many increments lead from index r to index w.
Between(r, w) == IF r <= w THEN w - r ELSE w + 2 * Elements - r
Distance(o)   == Between(read_index[o], write_index[o])

\* The slots from the read index up to the write index.
Occupied(o) == {SlotOf(Plus(read_index[o], k)) : k \in 0 .. Distance(o) - 1}

\* The elements from index r up to index w, and those of an object.
Elems(store, r, w) ==
  [k \in 1 .. Between(r, w) |-> store[SlotOf(Plus(r, k - 1))]]

Contents(o) == Elems(arr[o], read_index[o], write_index[o])

-------------------------------------------------------------------------------
Init ==
  /\ alive = {}
  /\ arr = [o \in Objects |-> [s \in Slot |-> Raw]]
  /\ write_index = [o \in Objects |-> 0]
  /\ read_index = [o \in Objects |-> 0]
  /\ ret = <<>>

\* fifo(): no element is constructed, both indices are zero.
Construct(o) ==
  /\ o \notin alive
  /\ alive' = alive \union {o}
  /\ arr' = [arr EXCEPT ![o] = [s \in Slot |-> Raw]]
  /\ write_index' = [write_index EXCEPT ![o] = 0]
  /\ read_index' = [read_index EXCEPT ![o] = 0]
  /\ ret' = <<>>

\* A copy that puts the elements in the first slots.
WrongTransferred(from) ==
  [s \in Slot |-> IF s < Distance(from)
                 THEN arr[from][SlotOf(Plus(read_index[from], s))] ELSE Raw]

\* The new object's slots after both constructors' loop: the elements of
\* `from`, each in the slot it had there.
Transferred(from) ==
  [s \in Slot |-> IF s \in Occupied(from) THEN arr[from][s] ELSE Raw]

\* fifo(fifo const&): construction starts at the other's read index and goes
\* on until its write index.
CopyConstruct(o, from) ==
  /\ o \notin alive /\ from \in alive
  /\ alive' = alive \union {o}
  /\ arr' = [arr EXCEPT ![o] = Transferred(from)]
  /\ write_index' = [write_index EXCEPT ![o] = write_index[from]]
  /\ read_index' = [read_index EXCEPT ![o] = read_index[from]]
  /\ ret' = <<>>

\* fifo(fifo&&): the same loop, moving; the other object's indices stay, so it
\* still has its elements, moved from.
MoveConstruct(o, from) ==
  /\ o \notin alive /\ from \in alive
  /\ alive' = alive \union {o}
  /\ arr' = [arr EXCEPT
       ![o] = Transferred(from),
       ![from] = [s \in Slot |->
                    IF s \in Occupied(from) THEN MovedFrom ELSE arr[from][s]]]
  /\ write_index' = [write_index EXCEPT ![o] = write_index[from]]
  /\ read_index' = [read_index EXCEPT ![o] = read_index[from]]
  /\ ret' = <<>>

\* A push that does not look whether there is room.
WrongPushBackRoom(o, v) ==
  /\ o \in alive
  /\ arr' = [arr EXCEPT ![o] = [arr[o] EXCEPT ![SlotOf(write_index[o])] = v]]
  /\ write_index' = [write_index EXCEPT ![o] = Inc(write_index[o])]
  /\ ret' = <<TRUE>>
  /\ UNCHANGED <<alive, read_index>>

\* push_back() and emplace_back() with room: construct in the write slot.
PushBackRoom(o, v) ==
  /\ o \in alive
  /\ ~Full(o)
  /\ arr' = [arr EXCEPT ![o] = [arr[o] EXCEPT ![SlotOf(write_index[o])] = v]]
  /\ write_index' = [write_index EXCEPT ![o] = Inc(write_index[o])]
  /\ ret' = <<TRUE>>
  /\ UNCHANGED <<alive, read_index>>

\* push_back() and emplace_back() of a full fifo return false.
PushBackFull(o, v) ==
  /\ o \in alive
  /\ Full(o)
  /\ ret' = <<FALSE>>
  /\ UNCHANGED <<alive, arr, write_index, read_index>>

\* pop_front(), whose caller has made sure that the fifo is not empty: the
\* element is moved out, destroyed, and returned.
PopFront(o) ==
  /\ o \in alive
  /\ ~Empty(o)
  /\ ret' = <<arr[o][SlotOf(read_index[o])]>>
  /\ arr' = [arr EXCEPT ![o] = [arr[o] EXCEPT ![SlotOf(read_index[o])] = Raw]]
  /\ read_index' = [read_index EXCEPT ![o] = Inc(read_index[o])]
  /\ UNCHANGED <<alive, write_index>>

\* The storage after clear(), for (; read != write; ++write): the loop moves
\* the write index round to the read index and in each round destroys the
\* element in the read slot, so that slot is the only one it clears.
Cleared(o) ==
  IF Empty(o) THEN arr[o]
  ELSE [arr[o] EXCEPT ![SlotOf(read_index[o])] = Raw]

Clear(o) ==
  /\ o \in alive
  /\ arr' = [arr EXCEPT ![o] = Cleared(o)]
  /\ write_index' = [write_index EXCEPT ![o] = read_index[o]]
  /\ ret' = <<>>
  /\ UNCHANGED <<alive, read_index>>

\* ~fifo() is clear().
Destroy(o) ==
  /\ o \in alive
  /\ alive' = alive \ {o}
  /\ arr' = [arr EXCEPT ![o] = Cleared(o)]
  /\ write_index' = [write_index EXCEPT ![o] = read_index[o]]
  /\ ret' = <<>>
  /\ UNCHANGED read_index

Next ==
  \E o \in Objects :
    \/ Construct(o)
    \/ \E from \in Objects : CopyConstruct(o, from) \/ MoveConstruct(o, from)
    \/ \E v \in Value : PushBackRoom(o, v) \/ PushBackFull(o, v)
    \/ PopFront(o)
    \/ Clear(o)
    \/ Destroy(o)

Spec == Init /\ [][Next]_vars

-------------------------------------------------------------------------------
(* Every variable has its type; an index fits its bit-field.                *)
TypeOK ==
  /\ alive \subseteq Objects
  /\ arr \in [Objects -> [Slot -> Live \union {Raw}]]
  /\ write_index \in [Objects -> Index]
  /\ read_index \in [Objects -> Index]

(* The indices alone tell how much is stored: size() never subtracts a       *)
(* larger number from a smaller one (its assert) and is the number of        *)
(* elements between the indices, full() is true exactly at Elements of them, *)
(* and there are never more.  This is what the extra index bit is for.       *)
IndicesTellSize ==
  \A o \in Objects :
    /\ Distance(o) <= Elements
    /\ SizeWrite(o) >= SlotOf(read_index[o])
    /\ Size(o) = Distance(o)
    /\ Full(o) <=> (Distance(o) = Elements)

(* Every slot between the indices holds a live element, so pop_front(), the  *)
(* copy and the move read only elements within their lifetime, whatever      *)
(* calls came before.                                                        *)
OccupiedIsLive ==
  \A o \in Objects : \A s \in Occupied(o) : arr[o][s] # Raw

(* Each fifo behaves as the bounded queue of the elements between its        *)
(* indices: order, refusals, returned values, copies and moves.              *)
Queue == INSTANCE BoundedQueue WITH
  Capacity <- Elements,
  queue <- [o \in Objects |-> Contents(o)]

ImplementsQueue == Queue!Spec

(* fifo.hpp:137 says of clear() "Erases all elements from the container.     *)
(* After this call, size() returns zero.": a slot outside the indices, or in *)
(* an object that was destroyed, has no live element.                        *)
NothingOutlivesErasure ==
  \A o \in Objects : \A s \in Slot \ Occupied(o) : arr[o][s] = Raw
===============================================================================
