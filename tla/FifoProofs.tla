------------------------------ MODULE FifoProofs ------------------------------
(* Proofs about module Fifo, for every capacity and every set of elements.     *)
EXTENDS Fifo, SequenceTheorems, TLAPS

-------------------------------------------------------------------------------
(* Index arithmetic.                                                           *)

(* Masking the index k places after r gives the number of a slot.              *)
LEMMA SlotInRange ==
  ASSUME NEW r \in Index, NEW k \in 0 .. Elements
  PROVE  /\ Plus(r, k) \in Index
         /\ SlotOf(Plus(r, k)) \in Slot
BY ElementsAssumption DEF Plus, SlotOf, Index, Slot

(* Fewer than Elements places never come back to the same slot.                *)
LEMMA SlotsDiffer ==
  ASSUME NEW r \in Index, NEW j \in 0 .. Elements, NEW k \in 0 .. Elements,
         j < k, k - j < Elements
  PROVE  SlotOf(Plus(r, j)) # SlotOf(Plus(r, k))
BY ElementsAssumption DEF Plus, SlotOf, Index

LEMMA BetweenProperties ==
  ASSUME NEW r \in Index, NEW w \in Index, Between(r, w) <= Elements
  PROVE  /\ Between(r, w) \in 0 .. Elements
         /\ Plus(r, Between(r, w)) = w
         /\ Plus(r, 0) = r
         /\ Between(r, w) = 0 <=> r = w
BY ElementsAssumption DEF Plus, Between, Index

(* Moving the write index on makes the distance one longer, moving the read    *)
(* index one shorter, and from there every place is one nearer.                *)
LEMMA IncProperties ==
  ASSUME NEW r \in Index, NEW w \in Index, Between(r, w) <= Elements
  PROVE  /\ Inc(r) \in Index
         /\ Inc(w) \in Index
         /\ Between(r, w) < Elements => Between(r, Inc(w)) = Between(r, w) + 1
         /\ r # w => Between(Inc(r), w) = Between(r, w) - 1
         /\ \A k \in 0 .. Elements - 1 : Plus(Inc(r), k) = Plus(r, k + 1)
BY ElementsAssumption DEF Plus, Between, Index, Inc

(* Equal slots with different wrap bits are Elements apart.                    *)
LEMMA FullIsElements ==
  ASSUME NEW r \in Index, NEW w \in Index, Between(r, w) <= Elements
  PROVE  (SlotOf(w) = SlotOf(r) /\ (w < Elements) # (r < Elements))
           <=> Between(r, w) = Elements
<1>1. CASE w < Elements /\ r < Elements
  BY <1>1, ElementsAssumption DEF Between, SlotOf, Index
<1>2. CASE ~(w < Elements) /\ ~(r < Elements)
  BY <1>2, ElementsAssumption DEF Between, SlotOf, Index
<1>3. CASE w < Elements /\ ~(r < Elements)
  BY <1>3, ElementsAssumption DEF Between, SlotOf, Index
<1>4. CASE ~(w < Elements) /\ r < Elements
  BY <1>4, ElementsAssumption DEF Between, SlotOf, Index
<1> QED  BY <1>1, <1>2, <1>3, <1>4

-------------------------------------------------------------------------------
(* The inductive invariant, object by object: the indices are at most Elements *)
(* apart and every slot between them holds a live element.                     *)

Sound(store, r, w) ==
  /\ store \in [Slot -> Live \union {Raw}]
  /\ r \in Index
  /\ w \in Index
  /\ Between(r, w) <= Elements
  /\ \A k \in 0 .. Between(r, w) - 1 : store[SlotOf(Plus(r, k))] # Raw

IInv ==
  /\ alive \subseteq Objects
  /\ arr \in [Objects -> [Slot -> Live \union {Raw}]]
  /\ write_index \in [Objects -> Index]
  /\ read_index \in [Objects -> Index]
  /\ \A o \in Objects : Sound(arr[o], read_index[o], write_index[o])

(* An object whose indices are equal is sound whatever its storage holds.      *)
LEMMA EmptySound ==
  ASSUME NEW r \in Index, NEW store \in [Slot -> Live \union {Raw}]
  PROVE  Sound(store, r, r)
BY ElementsAssumption DEF Sound, Between, Index

LEMMA PushSound ==
  ASSUME NEW store, NEW r, NEW w, NEW v \in Value,
         Sound(store, r, w), Between(r, w) # Elements
  PROVE  Sound([store EXCEPT ![SlotOf(w)] = v], r, Inc(w))
<1> DEFINE n == Between(r, w)
           new == [store EXCEPT ![SlotOf(w)] = v]
<1>1. n \in 0 .. Elements - 1 /\ Plus(r, n) = w /\ r \in Index /\ w \in Index
  BY BetweenProperties, ElementsAssumption DEF Sound
<1>2. SlotOf(w) \in Slot
  BY <1>1, SlotInRange, ElementsAssumption
<1>3. Between(r, Inc(w)) = n + 1 /\ Inc(w) \in Index
  BY <1>1, IncProperties, ElementsAssumption
<1>4. new \in [Slot -> Live \union {Raw}]
  BY <1>2 DEF Sound, Live
<1>5. ASSUME NEW k \in 0 .. n
      PROVE  new[SlotOf(Plus(r, k))] # Raw
  <2>1. SlotOf(Plus(r, k)) \in Slot
    BY <1>1, SlotInRange, ElementsAssumption
  <2>2. CASE k = n
    BY <1>1, <1>2, <2>2, ValueAssumption DEF Sound
  <2>3. CASE k # n
    <3>1. SlotOf(Plus(r, k)) # SlotOf(w)
      BY <1>1, <2>3, SlotsDiffer, ElementsAssumption
    <3>2. k \in 0 .. n - 1
      BY <1>1, <2>3, ElementsAssumption
    <3> QED  BY <2>1, <3>1, <3>2 DEF Sound
  <2> QED  BY <2>2, <2>3
<1> QED  BY <1>1, <1>3, <1>4, <1>5, ElementsAssumption DEF Sound

LEMMA PopSound ==
  ASSUME NEW store, NEW r, NEW w, Sound(store, r, w), r # w
  PROVE  Sound([store EXCEPT ![SlotOf(r)] = Raw], Inc(r), w)
<1> DEFINE n == Between(r, w)
           new == [store EXCEPT ![SlotOf(r)] = Raw]
<1>1. n \in 1 .. Elements /\ Plus(r, 0) = r /\ r \in Index /\ w \in Index
  BY BetweenProperties, ElementsAssumption DEF Sound
<1>2. SlotOf(r) \in Slot
  BY <1>1, SlotInRange, ElementsAssumption
<1>3. /\ Between(Inc(r), w) = n - 1
      /\ Inc(r) \in Index
      /\ \A k \in 0 .. Elements - 1 : Plus(Inc(r), k) = Plus(r, k + 1)
  BY <1>1, IncProperties, ElementsAssumption
<1>4. new \in [Slot -> Live \union {Raw}]
  BY <1>2 DEF Sound
<1>5. ASSUME NEW k \in 0 .. n - 2
      PROVE  new[SlotOf(Plus(Inc(r), k))] # Raw
  <2>1. k + 1 \in 1 .. n - 1 /\ k \in 0 .. Elements - 1 /\ k + 1 \in 0 .. Elements
    BY <1>1, ElementsAssumption
  <2>2. SlotOf(Plus(r, k + 1)) \in Slot
    BY <1>1, <2>1, SlotInRange
  <2>3. SlotOf(Plus(r, k + 1)) # SlotOf(r)
    BY <1>1, <2>1, SlotsDiffer, ElementsAssumption
  <2>4. store[SlotOf(Plus(r, k + 1))] # Raw
    BY <1>1, <2>1, ElementsAssumption DEF Sound
  <2> QED  BY <1>3, <2>1, <2>2, <2>3, <2>4 DEF Sound
<1> QED  BY <1>1, <1>3, <1>4, <1>5, ElementsAssumption DEF Sound

(* Both constructors' loops copy exactly the slots between the indices.        *)
LEMMA TransferredSound ==
  ASSUME IInv, NEW from \in Objects
  PROVE  Sound(Transferred(from), read_index[from], write_index[from])
<1> DEFINE r == read_index[from]
           w == write_index[from]
<1>1. Sound(arr[from], r, w)
  BY DEF IInv
<1>2. Transferred(from) \in [Slot -> Live \union {Raw}]
  BY <1>1 DEF Transferred, Sound
<1>3. ASSUME NEW k \in 0 .. Between(r, w) - 1
      PROVE  Transferred(from)[SlotOf(Plus(r, k))] # Raw
  <2>1. SlotOf(Plus(r, k)) \in Slot
    BY <1>1, BetweenProperties, SlotInRange, ElementsAssumption DEF Sound
  <2>2. SlotOf(Plus(r, k)) \in Occupied(from)
    BY DEF Occupied, Distance
  <2> QED  BY <1>1, <2>1, <2>2 DEF Transferred, Sound
<1> QED  BY <1>1, <1>2, <1>3 DEF Sound

(* A moved-from object still has as many elements.                             *)
LEMMA MovedFromSound ==
  ASSUME IInv, NEW from \in Objects
  PROVE  Sound([s \in Slot |-> IF s \in Occupied(from) THEN MovedFrom ELSE arr[from][s]],
               read_index[from], write_index[from])
<1> DEFINE r == read_index[from]
           w == write_index[from]
           new == [s \in Slot |-> IF s \in Occupied(from) THEN MovedFrom ELSE arr[from][s]]
<1>1. Sound(arr[from], r, w)
  BY DEF IInv
<1>2. new \in [Slot -> Live \union {Raw}]
  BY <1>1 DEF Sound, Live
<1>3. ASSUME NEW k \in 0 .. Between(r, w) - 1
      PROVE  new[SlotOf(Plus(r, k))] # Raw
  <2>1. SlotOf(Plus(r, k)) \in Slot
    BY <1>1, BetweenProperties, SlotInRange, ElementsAssumption DEF Sound
  <2>2. SlotOf(Plus(r, k)) \in Occupied(from)
    BY DEF Occupied, Distance
  <2> QED  BY <2>1, <2>2, ValueAssumption
<1> QED  BY <1>1, <1>2, <1>3 DEF Sound

LEMMA ClearedType ==
  ASSUME IInv, NEW o \in Objects
  PROVE  Cleared(o) \in [Slot -> Live \union {Raw}]
BY ElementsAssumption, SlotInRange, BetweenProperties DEF IInv, Sound, Cleared

-------------------------------------------------------------------------------
LEMMA InitIInv == Init => IInv
<1> SUFFICES ASSUME Init PROVE IInv
  OBVIOUS
<1>1. /\ alive \subseteq Objects
      /\ arr \in [Objects -> [Slot -> Live \union {Raw}]]
      /\ write_index \in [Objects -> Index]
      /\ read_index \in [Objects -> Index]
  BY ElementsAssumption DEF Init, Index
<1>2. ASSUME NEW o \in Objects
      PROVE  Sound(arr[o], read_index[o], write_index[o])
  BY <1>1, EmptySound DEF Init
<1> QED  BY <1>1, <1>2 DEF IInv

LEMMA StepIInv == IInv /\ [Next]_vars => IInv'
<1> SUFFICES ASSUME IInv, [Next]_vars PROVE IInv'
  OBVIOUS
<1>1. CASE UNCHANGED vars
  BY <1>1 DEF vars, IInv, Sound
<1>2. ASSUME NEW o \in Objects, Construct(o) PROVE IInv'
  <2>1. [s \in Slot |-> Raw] \in [Slot -> Live \union {Raw}] /\ 0 \in Index
    BY ElementsAssumption DEF Index
  <2>2. Sound([s \in Slot |-> Raw], 0, 0)
    BY <2>1, EmptySound
  <2> QED  BY <1>2, <2>1, <2>2 DEF Construct, IInv
<1>3. ASSUME NEW o \in Objects, NEW from \in Objects, CopyConstruct(o, from)
      PROVE  IInv'
  <2>1. Sound(Transferred(from), read_index[from], write_index[from])
    BY TransferredSound
  <2>2. Transferred(from) \in [Slot -> Live \union {Raw}]
    BY <2>1 DEF Sound
  <2> QED  BY <1>3, <2>1, <2>2 DEF CopyConstruct, IInv
<1>4. ASSUME NEW o \in Objects, NEW from \in Objects, MoveConstruct(o, from)
      PROVE  IInv'
  <2> DEFINE left == [s \in Slot |-> IF s \in Occupied(from) THEN MovedFrom ELSE arr[from][s]]
  <2>1. Sound(Transferred(from), read_index[from], write_index[from])
    BY TransferredSound
  <2>2. Sound(left, read_index[from], write_index[from])
    BY MovedFromSound
  <2>3. /\ Transferred(from) \in [Slot -> Live \union {Raw}]
        /\ left \in [Slot -> Live \union {Raw}]
    BY <2>1, <2>2 DEF Sound
  <2>4. o # from
    BY <1>4 DEF MoveConstruct
  <2>5. arr' = [arr EXCEPT ![o] = Transferred(from), ![from] = left]
    BY <1>4 DEF MoveConstruct
  <2> HIDE DEF left
  <2> QED  BY <1>4, <2>1, <2>2, <2>3, <2>4, <2>5 DEF MoveConstruct, IInv
<1>5. ASSUME NEW o \in Objects, NEW v \in Value, PushBackRoom(o, v)
      PROVE  IInv'
  <2> DEFINE new == [arr[o] EXCEPT ![SlotOf(write_index[o])] = v]
  <2>1. Sound(arr[o], read_index[o], write_index[o])
    BY DEF IInv
  <2>2. Between(read_index[o], write_index[o]) # Elements
    BY <1>5, <2>1, FullIsElements DEF PushBackRoom, Full, Wrapped, Sound
  <2>3. Sound(new, read_index[o], Inc(write_index[o]))
    BY <2>1, <2>2, PushSound
  <2>4. new \in [Slot -> Live \union {Raw}] /\ Inc(write_index[o]) \in Index
    BY <2>3 DEF Sound
  <2>5. arr' = [arr EXCEPT ![o] = new]
    BY <1>5 DEF PushBackRoom
  <2> HIDE DEF new
  <2> QED  BY <1>5, <2>3, <2>4, <2>5 DEF PushBackRoom, IInv
<1>6. ASSUME NEW o \in Objects, NEW v \in Value, PushBackFull(o, v)
      PROVE  IInv'
  BY <1>6 DEF PushBackFull, IInv, Sound
<1>7. ASSUME NEW o \in Objects, PopFront(o) PROVE IInv'
  <2> DEFINE new == [arr[o] EXCEPT ![SlotOf(read_index[o])] = Raw]
  <2>1. Sound(arr[o], read_index[o], write_index[o])
    BY DEF IInv
  <2>2. Sound(new, Inc(read_index[o]), write_index[o])
    BY <1>7, <2>1, PopSound DEF PopFront, Empty
  <2>3. new \in [Slot -> Live \union {Raw}] /\ Inc(read_index[o]) \in Index
    BY <2>2 DEF Sound
  <2>4. arr' = [arr EXCEPT ![o] = new]
    BY <1>7 DEF PopFront
  <2> HIDE DEF new
  <2> QED  BY <1>7, <2>2, <2>3, <2>4 DEF PopFront, IInv
<1>8. ASSUME NEW o \in Objects, Clear(o) PROVE IInv'
  <2>1. Cleared(o) \in [Slot -> Live \union {Raw}] /\ read_index[o] \in Index
    BY ClearedType DEF IInv
  <2>2. Sound(Cleared(o), read_index[o], read_index[o])
    BY <2>1, EmptySound
  <2> QED  BY <1>8, <2>1, <2>2 DEF Clear, IInv
<1>9. ASSUME NEW o \in Objects, Destroy(o) PROVE IInv'
  <2>1. Cleared(o) \in [Slot -> Live \union {Raw}] /\ read_index[o] \in Index
    BY ClearedType DEF IInv
  <2>2. Sound(Cleared(o), read_index[o], read_index[o])
    BY <2>1, EmptySound
  <2> QED  BY <1>9, <2>1, <2>2 DEF Destroy, IInv
<1> QED
  BY <1>1, <1>2, <1>3, <1>4, <1>5, <1>6, <1>7, <1>8, <1>9 DEF Next

THEOREM Invariance == Spec => []IInv
BY InitIInv, StepIInv, PTL DEF Spec

(* Every variable keeps its type; in particular the indices fit bits_ + 1 bits. *)
THEOREM TypeCorrect == Spec => []TypeOK
<1>1. IInv => TypeOK
  BY DEF IInv, TypeOK
<1> QED  BY <1>1, Invariance, PTL

(* The two indices and their wrap bits determine the number of elements, for   *)
(* every capacity: full() and size() mean what they say and size()'s assert    *)
(* holds.                                                                      *)
THEOREM IndicesAlwaysTellSize == Spec => []IndicesTellSize
<1>1. IInv => IndicesTellSize
  <2> SUFFICES ASSUME IInv, NEW o \in Objects
               PROVE  /\ Distance(o) <= Elements
                      /\ SizeWrite(o) >= SlotOf(read_index[o])
                      /\ Size(o) = Distance(o)
                      /\ Full(o) <=> (Distance(o) = Elements)
    BY DEF IndicesTellSize
  <2> DEFINE r == read_index[o]
             w == write_index[o]
  <2>1. r \in Index /\ w \in Index /\ Between(r, w) <= Elements
    BY DEF IInv, Sound
  <2>2. Full(o) <=> (Distance(o) = Elements)
    BY <2>1, FullIsElements DEF Full, Wrapped, Distance
  <2>3. SizeWrite(o) >= SlotOf(r) /\ Size(o) = Distance(o)
    <3>1. CASE w < Elements /\ r < Elements
      BY <2>1, <3>1, ElementsAssumption
      DEF Between, SlotOf, Index, Wrapped, Distance, Size, SizeWrite
    <3>2. CASE ~(w < Elements) /\ ~(r < Elements)
      BY <2>1, <3>2, ElementsAssumption
      DEF Between, SlotOf, Index, Wrapped, Distance, Size, SizeWrite
    <3>3. CASE w < Elements /\ ~(r < Elements)
      BY <2>1, <3>3, ElementsAssumption
      DEF Between, SlotOf, Index, Wrapped, Distance, Size, SizeWrite
    <3>4. CASE ~(w < Elements) /\ r < Elements
      BY <2>1, <3>4, ElementsAssumption
      DEF Between, SlotOf, Index, Wrapped, Distance, Size, SizeWrite
    <3> QED  BY <3>1, <3>2, <3>3, <3>4
  <2> QED  BY <2>1, <2>2, <2>3 DEF Distance
<1> QED  BY <1>1, Invariance, PTL

(* pop_front(), the copy and the move never read storage in which no element   *)
(* lives.                                                                      *)
THEOREM OccupiedAlwaysLive == Spec => []OccupiedIsLive
<1>1. IInv => OccupiedIsLive
  BY DEF IInv, Sound, OccupiedIsLive, Occupied, Distance
<1> QED  BY <1>1, Invariance, PTL

-------------------------------------------------------------------------------
(* The refinement: what happens to the elements between the indices.           *)

LEMMA ElemsAreSeq ==
  ASSUME NEW store, NEW r, NEW w, Sound(store, r, w)
  PROVE  /\ Elems(store, r, w) \in Seq(Live)
         /\ Len(Elems(store, r, w)) = Between(r, w)
         /\ \A k \in 1 .. Between(r, w) :
              Elems(store, r, w)[k] = store[SlotOf(Plus(r, k - 1))]
<1>1. Between(r, w) \in 0 .. Elements
  BY BetweenProperties DEF Sound
<1>2. ASSUME NEW k \in 1 .. Between(r, w)
      PROVE  store[SlotOf(Plus(r, k - 1))] \in Live
  <2>1. k - 1 \in 0 .. Between(r, w) - 1 /\ k - 1 \in 0 .. Elements
    BY <1>1, ElementsAssumption
  <2>2. SlotOf(Plus(r, k - 1)) \in Slot
    BY <2>1, SlotInRange DEF Sound
  <2> QED  BY <2>1, <2>2 DEF Sound
<1>3. Elems(store, r, w) \in [1 .. Between(r, w) -> Live]
  BY <1>2 DEF Elems
<1>4. Elems(store, r, w) \in Seq(Live)
  BY <1>1, <1>3, SeqDef, ElementsAssumption
<1>5. Len(Elems(store, r, w)) = Between(r, w)
  BY <1>1, <1>3, <1>4, LenProperties, ElementsAssumption
<1> QED  BY <1>4, <1>5 DEF Elems

LEMMA NoElems ==
  ASSUME NEW store \in [Slot -> Live \union {Raw}], NEW r \in Index
  PROVE  Elems(store, r, r) = <<>>
<1>1. Sound(store, r, r)
  BY EmptySound
<1>2. Between(r, r) = 0
  BY ElementsAssumption DEF Between, Index
<1> QED  BY <1>1, <1>2, ElemsAreSeq, EmptySeq

LEMMA PushElems ==
  ASSUME NEW store, NEW r, NEW w, NEW v \in Value,
         Sound(store, r, w), Between(r, w) # Elements
  PROVE  Elems([store EXCEPT ![SlotOf(w)] = v], r, Inc(w))
           = Append(Elems(store, r, w), v)
<1> DEFINE n == Between(r, w)
           new == [store EXCEPT ![SlotOf(w)] = v]
           before == Elems(store, r, w)
           after == Elems(new, r, Inc(w))
<1>1. n \in 0 .. Elements - 1 /\ Plus(r, n) = w /\ r \in Index /\ w \in Index
  BY BetweenProperties, ElementsAssumption DEF Sound
<1>2. Between(r, Inc(w)) = n + 1
  <2>1. Between(r, w) <= Elements /\ Between(r, w) < Elements
    BY <1>1, ElementsAssumption
  <2> QED  BY <1>1, <2>1, IncProperties
<1>3. Sound(new, r, Inc(w))
  BY PushSound
<1>4. /\ before \in Seq(Live) /\ Len(before) = n
      /\ \A k \in 1 .. n : before[k] = store[SlotOf(Plus(r, k - 1))]
  BY ElemsAreSeq
<1>5. /\ after \in Seq(Live) /\ Len(after) = n + 1
      /\ \A k \in 1 .. n + 1 : after[k] = new[SlotOf(Plus(r, k - 1))]
  <2> HIDE DEF new
  <2> QED  BY <1>2, <1>3, ElemsAreSeq
<1>6. /\ Append(before, v) \in Seq(Live)
      /\ Len(Append(before, v)) = n + 1
      /\ \A k \in 1 .. n + 1 :
           Append(before, v)[k] = IF k = n + 1 THEN v ELSE before[k]
  <2> HIDE DEF before, n
  <2> QED  BY <1>1, <1>4, ElementsAssumption DEF Live
<1>7. ASSUME NEW k \in 1 .. n + 1
      PROVE  after[k] = Append(before, v)[k]
  <2>1. k - 1 \in 0 .. n /\ k - 1 \in 0 .. Elements /\ n \in 0 .. Elements
    BY <1>1, ElementsAssumption
  <2>2. SlotOf(Plus(r, k - 1)) \in Slot /\ SlotOf(w) \in Slot
    BY <1>1, <2>1, SlotInRange
  <2>3. CASE k = n + 1
    <3>1. Plus(r, k - 1) = w
      BY <1>1, <2>3
    <3>2. new[SlotOf(w)] = v
      BY <2>2 DEF Sound
    <3> QED  BY <1>5, <1>6, <2>3, <3>1, <3>2
  <2>4. CASE k # n + 1
    <3>1. k - 1 < n /\ n - (k - 1) < Elements + 1 /\ k \in 1 .. n
      BY <1>1, <2>1, <2>4, ElementsAssumption
    <3>2. SlotOf(Plus(r, k - 1)) # SlotOf(w)
      BY <1>1, <2>1, <3>1, SlotsDiffer, ElementsAssumption
    <3>3. new[SlotOf(Plus(r, k - 1))] = store[SlotOf(Plus(r, k - 1))]
      BY <2>2, <3>2 DEF Sound
    <3> QED  BY <1>4, <1>5, <1>6, <2>4, <3>1, <3>3
  <2> QED  BY <2>3, <2>4
<1>8. after = Append(before, v)
  <2> HIDE DEF after, before, n
  <2> QED  BY <1>1, <1>5, <1>6, <1>7, SeqEqual
<1> QED  BY <1>8

LEMMA PopElems ==
  ASSUME NEW store, NEW r, NEW w, Sound(store, r, w), r # w
  PROVE  /\ Elems(store, r, w) # <<>>
         /\ Head(Elems(store, r, w)) = store[SlotOf(r)]
         /\ Elems([store EXCEPT ![SlotOf(r)] = Raw], Inc(r), w)
              = Tail(Elems(store, r, w))
<1> DEFINE n == Between(r, w)
           new == [store EXCEPT ![SlotOf(r)] = Raw]
           before == Elems(store, r, w)
           after == Elems(new, Inc(r), w)
<1>1. n \in 1 .. Elements /\ Plus(r, 0) = r /\ r \in Index /\ w \in Index
  BY BetweenProperties, ElementsAssumption DEF Sound
<1>2. /\ Between(Inc(r), w) = n - 1
      /\ \A k \in 0 .. Elements - 1 : Plus(Inc(r), k) = Plus(r, k + 1)
  BY <1>1, IncProperties, ElementsAssumption
<1>3. Sound(new, Inc(r), w)
  BY PopSound
<1>4. /\ before \in Seq(Live) /\ Len(before) = n
      /\ \A k \in 1 .. n : before[k] = store[SlotOf(Plus(r, k - 1))]
  BY ElemsAreSeq
<1>5. /\ after \in Seq(Live) /\ Len(after) = n - 1
      /\ \A k \in 1 .. n - 1 : after[k] = new[SlotOf(Plus(Inc(r), k - 1))]
  <2> HIDE DEF new
  <2> QED  BY <1>2, <1>3, ElemsAreSeq
<1>6. before # <<>>
  BY <1>1, <1>4, EmptySeq
<1>7. Head(before) = store[SlotOf(r)]
  <2>1. Head(before) = before[1]
    BY <1>4, <1>6
  <2> QED  BY <1>1, <1>4, <2>1
<1>8. /\ Tail(before) \in Seq(Live)
      /\ Len(Tail(before)) = n - 1
      /\ \A k \in 1 .. n - 1 : Tail(before)[k] = before[k + 1]
  <2> HIDE DEF before
  <2> QED  BY <1>4, <1>6, HeadTailProperties
<1>9. ASSUME NEW k \in 1 .. n - 1
      PROVE  after[k] = Tail(before)[k]
  <2>1. k - 1 \in 0 .. Elements - 1 /\ k \in 0 .. Elements /\ k + 1 \in 1 .. n
        /\ k < Elements /\ (k - 1) + 1 = k /\ (k + 1) - 1 = k
    BY <1>1, ElementsAssumption
  <2>2. SlotOf(Plus(r, k)) \in Slot
    BY <1>1, <2>1, SlotInRange
  <2>3. SlotOf(Plus(r, k)) # SlotOf(r)
    BY <1>1, <2>1, SlotsDiffer, ElementsAssumption
  <2>4. after[k] = store[SlotOf(Plus(r, k))]
    <3>1. after[k] = new[SlotOf(Plus(r, k))]
      BY <1>2, <1>5, <2>1
    <3> QED  BY <2>2, <2>3, <3>1 DEF Sound
  <2>5. before[k + 1] = store[SlotOf(Plus(r, k))]
    BY <1>4, <2>1
  <2> QED  BY <1>8, <2>4, <2>5
<1>10. after = Tail(before)
  <2> HIDE DEF after, before, n
  <2> QED  BY <1>1, <1>5, <1>8, <1>9, SeqEqual
<1> QED  BY <1>6, <1>7, <1>10

\* Two objects with the same indices, and the same elements between them.
LEMMA SameElems ==
  ASSUME NEW s, NEW t, NEW r, NEW w, Sound(s, r, w),
         \A k \in 0 .. Between(r, w) - 1 :
           s[SlotOf(Plus(r, k))] = t[SlotOf(Plus(r, k))]
  PROVE  Elems(s, r, w) = Elems(t, r, w)
<1>1. Between(r, w) \in 0 .. Elements
  BY BetweenProperties DEF Sound
<1>2. \A k \in 1 .. Between(r, w) :
        s[SlotOf(Plus(r, k - 1))] = t[SlotOf(Plus(r, k - 1))]
  BY <1>1, ElementsAssumption
<1> QED  BY <1>2 DEF Elems

LEMMA TransferredElems ==
  ASSUME IInv, NEW from \in Objects
  PROVE  Elems(Transferred(from), read_index[from], write_index[from])
           = Contents(from)
<1> DEFINE r == read_index[from]
           w == write_index[from]
<1>1. Sound(arr[from], r, w) /\ Sound(Transferred(from), r, w)
  BY TransferredSound DEF IInv
<1>2. ASSUME NEW k \in 0 .. Between(r, w) - 1
      PROVE  Transferred(from)[SlotOf(Plus(r, k))] = arr[from][SlotOf(Plus(r, k))]
  <2>1. SlotOf(Plus(r, k)) \in Slot
    BY <1>1, BetweenProperties, SlotInRange, ElementsAssumption DEF Sound
  <2>2. SlotOf(Plus(r, k)) \in Occupied(from)
    BY DEF Occupied, Distance
  <2> QED  BY <2>1, <2>2 DEF Transferred
<1> QED  BY <1>1, <1>2, SameElems DEF Contents

LEMMA MovedFromElems ==
  ASSUME IInv, NEW from \in Objects
  PROVE  Elems([s \in Slot |-> IF s \in Occupied(from) THEN MovedFrom ELSE arr[from][s]],
               read_index[from], write_index[from])
           = [i \in 1 .. Len(Contents(from)) |-> MovedFrom]
<1> DEFINE r == read_index[from]
           w == write_index[from]
           new == [s \in Slot |-> IF s \in Occupied(from) THEN MovedFrom ELSE arr[from][s]]
<1>1. Sound(arr[from], r, w)
  BY DEF IInv
<1>2. Len(Contents(from)) = Between(r, w)
  BY <1>1, ElemsAreSeq DEF Contents
<1>3. ASSUME NEW k \in 1 .. Between(r, w)
      PROVE  new[SlotOf(Plus(r, k - 1))] = MovedFrom
  <2>1. k - 1 \in 0 .. Between(r, w) - 1 /\ k - 1 \in 0 .. Elements
    BY <1>1, BetweenProperties, ElementsAssumption DEF Sound
  <2>2. SlotOf(Plus(r, k - 1)) \in Slot
    BY <1>1, <2>1, SlotInRange DEF Sound
  <2>3. SlotOf(Plus(r, k - 1)) \in Occupied(from)
    BY <2>1 DEF Occupied, Distance
  <2> QED  BY <2>2, <2>3
<1> QED  BY <1>2, <1>3 DEF Elems

LEMMA InitRefines == Init => Queue!Init
<1> SUFFICES ASSUME Init PROVE Queue!Init
  OBVIOUS
<1>1. ASSUME NEW o \in Objects PROVE Contents(o) = <<>>
  <2>1. [s \in Slot |-> Raw] \in [Slot -> Live \union {Raw}] /\ 0 \in Index
    BY ElementsAssumption DEF Index
  <2> QED  BY <2>1, NoElems DEF Contents, Init
<1> QED  BY <1>1 DEF Init, Queue!Init

\* Lengths and guards of the queue and of the fifo agree.
LEMMA ContentsLength ==
  ASSUME IInv, NEW o \in Objects
  PROVE  /\ Sound(arr[o], read_index[o], write_index[o])
         /\ Contents(o) \in Seq(Live)
         /\ Len(Contents(o)) = Between(read_index[o], write_index[o])
         /\ Full(o) <=> Len(Contents(o)) = Elements
         /\ ~Full(o) <=> Len(Contents(o)) < Elements
         /\ Empty(o) <=> Contents(o) = <<>>
<1>1. Sound(arr[o], read_index[o], write_index[o])
  BY DEF IInv
<1>2. Contents(o) \in Seq(Live) /\ Len(Contents(o)) = Between(read_index[o], write_index[o])
  BY <1>1, ElemsAreSeq DEF Contents
<1>3. Full(o) <=> Between(read_index[o], write_index[o]) = Elements
  BY <1>1, FullIsElements DEF Full, Wrapped, Sound
<1>4. Between(read_index[o], write_index[o]) \in 0 .. Elements
  BY <1>1, BetweenProperties DEF Sound
<1>5. Empty(o) <=> Contents(o) = <<>>
  <2>1. Empty(o) <=> Between(read_index[o], write_index[o]) = 0
    BY <1>1, BetweenProperties DEF Sound, Empty
  <2> QED  BY <1>2, <2>1, EmptySeq
<1> QED  BY <1>1, <1>2, <1>3, <1>4, <1>5, ElementsAssumption

LEMMA StepRefines == IInv /\ [Next]_vars => [Queue!Next]_(Queue!vars)
<1> SUFFICES ASSUME IInv, [Next]_vars
             PROVE  Queue!Next \/ UNCHANGED Queue!vars
  OBVIOUS
<1> DEFINE queue == [o \in Objects |-> Contents(o)]
<1>1. CASE UNCHANGED vars
  BY <1>1 DEF vars, Queue!vars, Contents
<1>2. ASSUME NEW o \in Objects, Construct(o)
      PROVE  Queue!Construct(o)
  <2>1. Contents(o)' = <<>>
    <3>1. [s \in Slot |-> Raw] \in [Slot -> Live \union {Raw}] /\ 0 \in Index
      BY ElementsAssumption DEF Index
    <3>2. arr'[o] = [s \in Slot |-> Raw] /\ write_index'[o] = 0 /\ read_index'[o] = 0
      BY <1>2 DEF Construct, IInv
    <3> QED  BY <3>1, <3>2, NoElems DEF Contents
  <2>2. \A p \in Objects \ {o} : Contents(p)' = Contents(p)
    BY <1>2 DEF Construct, Contents, IInv
  <2> QED  BY <1>2, <2>1, <2>2 DEF Construct, Queue!Construct
<1>3. ASSUME NEW o \in Objects, NEW from \in Objects, CopyConstruct(o, from)
      PROVE  Queue!CopyConstruct(o, from)
  <2>1. Contents(o)' = Contents(from)
    <3>1. /\ arr'[o] = Transferred(from)
          /\ write_index'[o] = write_index[from]
          /\ read_index'[o] = read_index[from]
      BY <1>3 DEF CopyConstruct, IInv
    <3> QED  BY <3>1, TransferredElems DEF Contents
  <2>2. \A p \in Objects \ {o} : Contents(p)' = Contents(p)
    BY <1>3 DEF CopyConstruct, Contents, IInv
  <2> QED  BY <1>3, <2>1, <2>2 DEF CopyConstruct, Queue!CopyConstruct
<1>4. ASSUME NEW o \in Objects, NEW from \in Objects, MoveConstruct(o, from)
      PROVE  Queue!MoveConstruct(o, from)
  <2> DEFINE left == [s \in Slot |-> IF s \in Occupied(from) THEN MovedFrom ELSE arr[from][s]]
  <2>1. o # from
    BY <1>4 DEF MoveConstruct
  <2>2. Contents(o)' = Contents(from)
    <3>1. /\ arr'[o] = Transferred(from)
          /\ write_index'[o] = write_index[from]
          /\ read_index'[o] = read_index[from]
      BY <1>4, <2>1 DEF MoveConstruct, IInv
    <3> QED  BY <3>1, TransferredElems DEF Contents
  <2>3. Contents(from)' = [i \in 1 .. Len(Contents(from)) |-> MovedFrom]
    <3>1. /\ arr'[from] = left
          /\ write_index'[from] = write_index[from]
          /\ read_index'[from] = read_index[from]
      BY <1>4, <2>1 DEF MoveConstruct, IInv
    <3> QED  BY <3>1, MovedFromElems DEF Contents
  <2>4. \A p \in Objects \ {o, from} : Contents(p)' = Contents(p)
    BY <1>4 DEF MoveConstruct, Contents, IInv
  <2>5. queue' = [queue EXCEPT
                    ![o] = queue[from],
                    ![from] = [i \in 1 .. Len(queue[from]) |-> MovedFrom]]
    BY <2>1, <2>2, <2>3, <2>4
  <2> HIDE DEF left
  <2> QED  BY <1>4, <2>5 DEF MoveConstruct, Queue!MoveConstruct
<1>5. ASSUME NEW o \in Objects, NEW v \in Value, PushBackRoom(o, v)
      PROVE  Queue!PushBack(o, v)
  <2> DEFINE new == [arr[o] EXCEPT ![SlotOf(write_index[o])] = v]
  <2>1. /\ Sound(arr[o], read_index[o], write_index[o])
        /\ Len(Contents(o)) < Elements
        /\ Between(read_index[o], write_index[o]) # Elements
    BY <1>5, ContentsLength, ElementsAssumption DEF PushBackRoom
  <2>2. Contents(o)' = Append(Contents(o), v)
    <3>1. /\ arr'[o] = new
          /\ write_index'[o] = Inc(write_index[o])
          /\ read_index'[o] = read_index[o]
      BY <1>5 DEF PushBackRoom, IInv
    <3>2. Elems(new, read_index[o], Inc(write_index[o])) = Append(Contents(o), v)
      BY <2>1, PushElems DEF Contents
    <3> HIDE DEF new
    <3> QED  BY <3>1, <3>2 DEF Contents
  <2>3. \A p \in Objects \ {o} : Contents(p)' = Contents(p)
    BY <1>5 DEF PushBackRoom, Contents, IInv
  <2>4. ret' = <<Len(Contents(o)) < Elements>>
    BY <1>5, <2>1 DEF PushBackRoom
  <2> QED
    BY <1>5, <2>1, <2>2, <2>3, <2>4 DEF PushBackRoom, Queue!PushBack, Queue!Offer
<1>6. ASSUME NEW o \in Objects, NEW v \in Value, PushBackFull(o, v)
      PROVE  Queue!PushBack(o, v)
  <2>1. Len(Contents(o)) = Elements /\ ~(Elements < Elements)
    BY <1>6, ContentsLength, ElementsAssumption DEF PushBackFull
  <2>2. \A p \in Objects : Contents(p)' = Contents(p)
    BY <1>6 DEF PushBackFull, Contents
  <2>3. ret' = <<Len(Contents(o)) < Elements>>
    <3>1. (Len(Contents(o)) < Elements) = FALSE
      BY <2>1
    <3>2. ret' = <<FALSE>>
      BY <1>6 DEF PushBackFull
    <3> QED  BY <3>1, <3>2, Zenon
  <2> QED
    BY <1>6, <2>1, <2>2, <2>3 DEF PushBackFull, Queue!PushBack, Queue!Offer
<1>7. ASSUME NEW o \in Objects, PopFront(o)
      PROVE  Queue!PopFront(o)
  <2> DEFINE new == [arr[o] EXCEPT ![SlotOf(read_index[o])] = Raw]
  <2>1. /\ Sound(arr[o], read_index[o], write_index[o])
        /\ read_index[o] # write_index[o]
    BY <1>7, ContentsLength DEF PopFront, Empty
  <2>2. /\ Contents(o) # <<>>
        /\ Head(Contents(o)) = arr[o][SlotOf(read_index[o])]
        /\ Elems(new, Inc(read_index[o]), write_index[o]) = Tail(Contents(o))
    BY <2>1, PopElems DEF Contents
  <2>3. Contents(o)' = Tail(Contents(o))
    <3>1. /\ arr'[o] = new
          /\ write_index'[o] = write_index[o]
          /\ read_index'[o] = Inc(read_index[o])
      BY <1>7 DEF PopFront, IInv
    <3> HIDE DEF new
    <3> QED  BY <2>2, <3>1 DEF Contents
  <2>4. \A p \in Objects \ {o} : Contents(p)' = Contents(p)
    BY <1>7 DEF PopFront, Contents, IInv
  <2> QED  BY <1>7, <2>2, <2>3, <2>4 DEF PopFront, Queue!PopFront
<1>8. ASSUME NEW o \in Objects, Clear(o) \/ Destroy(o)
      PROVE  Queue!Clear(o) \/ Queue!Destroy(o)
  <2>1. Cleared(o) \in [Slot -> Live \union {Raw}] /\ read_index[o] \in Index
    BY ClearedType DEF IInv
  <2>2. /\ arr'[o] = Cleared(o)
        /\ write_index'[o] = read_index[o]
        /\ read_index'[o] = read_index[o]
    BY <1>8 DEF Clear, Destroy, IInv
  <2>3. Contents(o)' = <<>>
    BY <2>1, <2>2, NoElems DEF Contents
  <2>4. \A p \in Objects \ {o} : Contents(p)' = Contents(p)
    BY <1>8 DEF Clear, Destroy, Contents, IInv
  <2> QED
    BY <1>8, <2>3, <2>4 DEF Clear, Destroy, Queue!Clear, Queue!Destroy
<1> QED
  BY <1>1, <1>2, <1>3, <1>4, <1>5, <1>6, <1>7, <1>8 DEF Next, Queue!Next

(* Every fifo, of any capacity, behaves as a bounded queue: what is popped is  *)
(* what was pushed, in that order, and a push is refused exactly at Elements.  *)
THEOREM Refinement == Spec => ImplementsQueue
BY InitRefines, StepRefines, Invariance, PTL DEF Spec, ImplementsQueue, Queue!Spec
===============================================================================
