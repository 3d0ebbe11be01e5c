----------------------------- MODULE BoundedQueue -----------------------------
(***************************************************************************)
(* What midi2::adt::fifo promises to the code that uses it: a set of       *)
(* queue objects, each holding at most Capacity elements, first in first   *)
(* out.  push_back() of a full queue is refused, a copy has the elements   *)
(* of its original, and clear() leaves an empty queue.  Nothing is said of *)
(* how the elements are stored: that is module Fifo, which implements this *)
(* one.                                                                    *)
(***************************************************************************)
EXTENDS Naturals, Sequences

CONSTANTS
  Objects,    \* the queue objects (storage in which one can be constructed)
  Value,      \* the elements a client pushes
  MovedFrom,  \* what is left of an element that was moved away; not a Value
  Capacity    \* the fifo's Elements parameter; not zero

VARIABLES
  alive,      \* the objects that are constructed and not yet destroyed
  queue,      \* queue[o]: the elements of o, oldest first
  ret         \* what the last call returned

vars == <<alive, queue, ret>>

\* A pushed value, if there is room for it.
Offer(q, v) == IF Len(q) < Capacity THEN Append(q, v) ELSE q

Init ==
  /\ alive = {}
  /\ queue = [o \in Objects |-> <<>>]
  /\ ret = <<>>

Construct(o) ==
  /\ o \notin alive
  /\ alive' = alive \union {o}
  /\ queue' = [queue EXCEPT ![o] = <<>>]
  /\ ret' = <<>>

CopyConstruct(o, from) ==
  /\ o \notin alive /\ from \in alive
  /\ alive' = alive \union {o}
  /\ queue' = [queue EXCEPT ![o] = queue[from]]
  /\ ret' = <<>>

\* The new object has the elements; the old one keeps as many, moved from.
MoveConstruct(o, from) ==
  /\ o \notin alive /\ from \in alive
  /\ alive' = alive \union {o}
  /\ queue' = [queue EXCEPT
       ![o] = queue[from],
       ![from] = [i \in 1 .. Len(queue[from]) |-> MovedFrom]]
  /\ ret' = <<>>

PushBack(o, v) ==
  /\ o \in alive
  /\ queue' = [queue EXCEPT ![o] = Offer(queue[o], v)]
  /\ ret' = <<Len(queue[o]) < Capacity>>
  /\ UNCHANGED alive

PopFront(o) ==
  /\ o \in alive
  /\ queue[o] # <<>>
  /\ queue' = [queue EXCEPT ![o] = Tail(queue[o])]
  /\ ret' = <<Head(queue[o])>>
  /\ UNCHANGED alive

Clear(o) ==
  /\ o \in alive
  /\ queue' = [queue EXCEPT ![o] = <<>>]
  /\ ret' = <<>>
  /\ UNCHANGED alive

Destroy(o) ==
  /\ o \in alive
  /\ alive' = alive \ {o}
  /\ queue' = [queue EXCEPT ![o] = <<>>]
  /\ ret' = <<>>

Next ==
  \E o \in Objects :
    \/ Construct(o)
    \/ \E from \in Objects : CopyConstruct(o, from) \/ MoveConstruct(o, from)
    \/ \E v \in Value : PushBack(o, v)
    \/ PopFront(o)
    \/ Clear(o)
    \/ Destroy(o)

Spec == Init /\ [][Next]_vars
===============================================================================
