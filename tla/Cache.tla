--------------------------------- MODULE Cache ---------------------------------
(***************************************************************************)
(* What midi2::adt::plru_cache promises to the code that uses it: a map    *)
(* from keys to values that calls a function for the value of a key it     *)
(* does not have, or has a value for that its client rejects.  Keys fall   *)
(* into sets of at most Ways entries; to take in a key the cache may give  *)
(* up one entry of the same set.  Which one is not said here: that is      *)
(* module PlruCache, which implements this one.                            *)
(***************************************************************************)
EXTENDS Naturals, FiniteSets

CONSTANTS
  Key, Value,
  Sets,       \* the number of sets; key k belongs to set k % Sets
  Ways,       \* the entries of a set
  Accepted    \* the sets of values that a client may accept as valid

VARIABLES
  map,  \* the values of the keys in the cache
  ret   \* the key of the last access, what it returned, and if it called the function

vars == <<map, ret>>

InSet(m, k) == {j \in DOMAIN m : j % Sets = k % Sets}

Returned(k, v, called) == [key |-> k, value |-> v, called |-> called]

Init == map = <<>> /\ ret = <<>>

Hit(k, ok) ==
  /\ k \in DOMAIN map /\ map[k] \in ok
  /\ ret' = Returned(k, map[k], FALSE)
  /\ UNCHANGED map

Renew(k, ok, v) ==
  /\ k \in DOMAIN map /\ map[k] \notin ok
  /\ map' = [map EXCEPT ![k] = v]
  /\ ret' = Returned(k, v, TRUE)

\* At most one entry makes way.
Admit(k, v) ==
  /\ k \notin DOMAIN map
  /\ \E victims \in {{}} \union {{j} : j \in InSet(map, k)} :
       /\ Cardinality(InSet(map, k) \ victims) < Ways
       /\ map' = [j \in (DOMAIN map \ victims) \union {k} |->
                    IF j = k THEN v ELSE map[j]]
  /\ ret' = Returned(k, v, TRUE)

\* The function throws an exception: the cache is as it was.
Fail(k, ok) ==
  /\ k \in DOMAIN map => map[k] \notin ok
  /\ ret' = <<>>
  /\ UNCHANGED map

Clear == map' = <<>> /\ ret' = <<>>

Next ==
  \/ \E k \in Key, ok \in Accepted :
       Hit(k, ok) \/ Fail(k, ok) \/ \E v \in Value : Renew(k, ok, v)
  \/ \E k \in Key, v \in Value : Admit(k, v)
  \/ Clear

Spec == Init /\ [][Next]_vars
===============================================================================
