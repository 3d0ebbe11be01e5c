------------------------------ MODULE MCPlruCache ------------------------------
(***************************************************************************)
(* The PLRU cache, the order in which its entries were used, and the map   *)
(* that it implements.                                                     *)
(***************************************************************************)
EXTENDS PlruHistory

CONSTANTS x, y

\* Five keys that compete for four ways, and one of another set.
MCKey == {0, 2, 4, 6, 8, 1}
MCValue == {x, y}
\* A client that accepts only one value, as to_midi1 does, and the two-argument
\* access(), which accepts any.
MCAccepted == {{x}, {x, y}}

\* Bound: the second value is only ever given to one key, so that it can go
\* stale.
FewValues == \A e \in Entries : values[e[1]][e[2]] = y => KeyAt(e[1], e[2]) = 0

MCNext == HNext /\ FewValues'

MCSpec == HInit /\ [][MCNext]_hvars

-------------------------------------------------------------------------------
(* plru_cache.hpp:409 says of access() "If not present and the cache is      *)
(* fully occupied, the likely least recently used value is evicted from the  *)
(* cache": an entry is only lost, other than by clear(), from a full set.    *)
FullSet(s) == \A w \in Way : keys[s][w] # Invalid
OnlyFullSetsEvict ==
  [][\A s \in Set : \A w \in Way :
       (keys'[s][w] \notin {Invalid, keys[s][w]} /\ keys[s][w] # Invalid)
         => FullSet(s)]_keys
===============================================================================
