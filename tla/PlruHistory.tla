------------------------------ MODULE PlruHistory ------------------------------
(***************************************************************************)
(* The PLRU cache with a record of the order in which the ways of a set     *)
(* were used last.  The cache does not keep that order; its promise is      *)
(* about it.                                                                *)
(***************************************************************************)
EXTENDS PlruCache

VARIABLE later   \* later[s]: the pairs of ways of which the first was used later

hvars == <<vars, later>>

Used(k, w) ==
  later' = [later EXCEPT ![SetOf(k)] =
             {p \in later[SetOf(k)] : p[2] # w} \union {<<w, v>> : v \in Way \ {w}}]

HInit == Init /\ later = [s \in Set |-> {}]

HNext ==
  \/ \E k \in Key, ok \in Accepted :
       \/ MissThrows(k, ok) /\ UNCHANGED later
       \/ \E w \in Way : Hit(k, ok, w) /\ Used(k, w)
       \/ \E v \in Value, w \in Way : Refresh(k, ok, v, w) /\ Used(k, w)
  \/ \E k \in Key, v \in Value, w \in Way : Insert(k, v, w) /\ Used(k, w)
  \/ Clear /\ later' = [s \in Set |-> {}]

HSpec == HInit /\ [][HNext]_hvars

-------------------------------------------------------------------------------
UsedLater(s, w) ==
  {v \in Way : keys[s][v] # Invalid /\ <<v, w>> \in later[s]}

(* The tree keeps its promise without ever ordering the entries: of a set of *)
(* 2^Depth ways, the entry it would give up next is not one of the Depth     *)
(* entries used last, however hits, refreshed values and misses were mixed.  *)
LastUsedKept ==
  \A s \in Set : \A w \in Way :
    keys[s][w] # Invalid /\ IsOldest(bits[s], w)
      => Cardinality(UsedLater(s, w)) >= Depth
===============================================================================
