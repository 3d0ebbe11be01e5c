------------------------------- MODULE PlruCache -------------------------------
(***************************************************************************)
(* midi2::adt::plru_cache<Key, Mapped, Sets, Ways>: a set-associative cache *)
(* with a tree of access bits per set ("Tree-PLRU") that points away from   *)
(* the entries used last (include/midi2/adt/plru_cache.hpp).                *)
(*                                                                         *)
(* A way is the sequence of the binary digits of its number, most           *)
(* significant first, TRUE for 0: at each level of the tree, whether it is  *)
(* in the left half.  The node at level d on the path to a way is the pair  *)
(* of d and the digits before it; the code numbers the nodes level by level. *)
(***************************************************************************)
EXTENDS Naturals, FiniteSets

CONSTANTS
  Key, Value,
  Raw,       \* storage in which no value lives
  Sets,      \* a power of two
  Depth,     \* a set has 2^Depth ways
  Accepted   \* the sets of values for which a client's valid() returns true

\* With Sets = 1 the tag would be shifted by SetBits - 1 = -1.
ASSUME SetsAssumption ==
  Sets \in Nat /\ Sets > 1 /\ \E bits \in 1 .. 31 : Sets = 2 ^ bits
ASSUME DepthAssumption == Depth \in Nat
ASSUME KeyAssumption == Key \subseteq Nat
ASSUME ValueAssumption == Raw \notin Value
ASSUME AcceptedAssumption == Accepted \subseteq SUBSET Value

VARIABLES
  keys,    \* keys[s][w]: the tagged key in way w of set s, or Invalid
  values,  \* values[s][w]: what lives in its storage
  bits,    \* bits[s][n]: the access bit of node n
  ret      \* the key of the last access, what it returned, and if it called miss()

vars == <<keys, values, bits, ret>>

Level == 1 .. Depth
Way   == [Level -> BOOLEAN]
Set   == 0 .. Sets - 1
Node  == UNION {{d} \X [1 .. d - 1 -> BOOLEAN] : d \in Level}

-------------------------------------------------------------------------------
(* Keys.  The set's bits are not stored; a valid bit takes the place of the *)
(* last of them.                                                            *)

Invalid == 0
SetOf(k) == k % Sets
\* A definition named Wrong... is a bug the module's properties must catch; no
\* other definition uses it.
WrongTaggedKey(k) == 2 * (k \div Sets)                      \* no valid bit
WrongTaggedKeyBit(k) == 2 * (k \div (2 * Sets)) + 1         \* a bit of the key lost
TaggedKey(k) == 2 * (k \div Sets) + 1

\* The key of the entry in way w of set s, as an iterator gives it: exact for
\* keys of up to 32 bits (the mask of key() has no more).
KeyAt(s, w) == (keys[s][w] \div 2) * Sets + s

Entries == {e \in Set \X Way : keys[e[1]][e[2]] # Invalid}

\* The last way is never looked at.
WrongMatches(k, w) ==
  keys[SetOf(k)][w] = TaggedKey(k) /\ w # [d \in Level |-> FALSE]

\* find_matching(): the way with the tag of k.  KeysDistinct says that there is
\* only one, so that it does not matter that the search ends at the first.
Matches(k, w) == keys[SetOf(k)][w] = TaggedKey(k)

Present(k) == \E w \in Way : Matches(k, w)

-------------------------------------------------------------------------------
(* The tree.                                                                *)

NodeOn(w, d) == <<d, [i \in 1 .. d - 1 |-> w[i]]>>

\* tree::touch(): each bit on the path is set when the way is on the left.
Touch(b, w) == [n \in Node |-> IF n = NodeOn(w, n[1]) THEN w[n[1]] ELSE b[n]]

\* A bit that is set leads to the right: the node at level d leads to w.
LeadsTo(b, w, d) == b[NodeOn(w, d)] # w[d]

\* tree::oldest(): the way at the end of the path.
IsOldest(b, w) == \A d \in Level : LeadsTo(b, w, d)

-------------------------------------------------------------------------------
(* access(k, miss, valid): ok is the set of values valid() accepts, v the    *)
(* value miss() returns, and w the way that is used.                         *)

Returned(k, v, called) == [key |-> k, value |-> v, called |-> called]

Touched(k, w) == bits' = [bits EXCEPT ![SetOf(k)] = Touch(bits[SetOf(k)], w)]

\* A hit that leaves the tree alone.
WrongHit(k, ok, w) ==
  /\ Matches(k, w) /\ values[SetOf(k)][w] \in ok
  /\ ret' = Returned(k, values[SetOf(k)][w], FALSE)
  /\ UNCHANGED <<keys, values, bits>>

Hit(k, ok, w) ==
  /\ Matches(k, w) /\ values[SetOf(k)][w] \in ok
  /\ Touched(k, w)
  /\ ret' = Returned(k, values[SetOf(k)][w], FALSE)
  /\ UNCHANGED <<keys, values>>

\* The value is stale: miss() gives a new one.
Refresh(k, ok, v, w) ==
  /\ Matches(k, w) /\ values[SetOf(k)][w] \notin ok
  /\ values' = [values EXCEPT ![SetOf(k)][w] = v]
  /\ Touched(k, w)
  /\ ret' = Returned(k, v, TRUE)
  /\ UNCHANGED keys

\* The key is absent: miss() gives the value for the way the tree points to,
\* where it is assigned to the value there, or constructed if there is none.
Insert(k, v, w) ==
  /\ ~Present(k)
  /\ IsOldest(bits[SetOf(k)], w)
  /\ keys' = [keys EXCEPT ![SetOf(k)][w] = TaggedKey(k)]
  /\ values' = [values EXCEPT ![SetOf(k)][w] = v]
  /\ Touched(k, w)
  /\ ret' = Returned(k, v, TRUE)

CallsMiss(k, ok) ==
  \A w \in Way : Matches(k, w) => values[SetOf(k)][w] \notin ok

\* The key is stored before miss() is called.
WrongMissThrows(k, ok) ==
  \E victim \in Way :
    /\ ~Present(k)
    /\ IsOldest(bits[SetOf(k)], victim)
    /\ keys' = [keys EXCEPT ![SetOf(k)][victim] = TaggedKey(k)]
    /\ ret' = <<>>
    /\ UNCHANGED <<values, bits>>

\* miss() throws an exception, before anything has been written.
MissThrows(k, ok) ==
  /\ CallsMiss(k, ok)
  /\ ret' = <<>>
  /\ UNCHANGED <<keys, values, bits>>

-------------------------------------------------------------------------------
\* clear() and the destructor: the value of each valid key is destroyed.
Clear ==
  /\ keys' = [s \in Set |-> [w \in Way |-> Invalid]]
  /\ values' = [s \in Set |-> [w \in Way |->
                  IF keys[s][w] # Invalid THEN Raw ELSE values[s][w]]]
  /\ bits' = [s \in Set |-> [n \in Node |-> FALSE]]
  /\ ret' = <<>>

Init ==
  /\ keys = [s \in Set |-> [w \in Way |-> Invalid]]
  /\ values = [s \in Set |-> [w \in Way |-> Raw]]
  /\ bits = [s \in Set |-> [n \in Node |-> FALSE]]
  /\ ret = <<>>

Next ==
  \/ \E k \in Key, ok \in Accepted :
       \/ MissThrows(k, ok)
       \/ \E w \in Way : Hit(k, ok, w)
       \/ \E v \in Value, w \in Way : Refresh(k, ok, v, w)
  \/ \E k \in Key, v \in Value, w \in Way : Insert(k, v, w)
  \/ Clear

Spec == Init /\ [][Next]_vars

-------------------------------------------------------------------------------
(* Every variable has its type; a stored key has its valid bit set.          *)
TypeOK ==
  /\ keys \in [Set -> [Way -> Nat]]
  /\ \A s \in Set : \A w \in Way : keys[s][w] # Invalid => keys[s][w] % 2 = 1
  /\ values \in [Set -> [Way -> Value \union {Raw}]]
  /\ bits \in [Set -> [Node -> BOOLEAN]]

(* No key is in two ways of its set, where only the first would ever be      *)
(* found and the other would hold a way, and a stale value, for good.        *)
KeysDistinct ==
  \A s \in Set : \A v, w \in Way :
    keys[s][v] # Invalid /\ keys[s][v] = keys[s][w] => v = w

(* A way has a key exactly when a value lives in it, also when miss() throws: *)
(* a value is only assigned to, returned or destroyed within its lifetime,    *)
(* and none is constructed over another or forgotten.                         *)
ValuesLive ==
  \A s \in Set : \A w \in Way : keys[s][w] # Invalid <=> values[s][w] # Raw
-------------------------------------------------------------------------------
(* What the entries stand for.                                               *)

Held == {KeyAt(e[1], e[2]) : e \in Entries}

WayOf(k) ==
  CHOOSE w \in Way : <<SetOf(k), w>> \in Entries /\ KeyAt(SetOf(k), w) = k

Contents == [k \in Held |-> values[SetOf(k)][WayOf(k)]]

(* The cache is a map from keys to values that calls miss() exactly for an   *)
(* absent key or a stale value, and loses at most one entry, of the same     *)
(* set, to another.                                                          *)
Map == INSTANCE Cache WITH Ways <- Cardinality(Way), map <- Contents

ImplementsCache == Map!Spec
===============================================================================
