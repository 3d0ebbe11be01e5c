------------------------------ MODULE PlruProofs ------------------------------
(* Proofs about modules PlruCache and PlruHistory, for every number of sets and  *)
(* ways, every set of keys and values, and every client.                         *)
EXTENDS PlruHistory, FiniteSetTheorems, TLAPS

-------------------------------------------------------------------------------
(* Keys and the tree.                                                            *)

LEMMA TaggedKeyValid ==
  ASSUME NEW k \in Key
  PROVE  /\ SetOf(k) \in Set
         /\ TaggedKey(k) \in Nat /\ TaggedKey(k) # Invalid
         /\ TaggedKey(k) % 2 = 1
<1>1. k \in Nat /\ Sets \in Nat /\ Sets > 0
  BY KeyAssumption, SetsAssumption
<1>2. SetOf(k) \in Set
  BY <1>1 DEF SetOf, Set
<1>3. k \div Sets \in Nat
  BY <1>1
<1>4. TaggedKey(k) \in Nat /\ TaggedKey(k) # Invalid /\ TaggedKey(k) % 2 = 1
  <2> DEFINE n == k \div Sets
  <2>1. n \in Nat
    BY <1>3
  <2> HIDE DEF n
  <2>2. 2 * n + 1 \in Nat /\ 2 * n + 1 # 0 /\ (2 * n + 1) % 2 = 1
    BY <2>1
  <2> QED  BY <2>2 DEF TaggedKey, Invalid, n
<1> QED  BY <1>2, <1>4

LEMMA NodeType ==
  ASSUME NEW w \in Way, NEW d \in Level
  PROVE  NodeOn(w, d) \in Node /\ NodeOn(w, d)[1] = d
<1>1. d \in Nat /\ \A i \in 1 .. d - 1 : i \in Level
  BY DepthAssumption DEF Level
<1>2. [i \in 1 .. d - 1 |-> w[i]] \in [1 .. d - 1 -> BOOLEAN]
  BY <1>1 DEF Way
<1> QED  BY <1>2 DEF NodeOn, Node

\* After touch(w) each node on the path to w leads away from w; the other
\* nodes are as they were.
LEMMA TouchValue ==
  ASSUME NEW b \in [Node -> BOOLEAN], NEW w \in Way
  PROVE  /\ Touch(b, w) \in [Node -> BOOLEAN]
         /\ \A v \in Way : \A d \in Level :
              Touch(b, w)[NodeOn(v, d)] =
                IF NodeOn(v, d) = NodeOn(w, d) THEN w[d] ELSE b[NodeOn(v, d)]
<1>1. \A n \in Node : n[1] \in Level
  BY DEF Node
<1>2. \A d \in Level : w[d] \in BOOLEAN
  BY DEF Way
<1>3. Touch(b, w) \in [Node -> BOOLEAN]
  BY <1>1, <1>2 DEF Touch
<1>4. ASSUME NEW v \in Way, NEW d \in Level
      PROVE  Touch(b, w)[NodeOn(v, d)] =
               IF NodeOn(v, d) = NodeOn(w, d) THEN w[d] ELSE b[NodeOn(v, d)]
  <2>1. NodeOn(v, d) \in Node /\ NodeOn(v, d)[1] = d
    BY NodeType
  <2> QED  BY <2>1 DEF Touch
<1> QED  BY <1>3, <1>4

-------------------------------------------------------------------------------
(* The entries.  The invariant is inductive as it stands.                        *)

CacheInv == TypeOK /\ KeysDistinct /\ ValuesLive

LEMMA InitCacheInv == Init => CacheInv
BY DEF Init, CacheInv, TypeOK, KeysDistinct, ValuesLive, Invalid

LEMMA StepCacheInv == CacheInv /\ [Next]_vars => CacheInv'
<1> SUFFICES ASSUME CacheInv, [Next]_vars
             PROVE  CacheInv'
  OBVIOUS
<1> USE DEF CacheInv
<1>1. ASSUME NEW k \in Key, NEW w \in Way, Touched(k, w)
      PROVE  bits' \in [Set -> [Node -> BOOLEAN]]
  <2>1. bits \in [Set -> [Node -> BOOLEAN]] /\ SetOf(k) \in Set
    BY TaggedKeyValid DEF TypeOK
  <2>2. Touch(bits[SetOf(k)], w) \in [Node -> BOOLEAN]
    BY <2>1, TouchValue
  <2> QED  BY <1>1, <2>1, <2>2 DEF Touched
<1>2. ASSUME NEW k \in Key, NEW ok \in Accepted, NEW w \in Way, Hit(k, ok, w)
      PROVE  CacheInv'
  <2>1. bits' \in [Set -> [Node -> BOOLEAN]]
    BY <1>1, <1>2 DEF Hit
  <2>2. UNCHANGED <<keys, values>>
    BY <1>2 DEF Hit
  <2> QED  BY <2>1, <2>2 DEF TypeOK, KeysDistinct, ValuesLive
<1>3. ASSUME NEW k \in Key, NEW ok \in Accepted, NEW v \in Value, NEW w \in Way,
             Refresh(k, ok, v, w)
      PROVE  CacheInv'
  <2>1. bits' \in [Set -> [Node -> BOOLEAN]]
    BY <1>1, <1>3 DEF Refresh
  <2>2. /\ UNCHANGED keys
        /\ values' = [values EXCEPT ![SetOf(k)][w] = v]
        /\ keys[SetOf(k)][w] = TaggedKey(k)
    BY <1>3 DEF Refresh, Matches
  <2>3. SetOf(k) \in Set /\ TaggedKey(k) # Invalid /\ v # Raw
    BY TaggedKeyValid, ValueAssumption
  <2>4. TypeOK'
    BY <2>1, <2>2, <2>3 DEF TypeOK
  <2>5. ValuesLive'
    BY <2>2, <2>3 DEF TypeOK, ValuesLive
  <2> QED  BY <2>2, <2>4, <2>5 DEF KeysDistinct
<1>4. ASSUME NEW k \in Key, NEW v \in Value, NEW w \in Way, Insert(k, v, w)
      PROVE  CacheInv'
  <2>1. bits' \in [Set -> [Node -> BOOLEAN]]
    BY <1>1, <1>4 DEF Insert
  <2>2. /\ keys' = [keys EXCEPT ![SetOf(k)][w] = TaggedKey(k)]
        /\ values' = [values EXCEPT ![SetOf(k)][w] = v]
        /\ \A u \in Way : keys[SetOf(k)][u] # TaggedKey(k)
    BY <1>4 DEF Insert, Present, Matches
  <2>3. /\ SetOf(k) \in Set /\ v # Raw
        /\ TaggedKey(k) \in Nat /\ TaggedKey(k) # Invalid /\ TaggedKey(k) % 2 = 1
    BY TaggedKeyValid, ValueAssumption
  <2>4. TypeOK'
    BY <2>1, <2>2, <2>3 DEF TypeOK
  <2>5. KeysDistinct'
    BY <2>2, <2>3 DEF TypeOK, KeysDistinct
  <2>6. ValuesLive'
    BY <2>2, <2>3 DEF TypeOK, ValuesLive
  <2> QED  BY <2>4, <2>5, <2>6
<1>5. ASSUME NEW k \in Key, NEW ok \in Accepted, MissThrows(k, ok)
      PROVE  CacheInv'
  BY <1>5 DEF MissThrows, TypeOK, KeysDistinct, ValuesLive
<1>6. ASSUME Clear
      PROVE  CacheInv'
  BY <1>6 DEF Clear, TypeOK, KeysDistinct, ValuesLive, Invalid
<1>7. ASSUME UNCHANGED vars
      PROVE  CacheInv'
  BY <1>7 DEF vars, TypeOK, KeysDistinct, ValuesLive
<1> QED  BY <1>2, <1>3, <1>4, <1>5, <1>6, <1>7 DEF Next

(* The cache's invariant holds for every client.                                  *)
THEOREM Invariance == Spec => []CacheInv
BY InitCacheInv, StepCacheInv, PTL DEF Spec

(* A stored key always has its valid bit, so that an entry is never taken for a  *)
(* free way; the tree has a bit for each node.                                    *)
THEOREM TypeCorrect == Spec => []TypeOK
<1>1. CacheInv => TypeOK
  BY DEF CacheInv
<1> QED  BY <1>1, Invariance, PTL

(* find_matching() never has two ways to choose from, for every number of ways.   *)
THEOREM KeysAlwaysDistinct == Spec => []KeysDistinct
<1>1. CacheInv => KeysDistinct
  BY DEF CacheInv
<1> QED  BY <1>1, Invariance, PTL

(* Values are constructed, assigned to and destroyed within their lifetimes, also *)
(* when miss() throws.                                                            *)
THEOREM ValuesAlwaysLive == Spec => []ValuesLive
<1>1. CacheInv => ValuesLive
  BY DEF CacheInv
<1> QED  BY <1>1, Invariance, PTL

-------------------------------------------------------------------------------
(* The tree's promise.  Wherever a bit on the path to an entry leads to it, some *)
(* entry on the other side of that node was used later.                          *)

SiblingUsedLater ==
  \A s \in Set : \A w \in Way : \A d \in Level :
    keys[s][w] # Invalid /\ LeadsTo(bits[s], w, d)
      => \E v \in UsedLater(s, w) : NodeOn(v, d) = NodeOn(w, d) /\ v[d] # w[d]

LaterType == later \in [Set -> SUBSET (Way \X Way)]

HistoryInv == CacheInv /\ LaterType /\ SiblingUsedLater

\* HNext adds the history to the steps of the cache and forbids none.
LEMMA HNextImpliesNext == [HNext]_hvars => [Next]_vars
BY DEF HNext, Next, hvars, vars

\* One use of way w that leaves or puts a key there, and touches it.
LEMMA UseKeepsSiblings ==
  ASSUME HistoryInv,
         NEW k \in Key, NEW w \in Way, Touched(k, w), Used(k, w),
         \A s \in Set : \A v \in Way :
           /\ <<s, v>> # <<SetOf(k), w>> => keys'[s][v] = keys[s][v]
           /\ keys[s][v] # Invalid => keys'[s][v] # Invalid,
         keys'[SetOf(k)][w] # Invalid
  PROVE  LaterType' /\ SiblingUsedLater'
<1> DEFINE t == SetOf(k)
<1>1. t \in Set
  BY TaggedKeyValid
<1>2. /\ bits \in [Set -> [Node -> BOOLEAN]]
      /\ later \in [Set -> SUBSET (Way \X Way)]
  BY DEF HistoryInv, CacheInv, TypeOK, LaterType
<1>3. /\ bits' = [bits EXCEPT ![t] = Touch(bits[t], w)]
      /\ later' = [later EXCEPT ![t] =
                     {p \in later[t] : p[2] # w} \union {<<w, v>> : v \in Way \ {w}}]
  BY DEF Touched, Used
<1> HIDE DEF t
<1>4. LaterType'
  <2>1. {p \in later[t] : p[2] # w} \union {<<w, v>> : v \in Way \ {w}}
          \in SUBSET (Way \X Way)
    BY <1>1, <1>2
  <2> QED  BY <1>2, <1>3, <2>1 DEF LaterType
<1>5. ASSUME NEW s \in Set, NEW u \in Way, NEW d \in Level,
             keys'[s][u] # Invalid, LeadsTo(bits'[s], u, d)
      PROVE  \E v \in UsedLater(s, u)' : NodeOn(v, d) = NodeOn(u, d) /\ v[d] # u[d]
  <2>1. CASE s # t
    <3>1. bits'[s] = bits[s] /\ later'[s] = later[s]
      BY <1>2, <1>3, <2>1
    <3>2. \A v \in Way : keys'[s][v] = keys[s][v]
      BY <2>1 DEF t
    <3>3. PICK v \in UsedLater(s, u) : NodeOn(v, d) = NodeOn(u, d) /\ v[d] # u[d]
      BY <1>5, <3>1, <3>2 DEF HistoryInv, SiblingUsedLater
    <3>4. v \in UsedLater(s, u)'
      BY <3>1, <3>2, <3>3 DEF UsedLater
    <3> QED  BY <3>3, <3>4
  <2>2. CASE s = t
    <3>1. bits[t] \in [Node -> BOOLEAN] /\ bits'[t] = Touch(bits[t], w)
      BY <1>1, <1>2, <1>3
    <3>2. Touch(bits[t], w)[NodeOn(u, d)] =
            IF NodeOn(u, d) = NodeOn(w, d) THEN w[d] ELSE bits[t][NodeOn(u, d)]
      BY <3>1, TouchValue
    <3>3. Touch(bits[t], w)[NodeOn(u, d)] # u[d]
      BY <1>5, <2>2, <3>1 DEF LeadsTo
    <3>4. u # w
      BY <3>2, <3>3
    <3>5. later'[t] = {p \in later[t] : p[2] # w} \union {<<w, v>> : v \in Way \ {w}}
      BY <1>1, <1>2, <1>3
    <3>6. CASE NodeOn(u, d) = NodeOn(w, d)
      <4>1. w[d] # u[d]
        BY <3>2, <3>3, <3>6
      <4>2. <<w, u>> \in later'[t]
        BY <3>4, <3>5
      <4>3. w \in UsedLater(s, u)'
        BY <2>2, <4>2 DEF UsedLater, t
      <4> QED  BY <3>6, <4>1, <4>3
    <3>7. CASE NodeOn(u, d) # NodeOn(w, d)
      <4>1. LeadsTo(bits[t], u, d)
        BY <3>2, <3>3, <3>7 DEF LeadsTo
      <4>2. keys[t][u] # Invalid
        <5>1. keys'[t][u] = keys[t][u]
          BY <1>1, <3>4 DEF t
        <5> QED  BY <1>5, <2>2, <5>1
      <4>3. PICK v \in UsedLater(t, u) : NodeOn(v, d) = NodeOn(u, d) /\ v[d] # u[d]
        BY <1>1, <4>1, <4>2 DEF HistoryInv, SiblingUsedLater
      <4>4. v \in Way /\ keys[t][v] # Invalid /\ <<v, u>> \in later[t]
        BY <4>3 DEF UsedLater
      <4>5. <<v, u>> \in later'[t]
        BY <3>4, <3>5, <4>4
      <4>6. keys'[t][v] # Invalid
        BY <1>1, <4>4
      <4>7. v \in UsedLater(s, u)'
        BY <2>2, <4>4, <4>5, <4>6 DEF UsedLater
      <4> QED  BY <4>3, <4>7
    <3> QED  BY <3>6, <3>7
  <2> QED  BY <2>1, <2>2
<1>6. SiblingUsedLater'
  BY <1>5 DEF SiblingUsedLater
<1> QED  BY <1>4, <1>6

LEMMA InitHistoryInv == HInit => HistoryInv
BY InitCacheInv
   DEF HInit, Init, HistoryInv, LaterType, SiblingUsedLater, Invalid

LEMMA StepHistoryInv == HistoryInv /\ [HNext]_hvars => HistoryInv'
<1> SUFFICES ASSUME HistoryInv, [HNext]_hvars
             PROVE  HistoryInv'
  OBVIOUS
<1>1. CacheInv'
  BY HNextImpliesNext, StepCacheInv DEF HistoryInv
<1>2. keys \in [Set -> [Way -> Nat]]
  BY DEF HistoryInv, CacheInv, TypeOK
<1>3. ASSUME NEW k \in Key, NEW w \in Way, Matches(k, w), UNCHANGED keys,
             Touched(k, w), Used(k, w)
      PROVE  LaterType' /\ SiblingUsedLater'
  <2>1. SetOf(k) \in Set /\ TaggedKey(k) # Invalid
    BY TaggedKeyValid
  <2>2. keys'[SetOf(k)][w] # Invalid
    BY <1>3, <2>1 DEF Matches
  <2>3. \A s \in Set : \A v \in Way : keys'[s][v] = keys[s][v]
    BY <1>3
  <2> QED  BY <1>3, <2>2, <2>3, UseKeepsSiblings
<1>4. ASSUME NEW k \in Key, NEW ok \in Accepted, NEW w \in Way,
             Hit(k, ok, w), Used(k, w)
      PROVE  LaterType' /\ SiblingUsedLater'
  BY <1>3, <1>4 DEF Hit
<1>5. ASSUME NEW k \in Key, NEW ok \in Accepted, NEW v \in Value, NEW w \in Way,
             Refresh(k, ok, v, w), Used(k, w)
      PROVE  LaterType' /\ SiblingUsedLater'
  BY <1>3, <1>5 DEF Refresh
<1>6. ASSUME NEW k \in Key, NEW v \in Value, NEW w \in Way,
             Insert(k, v, w), Used(k, w)
      PROVE  LaterType' /\ SiblingUsedLater'
  <2>1. SetOf(k) \in Set /\ TaggedKey(k) # Invalid
    BY TaggedKeyValid
  <2>2. keys' = [keys EXCEPT ![SetOf(k)][w] = TaggedKey(k)] /\ Touched(k, w)
    BY <1>6 DEF Insert
  <2>3. keys'[SetOf(k)][w] = TaggedKey(k)
    BY <1>2, <2>1, <2>2
  <2>4. \A s \in Set : \A u \in Way :
          keys'[s][u] = IF s = SetOf(k) /\ u = w THEN TaggedKey(k) ELSE keys[s][u]
    BY <1>2, <2>1, <2>2
  <2>5. \A s \in Set : \A u \in Way :
          /\ <<s, u>> # <<SetOf(k), w>> => keys'[s][u] = keys[s][u]
          /\ keys[s][u] # Invalid => keys'[s][u] # Invalid
    BY <2>1, <2>4
  <2> QED  BY <1>6, <2>1, <2>2, <2>3, <2>5, UseKeepsSiblings
<1>7. ASSUME UNCHANGED <<keys, bits, later>>
      PROVE  LaterType' /\ SiblingUsedLater'
  <2>1. keys' = keys /\ bits' = bits /\ later' = later
    BY <1>7
  <2>2. LaterType'
    BY <2>1 DEF HistoryInv, LaterType
  <2>3. \A s \in Set : \A w \in Way : UsedLater(s, w)' = UsedLater(s, w)
    BY <2>1 DEF UsedLater
  <2>4. SiblingUsedLater'
    BY <2>1, <2>3 DEF HistoryInv, SiblingUsedLater, LeadsTo
  <2> QED  BY <2>2, <2>4
<1>8. ASSUME NEW k \in Key, NEW ok \in Accepted, MissThrows(k, ok), UNCHANGED later
      PROVE  LaterType' /\ SiblingUsedLater'
  BY <1>7, <1>8 DEF MissThrows
<1>9. ASSUME Clear, later' = [s \in Set |-> {}]
      PROVE  LaterType' /\ SiblingUsedLater'
  BY <1>9 DEF Clear, LaterType, SiblingUsedLater
<1>10. ASSUME UNCHANGED hvars
       PROVE  LaterType' /\ SiblingUsedLater'
  BY <1>7, <1>10 DEF hvars, vars
<1>11. LaterType' /\ SiblingUsedLater'
  <2>1. CASE \E k \in Key, ok \in Accepted, w \in Way : Hit(k, ok, w) /\ Used(k, w)
    BY <1>4, <2>1
  <2>2. CASE \E k \in Key, ok \in Accepted, v \in Value, w \in Way :
               Refresh(k, ok, v, w) /\ Used(k, w)
    BY <1>5, <2>2
  <2>3. CASE \E k \in Key, v \in Value, w \in Way : Insert(k, v, w) /\ Used(k, w)
    BY <1>6, <2>3
  <2>4. CASE \E k \in Key, ok \in Accepted : MissThrows(k, ok) /\ UNCHANGED later
    BY <1>8, <2>4
  <2>5. CASE Clear /\ later' = [s \in Set |-> {}]
    BY <1>9, <2>5
  <2>6. CASE UNCHANGED hvars
    BY <1>10, <2>6
  <2> QED  BY <2>1, <2>2, <2>3, <2>4, <2>5, <2>6 DEF HNext
<1> QED  BY <1>1, <1>11 DEF HistoryInv

-------------------------------------------------------------------------------
LEMMA WayFinite == IsFiniteSet(Way)
<1> DEFINE Left == [w \in Way |-> {d \in Level : w[d]}]
<1>1. IsFiniteSet(Level)
  BY FS_Interval, DepthAssumption DEF Level
<1>2. IsFiniteSet(SUBSET Level)
  BY <1>1, FS_SUBSET
<1>3. Left \in [Way -> SUBSET Level]
  OBVIOUS
<1>4. ASSUME NEW v \in Way, NEW w \in Way, Left[v] = Left[w]
      PROVE  v = w
  <2>1. ASSUME NEW d \in Level  PROVE v[d] = w[d]
    <3>1. v[d] \in BOOLEAN /\ w[d] \in BOOLEAN
      BY DEF Way
    <3>2. d \in Left[v] <=> d \in Left[w]
      BY <1>4
    <3>3. v[d] <=> w[d]
      BY <3>2
    <3>4. \A a, b \in BOOLEAN : (a <=> b) => a = b
      OBVIOUS
    <3> QED  BY <3>1, <3>3, <3>4
  <2> QED  BY <2>1 DEF Way
<1>5. Left \in Injection(Way, SUBSET Level)
  BY <1>3, <1>4 DEF Injection, IsInjective
<1> QED  BY <1>2, <1>5, FS_Injection

\* Below the node at level d, ways that leave the path of w at different levels
\* are different.
LEMMA LeaveOnce ==
  ASSUME NEW u \in Way, NEW v \in Way, NEW w \in Way, NEW c \in Level, NEW d \in Level,
         c < d, u[c] # w[c], NodeOn(v, d) = NodeOn(w, d)
  PROVE  u # v
<1>1. c \in 1 .. d - 1
  BY DepthAssumption DEF Level
<1>2. [i \in 1 .. d - 1 |-> v[i]] = [i \in 1 .. d - 1 |-> w[i]]
  BY DEF NodeOn
<1>3. [i \in 1 .. d - 1 |-> v[i]][c] = [i \in 1 .. d - 1 |-> w[i]][c]
  BY <1>2
<1>4. v[c] = w[c]
  BY <1>1, <1>3
<1> QED  BY <1>4

LEMMA SiblingsCounted == HistoryInv => LastUsedKept
<1> SUFFICES ASSUME HistoryInv, NEW s \in Set, NEW w \in Way,
                    keys[s][w] # Invalid, IsOldest(bits[s], w)
             PROVE  Cardinality(UsedLater(s, w)) >= Depth
  BY DEF LastUsedKept
<1> DEFINE Sibling(d, v) == NodeOn(v, d) = NodeOn(w, d) /\ v[d] # w[d]
           f == [d \in Level |-> CHOOSE v \in UsedLater(s, w) : Sibling(d, v)]
<1>1. \A d \in Level : f[d] \in UsedLater(s, w) /\ Sibling(d, f[d])
  <2>1. \A d \in Level : \E v \in UsedLater(s, w) : Sibling(d, v)
    BY DEF HistoryInv, SiblingUsedLater, IsOldest
  <2> QED  BY <2>1
<1>2. UsedLater(s, w) \in SUBSET Way
  BY DEF UsedLater
<1>3. f \in [Level -> UsedLater(s, w)]
  BY <1>1
<1>4. ASSUME NEW c \in Level, NEW d \in Level, c < d
      PROVE  f[c] # f[d]
  <2>1. /\ f[c] \in Way /\ f[d] \in Way
        /\ f[c][c] # w[c]
        /\ NodeOn(f[d], d) = NodeOn(w, d)
    BY <1>1, <1>2
  <2> HIDE DEF f
  <2> QED  BY <1>4, <2>1, LeaveOnce
<1>5. \A c, d \in Level : f[c] = f[d] => c = d
  <2> HIDE DEF f
  <2>1. Level \subseteq Nat
    BY DepthAssumption DEF Level
  <2> QED  BY <1>4, <2>1
<1>6. f \in Injection(Level, UsedLater(s, w))
  BY <1>3, <1>5 DEF Injection, IsInjective
<1>7. IsFiniteSet(UsedLater(s, w))
  BY <1>2, WayFinite, FS_Subset
<1>8. Cardinality(Level) = Depth
  BY FS_Interval, DepthAssumption DEF Level
<1>9. Cardinality(Level) <= Cardinality(UsedLater(s, w))
  <2> HIDE DEF f
  <2> QED  BY <1>6, <1>7, FS_Injection
<1>10. Cardinality(UsedLater(s, w)) \in Nat
  BY <1>7, FS_CardinalityType
<1> QED  BY <1>8, <1>9, <1>10, DepthAssumption

(* Whatever the number of sets and ways and whatever its clients do, the cache    *)
(* never gives up one of the Depth entries of a set that were used last.          *)
THEOREM LastUsedAlwaysKept == HSpec => []LastUsedKept
<1>1. HSpec => []HistoryInv
  BY InitHistoryInv, StepHistoryInv, PTL DEF HSpec
<1> QED  BY <1>1, SiblingsCounted, PTL

-------------------------------------------------------------------------------
(* The cache as a map.  A tagged key and the number of its set give the key back *)
(* (DivMod, KeyOfEntry), so that the keys that the cache holds are those for which *)
(* find_matching() finds a way (HeldKeys), each with the value of that way.       *)

LEMMA DivMod ==
  ASSUME NEW n \in Nat, n > 0, NEW q \in Nat, NEW r \in 0 .. n - 1
  PROVE  (q * n + r) \div n = q /\ (q * n + r) % n = r
<1> DEFINE a == q * n + r
           d == a \div n
           m == a % n
<1>1. q * n \in Nat /\ a \in Nat
  OBVIOUS
<1>2. d \in Nat /\ m \in 0 .. n - 1
  BY <1>1
<1>3. a = n * d + m
  BY <1>1
<1>4. d * n = n * d /\ n * d \in Nat
  BY <1>2
<1>5. r - m = (d - q) * n /\ r \in Int
  <2>1. (d - q) * n = d * n - q * n
    <3> HIDE DEF d
    <3> QED  BY <1>2
  <2> HIDE DEF d, m
  <2> QED  BY <2>1, <1>2, <1>3, <1>4
<1> HIDE DEF a, d, m
<1>6. d = q
  <2>1. ASSUME d > q PROVE FALSE
    <3>1. (d - q) * n >= n
      BY <1>2, <2>1
    <3> QED  BY <1>2, <1>5, <3>1
  <2>2. ASSUME d < q PROVE FALSE
    <3>1. (q - d) * n >= n /\ (q - d) * n = - ((d - q) * n)
      BY <1>2, <2>2
    <3> QED  BY <1>2, <1>5, <3>1
  <2> QED  BY <2>1, <2>2, <1>2
<1>7. m = r
  BY <1>2, <1>5, <1>6
<1> QED  BY <1>6, <1>7 DEF a, d, m

\* key(): the key of an entry, and the search for a key, agree.
LEMMA KeyOfEntry ==
  ASSUME TypeOK, NEW k \in Nat, NEW s \in Set, NEW w \in Way
  PROVE  /\ keys[s][w] # Invalid => KeyAt(s, w) \in Nat /\ SetOf(KeyAt(s, w)) = s
         /\ keys[s][w] # Invalid /\ KeyAt(s, w) = k <=> s = SetOf(k) /\ Matches(k, w)
<1> DEFINE t == keys[s][w]
           h == t \div 2
           q == k \div Sets
           r == k % Sets
<1>1. Sets \in Nat /\ Sets > 0 /\ s \in 0 .. Sets - 1
  BY SetsAssumption DEF Set
<1>2. q \in Nat /\ r \in 0 .. Sets - 1 /\ k = q * Sets + r
  <2>1. q \in Nat /\ r \in 0 .. Sets - 1 /\ k = Sets * q + r
    BY <1>1
  <2> HIDE DEF q, r
  <2> QED  BY <1>1, <2>1
<1>3. t \in Nat /\ (t # Invalid => t % 2 = 1)
  BY DEF TypeOK
<1>4. h \in Nat /\ (t # Invalid => t = 2 * h + 1)
  <2> HIDE DEF t
  <2> QED  BY <1>3
<1>5. (h * Sets + s) \div Sets = h /\ (h * Sets + s) % Sets = s
  <2> HIDE DEF h
  <2> QED  BY <1>1, <1>4, DivMod
<1>6. KeyAt(s, w) = h * Sets + s
  BY DEF KeyAt
<1>7. t # Invalid => KeyAt(s, w) \in Nat /\ SetOf(KeyAt(s, w)) = s
  <2> HIDE DEF h
  <2> QED  BY <1>1, <1>4, <1>5, <1>6 DEF SetOf
<1>8. ASSUME t # Invalid, KeyAt(s, w) = k
      PROVE  s = SetOf(k) /\ Matches(k, w)
  <2>1. q = h /\ r = s
    BY <1>5, <1>6, <1>8
  <2>2. t = 2 * q + 1
    BY <1>4, <1>8, <2>1
  <2> QED  BY <2>1, <2>2 DEF SetOf, Matches, TaggedKey
<1>9. ASSUME s = SetOf(k), Matches(k, w)
      PROVE  t # Invalid /\ KeyAt(s, w) = k
  <2>1. s = r /\ t = 2 * q + 1
    BY <1>9 DEF SetOf, Matches, TaggedKey
  <2>2. t # Invalid /\ h = q
    <3> HIDE DEF q, t, h
    <3>1. t # 0 /\ 2 * h = 2 * q
      BY <1>2, <1>4, <2>1 DEF Invalid
    <3> QED  BY <1>2, <1>4, <3>1 DEF Invalid
  <2> QED  BY <1>2, <1>6, <2>1, <2>2
<1> QED  BY <1>7, <1>8, <1>9

\* WayOf, which chooses a way, has only one to choose from.
LEMMA HeldKeys ==
  CacheInv =>
    /\ Held \subseteq Nat
    /\ \A k \in Nat : k \in Held <=> Present(k)
    /\ \A k \in Nat, w \in Way : Matches(k, w) => WayOf(k) = w
<1> SUFFICES ASSUME CacheInv
             PROVE  /\ Held \subseteq Nat
                    /\ \A k \in Nat : k \in Held <=> Present(k)
                    /\ \A k \in Nat, w \in Way : Matches(k, w) => WayOf(k) = w
  OBVIOUS
<1>1. TypeOK /\ KeysDistinct
  BY DEF CacheInv
<1>2. Sets \in Nat /\ Sets > 0 /\ \A k \in Nat : SetOf(k) \in Set
  BY SetsAssumption DEF SetOf, Set
<1>3. \A s, w : <<s, w>> \in Entries <=> s \in Set /\ w \in Way /\ keys[s][w] # Invalid
  BY DEF Entries
<1>4. \A k : k \in Held <=> \E s \in Set, w \in Way : keys[s][w] # Invalid /\ KeyAt(s, w) = k
  <2>1. \A k : k \in Held <=> \E e \in Entries : KeyAt(e[1], e[2]) = k
    BY DEF Held
  <2>2. \A e \in Entries : e[1] \in Set /\ e[2] \in Way /\ keys[e[1]][e[2]] # Invalid
    BY DEF Entries
  <2>3. ASSUME NEW s \in Set, NEW w \in Way, keys[s][w] # Invalid
        PROVE  \E e \in Entries : e[1] = s /\ e[2] = w
    <3>1. <<s, w>> \in Entries
      BY <1>3, <2>3
    <3> QED  BY <3>1
  <2>4. ASSUME NEW k, k \in Held
        PROVE  \E s \in Set, w \in Way : keys[s][w] # Invalid /\ KeyAt(s, w) = k
    BY <2>1, <2>2, <2>4
  <2>5. ASSUME NEW s \in Set, NEW w \in Way, keys[s][w] # Invalid
        PROVE  KeyAt(s, w) \in Held
    <3>1. PICK e \in Entries : e[1] = s /\ e[2] = w
      BY <2>3, <2>5
    <3>2. KeyAt(e[1], e[2]) = KeyAt(s, w)
      BY <3>1
    <3> QED  BY <2>1, <3>2
  <2> QED  BY <2>4, <2>5
<1>5. Held \subseteq Nat
  BY <1>1, <1>4, KeyOfEntry
<1>6. ASSUME NEW k \in Nat
      PROVE  k \in Held <=> Present(k)
  BY <1>1, <1>2, <1>4, KeyOfEntry DEF Present
<1>7. ASSUME NEW k \in Nat, NEW w \in Way, Matches(k, w)
      PROVE  WayOf(k) = w
  <2> DEFINE P(u) == <<SetOf(k), u>> \in Entries /\ KeyAt(SetOf(k), u) = k
  <2>1. \A u \in Way : P(u) <=> Matches(k, u)
    BY <1>1, <1>2, <1>3, KeyOfEntry
  <2>2. \A u \in Way : Matches(k, u) => u = w
    <3>1. SetOf(k) \in Set /\ keys[SetOf(k)][w] # Invalid
      BY <1>1, <1>2, <1>7, KeyOfEntry
    <3> QED  BY <1>1, <1>7, <3>1 DEF KeysDistinct, Matches
  <2>3. WayOf(k) = CHOOSE u \in Way : P(u)
    BY DEF WayOf
  <2> HIDE DEF P
  <2> QED  BY <1>7, <2>1, <2>2, <2>3
<1> QED  BY <1>5, <1>6, <1>7

\* The map that the entries stand for, without the CHOOSE of WayOf.
ContentsKnown ==
  /\ Held = {k \in Nat : Present(k)}
  /\ Contents = [k \in Held |-> Contents[k]]
  /\ \A k \in Nat, w \in Way : Matches(k, w) => Contents[k] = values[SetOf(k)][w]

LEMMA ContentsFromKeys == CacheInv => ContentsKnown
<1> SUFFICES ASSUME CacheInv PROVE ContentsKnown
  OBVIOUS
<1>1. Held = {k \in Nat : Present(k)}
  BY HeldKeys
<1>2. \A k \in Held : Contents[k] = values[SetOf(k)][WayOf(k)]
  BY DEF Contents
<1>3. Contents = [k \in Held |-> Contents[k]]
  BY DEF Contents
<1>4. ASSUME NEW k \in Nat, NEW w \in Way, Matches(k, w)
      PROVE  Contents[k] = values[SetOf(k)][w]
  <2>1. k \in Held /\ WayOf(k) = w
    BY <1>1, <1>4, HeldKeys DEF Present
  <2> QED  BY <1>2, <2>1
<1> QED  BY <1>1, <1>3, <1>4 DEF ContentsKnown

LEMMA ContentsKnownNext == CacheInv' => ContentsKnown'
<1>1. (CacheInv => ContentsKnown)'
  BY ContentsFromKeys, PTL
<1> QED  BY <1>1

LEMMA InitMap == HInit => Map!Init
<1> SUFFICES ASSUME Init PROVE Map!Init
  BY DEF HInit
<1>1. Held = {}
  BY DEF Init, Held, Entries, Invalid
<1>2. Contents = [k \in {} |-> values[SetOf(k)][WayOf(k)]]
  BY <1>1 DEF Contents
<1>3. Contents = <<>>
  BY <1>2
<1> QED  BY <1>3 DEF Init, Map!Init

\* clear() leaves the empty map.
LEMMA EmptyContents ==
  ASSUME keys' = [s \in Set |-> [w \in Way |-> Invalid]]
  PROVE  Contents' = <<>>
<1>1. Entries' = {}
  BY DEF Entries, Invalid
<1>2. Held' = {}
  BY <1>1 DEF Held
<1>3. Contents' = [k \in {} |-> (values[SetOf(k)][WayOf(k)])']
  BY <1>2 DEF Contents
<1> QED  BY <1>3

\* A way that is found holds the key that was looked for.
LEMMA KeyOfWay ==
  ASSUME CacheInv, NEW k \in Nat, NEW w \in Way, Matches(k, w)
  PROVE  /\ SetOf(k) \in Set /\ keys[SetOf(k)][w] # Invalid
         /\ KeyAt(SetOf(k), w) = k
<1>1. SetOf(k) \in Set
  BY SetsAssumption DEF SetOf, Set
<1> QED  BY <1>1, KeyOfEntry DEF CacheInv

LEMMA UnchangedContents ==
  ASSUME CacheInv, CacheInv', keys' = keys, values' = values
  PROVE  Contents' = Contents
<1>1. ContentsKnown /\ ContentsKnown'
  BY ContentsFromKeys, ContentsKnownNext
<1>2. \A j \in Nat, u \in Way : Matches(j, u)' <=> Matches(j, u)
  BY DEF Matches
<1>3. \A j \in Nat : Present(j)' <=> Present(j)
  BY <1>2 DEF Present
<1>4. Held' = Held
  BY <1>1, <1>3 DEF ContentsKnown
<1>5. ASSUME NEW j \in Held
      PROVE  Contents'[j] = Contents[j]
  <2>1. j \in Nat /\ Present(j)
    BY <1>1 DEF ContentsKnown
  <2>2. PICK u \in Way : Matches(j, u)
    BY <2>1 DEF Present
  <2> QED  BY <1>1, <1>2, <2>1, <2>2 DEF ContentsKnown
<1> QED  BY <1>1, <1>4, <1>5 DEF ContentsKnown

\* A step that leaves the keys of the cache and the values of all keys but k.
LEMMA SameKeys ==
  ASSUME CacheInv, CacheInv', keys' = keys, NEW k \in Key, NEW w \in Way, Matches(k, w),
         NEW v, values' = [values EXCEPT ![SetOf(k)][w] = v]
  PROVE  /\ k \in DOMAIN Contents
         /\ Contents' = [Contents EXCEPT ![k] = v]
<1>1. ContentsKnown /\ ContentsKnown'
  BY ContentsFromKeys, ContentsKnownNext
<1>2. k \in Nat /\ Key \subseteq Nat
  BY KeyAssumption
<1>3. \A j \in Nat, u \in Way : Matches(j, u)' <=> Matches(j, u)
  BY DEF Matches
<1>4. \A j \in Nat : Present(j)' <=> Present(j)
  BY <1>3 DEF Present
<1>5. Held' = Held
  BY <1>1, <1>4 DEF ContentsKnown
<1>6. k \in Held
  BY <1>1, <1>2 DEF ContentsKnown, Present
<1>7. values \in [Set -> [Way -> Value \union {Raw}]] /\ \A j \in Nat : SetOf(j) \in Set
  BY SetsAssumption DEF CacheInv, TypeOK, SetOf, Set
<1>8. ASSUME NEW j \in Held
      PROVE  Contents'[j] = IF j = k THEN v ELSE Contents[j]
  <2>1. j \in Nat /\ Present(j)
    BY <1>1 DEF ContentsKnown
  <2>2. PICK u \in Way : Matches(j, u)
    BY <2>1 DEF Present
  <2>3. Contents[j] = values[SetOf(j)][u] /\ Contents'[j] = values'[SetOf(j)][u]
    BY <1>1, <1>3, <2>1, <2>2 DEF ContentsKnown
  <2>4. CASE j = k
    <3>1. Matches(j, w) /\ Contents'[j] = values'[SetOf(j)][w]
      BY <1>1, <1>3, <2>1, <2>4 DEF ContentsKnown
    <3>2. values'[SetOf(j)][w] = v
      BY <1>7, <2>1, <2>4
    <3> QED  BY <2>4, <3>1, <3>2
  <2>5. CASE j # k
    <3>1. SetOf(j) # SetOf(k) \/ u # w
      <4>1. KeyAt(SetOf(j), u) = j /\ KeyAt(SetOf(k), w) = k
        BY <1>2, <2>1, <2>2, KeyOfWay
      <4> QED  BY <2>5, <4>1
    <3>2. values'[SetOf(j)][u] = values[SetOf(j)][u]
      BY <1>2, <1>7, <2>1, <3>1
    <3> QED  BY <2>3, <2>5, <3>2
  <2> QED  BY <2>4, <2>5
<1>9. DOMAIN Contents = Held /\ DOMAIN Contents' = Held
  BY <1>5 DEF Contents
<1>10. Contents' = [j \in Held |-> Contents'[j]]
  BY <1>1, <1>5 DEF ContentsKnown
<1> QED  BY <1>6, <1>8, <1>9, <1>10

\* What an insertion in way w of set s gives up.
Victims(s, w) == IF keys[s][w] = Invalid THEN {} ELSE {KeyAt(s, w)}

\* The two modules name the same operator.
LEMMA SameCardinality == \A S : Map!Cardinality(S) = Cardinality(S)
BY DEF Map!Cardinality, Cardinality

\* The keys of a set other than the one of way w are in the other ways.
LEMMA RoomForOne ==
  ASSUME CacheInv, NEW k \in Key, NEW w \in Way
  PROVE  Cardinality(Map!InSet(Contents, k) \ Victims(SetOf(k), w)) < Cardinality(Way)
<1> DEFINE I == Map!InSet(Contents, k) \ Victims(SetOf(k), w)
           f == [j \in I |-> CHOOSE u \in Way : Matches(j, u)]
<1>1. ContentsKnown
  BY ContentsFromKeys
<1>2. \A j \in I : j \in Nat /\ Present(j) /\ SetOf(j) = SetOf(k)
  <2>1. DOMAIN Contents = Held
    BY DEF Contents
  <2> QED  BY <1>1, <2>1 DEF ContentsKnown, Map!InSet, SetOf
<1>3. \A j \in I : f[j] \in Way /\ Matches(j, f[j])
  BY <1>2 DEF Present
<1>4. ASSUME NEW j \in I
      PROVE  /\ keys[SetOf(k)][f[j]] # Invalid
             /\ KeyAt(SetOf(k), f[j]) = j
  <2> HIDE DEF f, I
  <2> QED  BY <1>2, <1>3, KeyOfWay
<1>5. ASSUME NEW j \in I  PROVE f[j] # w
  <2>1. j \notin Victims(SetOf(k), w)
    OBVIOUS
  <2> HIDE DEF f, I
  <2> QED  BY <1>4, <2>1 DEF Victims
<1>6. f \in Injection(I, Way \ {w})
  <2>1. f \in [I -> Way \ {w}]
    BY <1>3, <1>5
  <2>2. \A i, j \in I : f[i] = f[j] => i = j
    <3> HIDE DEF f, I
    <3> QED  BY <1>4
  <2> HIDE DEF f, I
  <2> QED  BY <2>1, <2>2 DEF Injection, IsInjective
<1> HIDE DEF f, I
<1>7. IsFiniteSet(Way \ {w}) /\ Cardinality(Way \ {w}) = Cardinality(Way) - 1
  BY WayFinite, FS_RemoveElement
<1>8. IsFiniteSet(I) /\ Cardinality(I) <= Cardinality(Way \ {w})
  BY <1>6, <1>7, FS_Injection
<1>9. Cardinality(I) \in Nat /\ Cardinality(Way) \in Nat
  BY <1>8, WayFinite, FS_CardinalityType
<1>10. Cardinality(I) < Cardinality(Way)
  BY <1>7, <1>8, <1>9
<1> QED  BY <1>10 DEF I

\* Insert() admits its key, and gives up the key of its way if there was one.
LEMMA InsertMaps ==
  ASSUME CacheInv, CacheInv', NEW k \in Key, NEW v \in Value, NEW w \in Way, Insert(k, v, w)
  PROVE  Map!Admit(k, v)
<1> DEFINE t == SetOf(k)
           V == Victims(t, w)
<1>1. ContentsKnown /\ ContentsKnown'
  BY ContentsFromKeys, ContentsKnownNext
<1>2. k \in Nat /\ t \in Set
  BY KeyAssumption, TaggedKeyValid
<1>3. /\ keys \in [Set -> [Way -> Nat]]
      /\ values \in [Set -> [Way -> Value \union {Raw}]]
  BY DEF CacheInv, TypeOK
<1>4. /\ keys' = [keys EXCEPT ![t][w] = TaggedKey(k)]
      /\ values' = [values EXCEPT ![t][w] = v]
      /\ ~Present(k)
      /\ ret' = Returned(k, v, TRUE)
  BY DEF Insert
<1> HIDE DEF t
<1>5. \A s \in Set, u \in Way :
        /\ keys'[s][u] = IF s = t /\ u = w THEN TaggedKey(k) ELSE keys[s][u]
        /\ values'[s][u] = IF s = t /\ u = w THEN v ELSE values[s][u]
  BY <1>2, <1>3, <1>4
<1>6. \A j \in Nat : SetOf(j) \in Set
  BY SetsAssumption DEF SetOf, Set
<1>7. Matches(k, w)'
  BY <1>2, <1>5 DEF Matches, t
<1>8. ASSUME NEW j \in Nat, NEW u \in Way, j # k
      PROVE  Matches(j, u)' <=> Matches(j, u) /\ j \notin V
  <2>1. CASE SetOf(j) = t /\ u = w
    <3>1. ~ Matches(j, u)'
      <4>1. ASSUME Matches(j, w)' PROVE FALSE
        <5>1. TaggedKey(j) = TaggedKey(k)
          BY <1>5, <1>6, <2>1, <4>1 DEF Matches
        <5>2. j \div Sets = k \div Sets /\ j % Sets = k % Sets
          BY <1>2, <2>1, <5>1, SetsAssumption DEF TaggedKey, SetOf, t
        <5>3. Sets \in Nat /\ Sets > 0
          BY SetsAssumption
        <5>4. j = Sets * (j \div Sets) + (j % Sets) /\ k = Sets * (k \div Sets) + (k % Sets)
          BY <1>2, <5>3
        <5> QED  BY <1>8, <5>2, <5>4
      <4> QED  BY <2>1, <4>1
    <3>2. Matches(j, u) => j \in V
      BY <2>1, KeyOfWay DEF Victims
    <3> QED  BY <3>1, <3>2
  <2>2. CASE ~ (SetOf(j) = t /\ u = w)
    <3>1. Matches(j, u)' <=> Matches(j, u)
      BY <1>5, <1>6, <2>2 DEF Matches
    <3>2. ASSUME Matches(j, u), j \in V PROVE FALSE
      <4>1. keys[t][w] # Invalid /\ KeyAt(t, w) = j
        BY <3>2 DEF Victims
      <4>2. t = SetOf(j) /\ Matches(j, w)
        BY <1>2, <4>1, KeyOfEntry DEF CacheInv
      <4>3. u = w
        BY <3>2, <4>1, <4>2, <1>2 DEF CacheInv, KeysDistinct, Matches
      <4> QED  BY <2>2, <4>2, <4>3
    <3> QED  BY <3>1, <3>2
  <2> QED  BY <2>1, <2>2
<1>9. \A j \in Nat : j # k => (Present(j)' <=> Present(j) /\ j \notin V)
  <2> HIDE DEF V
  <2> QED  BY <1>8 DEF Present
<1>10. Present(k)'
  BY <1>7 DEF Present
<1>11. k \notin Held /\ DOMAIN Contents = Held
  BY <1>1, <1>4 DEF ContentsKnown, Contents
<1>12. Held' = (Held \ V) \union {k}
  <2> HIDE DEF V
  <2> QED  BY <1>1, <1>2, <1>9, <1>10 DEF ContentsKnown
<1>13. Contents'[k] = v
  BY <1>1, <1>2, <1>5, <1>7 DEF ContentsKnown, t
<1>14. ASSUME NEW j \in Held \ V
       PROVE  Contents'[j] = Contents[j]
  <2>1. j \in Nat /\ Present(j) /\ j # k
    BY <1>1, <1>11 DEF ContentsKnown
  <2>2. PICK u \in Way : Matches(j, u)
    BY <2>1 DEF Present
  <2>3. Matches(j, u)'
    <3> HIDE DEF V
    <3> QED  BY <1>8, <2>1, <2>2
  <2>4. Contents[j] = values[SetOf(j)][u] /\ Contents'[j] = values'[SetOf(j)][u]
    BY <1>1, <2>1, <2>2, <2>3 DEF ContentsKnown
  <2>5. ~ (SetOf(j) = t /\ u = w)
    BY <2>1, <2>2, KeyOfWay DEF Victims
  <2> QED  BY <1>5, <1>6, <2>1, <2>4, <2>5
<1>15. Contents' = [j \in (DOMAIN Contents \ V) \union {k} |->
                     IF j = k THEN v ELSE Contents[j]]
  <2> HIDE DEF V
  <2>1. Contents' = [j \in Held' |-> Contents'[j]]
    BY <1>1 DEF ContentsKnown
  <2>2. \A j \in Held' : Contents'[j] = IF j = k THEN v ELSE Contents[j]
    BY <1>12, <1>13, <1>14
  <2> QED  BY <1>11, <1>12, <2>1, <2>2
<1>16. V \in {{}} \union {{j} : j \in Map!InSet(Contents, k)}
  <2>1. CASE keys[t][w] = Invalid
    BY <2>1 DEF Victims
  <2>2. CASE keys[t][w] # Invalid
    <3>1. /\ V = {KeyAt(t, w)} /\ KeyAt(t, w) \in Nat
          /\ SetOf(KeyAt(t, w)) = t
      BY <1>2, <2>2, KeyOfEntry DEF Victims, CacheInv
    <3>2. Matches(KeyAt(t, w), w)
      BY <1>2, <2>2, <3>1, KeyOfEntry DEF CacheInv
    <3>3. KeyAt(t, w) \in Held
      BY <1>1, <3>1, <3>2 DEF ContentsKnown, Present
    <3>4. KeyAt(t, w) \in Map!InSet(Contents, k)
      BY <1>11, <3>1, <3>3 DEF Map!InSet, SetOf, t
    <3> QED  BY <3>1, <3>4
  <2> QED  BY <2>1, <2>2
<1>17. Cardinality(Map!InSet(Contents, k) \ V) < Cardinality(Way)
  BY RoomForOne DEF t
<1>18. ret' = Map!Returned(k, v, TRUE)
  BY <1>4 DEF Returned, Map!Returned
<1> HIDE DEF V
<1> QED  BY <1>11, <1>15, <1>16, <1>17, <1>18, SameCardinality DEF Map!Admit

\* Every step of the cache is a step of the map.
LEMMA StepMaps == CacheInv /\ CacheInv' /\ [HNext]_hvars => [Map!Next]_<<Contents, ret>>
<1> SUFFICES ASSUME CacheInv, CacheInv', [HNext]_hvars
             PROVE  [Map!Next]_<<Contents, ret>>
  OBVIOUS
<1>0. ContentsKnown
  BY ContentsFromKeys
<1>1. ASSUME NEW k \in Key, NEW w \in Way, Matches(k, w)
      PROVE  k \in DOMAIN Contents /\ Contents[k] = values[SetOf(k)][w]
  BY <1>0, <1>1, KeyAssumption DEF ContentsKnown, Present
<1>2. ASSUME NEW k \in Key, NEW ok \in Accepted, NEW w \in Way, Hit(k, ok, w)
      PROVE  Map!Hit(k, ok)
  <2>1. Contents' = Contents
    BY <1>2, UnchangedContents DEF Hit
  <2> QED  BY <1>1, <1>2, <2>1 DEF Hit, Map!Hit, Returned, Map!Returned
<1>3. ASSUME NEW k \in Key, NEW ok \in Accepted, NEW v \in Value, NEW w \in Way,
             Refresh(k, ok, v, w)
      PROVE  Map!Renew(k, ok, v)
  <2>1. Matches(k, w) /\ keys' = keys /\ values' = [values EXCEPT ![SetOf(k)][w] = v]
    BY <1>3 DEF Refresh
  <2>2. Contents' = [Contents EXCEPT ![k] = v]
    BY <2>1, SameKeys
  <2> QED  BY <1>1, <1>3, <2>1, <2>2 DEF Refresh, Map!Renew, Returned, Map!Returned
<1>4. ASSUME NEW k \in Key, NEW ok \in Accepted, MissThrows(k, ok)
      PROVE  Map!Fail(k, ok)
  <2>1. Contents' = Contents
    BY <1>4, UnchangedContents DEF MissThrows
  <2>2. ASSUME k \in DOMAIN Contents
        PROVE  Contents[k] \notin ok
    <3>1. DOMAIN Contents = Held
      BY DEF Contents
    <3>2. PICK w \in Way : Matches(k, w)
      BY <1>0, <2>2, <3>1 DEF ContentsKnown, Present
    <3> QED  BY <1>1, <1>4, <3>2 DEF MissThrows, CallsMiss
  <2> QED  BY <1>4, <2>1, <2>2 DEF MissThrows, Map!Fail
<1>5. ASSUME Clear
      PROVE  Map!Clear
  <2>1. Contents' = <<>>
    BY <1>5, EmptyContents DEF Clear
  <2> QED  BY <1>5, <2>1 DEF Clear, Map!Clear
<1>6. ASSUME UNCHANGED hvars
      PROVE  UNCHANGED <<Contents, ret>>
  <2>1. keys' = keys /\ values' = values /\ ret' = ret
    BY <1>6 DEF hvars, vars
  <2> QED  BY <2>1, UnchangedContents
<1>7. CASE \E k \in Key, ok \in Accepted, w \in Way : Hit(k, ok, w)
  BY <1>2, <1>7 DEF Map!Next
<1>8. CASE \E k \in Key, ok \in Accepted, v \in Value, w \in Way : Refresh(k, ok, v, w)
  BY <1>3, <1>8 DEF Map!Next
<1>9. CASE \E k \in Key, ok \in Accepted : MissThrows(k, ok)
  BY <1>4, <1>9 DEF Map!Next
<1>10. CASE \E k \in Key, v \in Value, w \in Way : Insert(k, v, w)
  BY <1>10, InsertMaps DEF Map!Next
<1>11. CASE Clear
  BY <1>5, <1>11 DEF Map!Next
<1>12. CASE UNCHANGED hvars
  BY <1>6, <1>12
<1> QED  BY <1>7, <1>8, <1>9, <1>10, <1>11, <1>12 DEF HNext

(* For every number of sets and ways and every client, the cache is the map that *)
(* module Cache specifies: access() calls miss() exactly for an absent key or a   *)
(* stale value, returns what was stored last for its key, and loses at most one   *)
(* entry for it, of the same set, perhaps while ways of the set are free.         *)
THEOREM CacheIsMap == HSpec => ImplementsCache
<1>1. HSpec => []CacheInv
  <2>1. HInit => CacheInv
    BY InitCacheInv DEF HInit
  <2>2. CacheInv /\ [HNext]_hvars => CacheInv'
    BY HNextImpliesNext, StepCacheInv
  <2> QED  BY <2>1, <2>2, PTL DEF HSpec
<1> QED  BY <1>1, InitMap, StepMaps, PTL DEF HSpec, ImplementsCache, Map!Spec, Map!vars
===============================================================================
