------------------------------ MODULE MidiLinkProofs ------------------------------
(* Proofs about module MidiLink, for every set of channels, of messages and of   *)
(* transactions, and every bound on the link.                                    *)
EXTENDS MidiLink, Iteration, SequenceTheorems

-------------------------------------------------------------------------------
(* Values, and what may be absent.                                               *)

\* A scaled value has the width that it is scaled to.
LEMMA ScaleType ==
  ASSUME NEW width \in Nat \ {0}, NEW dest \in Nat \ {0},
         NEW v \in SUBSET (0 .. width - 1)
  PROVE  Scale(width, dest, v) \in SUBSET (0 .. dest - 1)
<1>1. CASE width >= dest
  <2>1. Scale(width, dest, v) = {b - (width - dest) : b \in {c \in v : c >= width - dest}}
    BY <1>1 DEF Scale
  <2> QED  BY <1>1, <2>1
<1>2. CASE ~ (width >= dest)
  <2>1. {b + (dest - width) : b \in v} \in SUBSET (0 .. dest - 1)
    BY <1>2
  <2>2. Repeated(width, dest, v) \in SUBSET (0 .. dest - 1)
    <3>1. Repeated(width, dest, v) \subseteq 0 .. dest - width - 1
      BY DEF Repeated
    <3> QED  BY <1>2, <3>1
  <2>3. Scale(width, dest, v) \subseteq
          {b + (dest - width) : b \in v} \union Repeated(width, dest, v)
    BY <1>2 DEF Scale
  <2> QED  BY <2>1, <2>2, <2>3
<1> QED  BY <1>1, <1>2

\* The values that are scaled between the protocols; in a parameter the value has
\* 14 bits in MIDI 1.0 and 32 in MIDI 2.0.
LEMMA WidthsType ==
  ASSUME NEW status
  PROVE  /\ M1Width(status) \in Nat \ {0} /\ M2Width(status) \in Nat \ {0}
         /\ M1Width(status) <= 14 /\ M2Width(status) <= 32
         /\ M1Width(status) < M2Width(status)
BY DEF M1Width, M2Width, pitch_bend, note_off, note_on

LEMMA ScaledDown ==
  ASSUME NEW width \in Nat \ {0}, NEW dest \in Nat \ {0}, width >= dest,
         NEW v \in SUBSET (0 .. width - 1)
  PROVE  Scale(width, dest, v) = Dropped(width - dest, v)
BY DEF Scale, Dropped

LEMMA HalvesType ==
  ASSUME NEW v \in SUBSET (0 .. 13)
  PROVE  /\ Hi7(v) \in Number7 /\ Lo7(v) \in Number7
         /\ Joined(Hi7(v), Lo7(v)) = v
<1>1. Number7 = SUBSET (0 .. 6)
  BY DEF Number7, AllOnes7
<1>2. ASSUME NEW c \in v, c >= 7
      PROVE  c - 7 \in 0 .. 6 /\ c - 7 \in Hi7(v) /\ c = (c - 7) + 7
  BY <1>2 DEF Hi7
<1>3. ASSUME NEW b \in Hi7(v)
      PROVE  b \in 0 .. 6 /\ b + 7 \in v /\ b + 7 >= 7
  <2>1. PICK c \in {d \in v : d >= 7} : b = c - 7
    BY <1>3 DEF Hi7
  <2> QED  BY <2>1
<1>4. Hi7(v) \in Number7 /\ Lo7(v) \in Number7
  <2>1. Hi7(v) \subseteq 0 .. 6
    BY <1>3
  <2>2. ASSUME NEW b \in Lo7(v)
        PROVE  b \in 0 .. 6
    <3>1. b \in v /\ b < 7 /\ b \in 0 .. 13
      BY <2>2 DEF Lo7
    <3> QED  BY <3>1
  <2> QED  BY <1>1, <2>1, <2>2
<1>5. {b + 7 : b \in Hi7(v)} = {c \in v : c >= 7}
  BY <1>2, <1>3
<1>6. {c \in v : c >= 7} \union {c \in v : c < 7} = v
  <2>1. \A c \in v : c \in 0 .. 13 /\ (c >= 7 \/ c < 7)
    OBVIOUS
  <2> QED  BY <2>1, Zenon
<1> QED  BY <1>4, <1>5, <1>6 DEF Joined, Lo7

LEMMA JoinedType ==
  ASSUME NEW hi \in Number7, NEW lo \in Number7
  PROVE  Joined(hi, lo) \in SUBSET (0 .. 13)
<1>1. hi \subseteq 0 .. 6 /\ lo \subseteq 0 .. 6
  BY DEF Number7, AllOnes7
<1>2. {b + 7 : b \in hi} \subseteq 0 .. 13
  BY <1>1
<1>3. lo \subseteq 0 .. 13
  BY <1>1
<1> QED  BY <1>2, <1>3 DEF Joined

LEMMA OptionalValues ==
  ASSUME NEW S
  PROVE  /\ {} \in Optional(S)
         /\ \A x \in S : {x} \in Optional(S)
         /\ \A v \in Optional(S) : v # {} => Only(v) \in S /\ v = {Only(v)}
<1>1. ASSUME NEW v \in Optional(S), v # {}
      PROVE  Only(v) \in S /\ v = {Only(v)}
  <2>1. Only(v) \in v
    BY <1>1 DEF Only
  <2> QED  BY <2>1 DEF Optional
<1> QED  BY <1>1 DEF Optional

LEMMA OnlyOne ==
  ASSUME NEW x
  PROVE  Only({x}) = x /\ Listed({x}) = <<x>>
<1>1. Only({x}) = x
  BY DEF Only
<1> QED  BY <1>1 DEF Listed

LEMMA OptionalPair ==
  ASSUME NEW S, NEW T, NEW v \in Optional(S), NEW w \in Optional(T)
  PROVE  v \X w \in Optional(S \X T)
BY DEF Optional

-------------------------------------------------------------------------------
(* The FIFOs.  They are empty when messages are pushed: what one message yields   *)
(* are up to four messages of a word, or one of up to four words.                *)

SizeOf(m) == Dispatcher!MessageSize(m.mt)

LEMMA SizeType ==
  ASSUME NEW m
  PROVE  SizeOf(m) \in 1 .. 4
BY DEF SizeOf, Dispatcher!MessageSize

LEMMA WordsSum ==
  ASSUME NEW M, NEW messages \in Seq(M)
  PROVE  \E sum \in [0 .. Len(messages) -> Nat] :
           /\ sum[0] = 0
           /\ \A i \in 1 .. Len(messages) : sum[i] = sum[i - 1] + SizeOf(messages[i])
           /\ Words(messages) = sum[Len(messages)]
<1> DEFINE n == Len(messages)
           F(s) == [k \in 0 .. n |-> IF k = 0 THEN 0
                                     ELSE s[k - 1] + Dispatcher!MessageSize(messages[k].mt)]
           f == [i \in 1 .. n |-> [s \in Nat |-> s + SizeOf(messages[i])]]
           chosen == CHOOSE s : s = F(s)
<1>1. n \in Nat
  OBVIOUS
<1>2. Words(messages) = chosen[n]
  BY DEF Words
<1> HIDE DEF n
<1>3. f \in Steps(Nat, n)
  BY SizeType DEF Steps
<1>4. PICK h : Path(Nat, n, 0, f, h)
  <2> HIDE DEF f
  <2> QED  BY <1>1, <1>3, PathExists
<1>5. h \in [0 .. n -> Nat] /\ h[0] = 0 /\ \A i \in 1 .. n : h[i] = h[i - 1] + SizeOf(messages[i])
  <2>1. /\ h \in [0 .. n -> Nat] /\ h[0] = 0
        /\ \A i \in 1 .. n : h[i] = f[i][h[i - 1]]
    BY <1>4 DEF Path
  <2>2. \A i \in 1 .. n : i - 1 \in 0 .. n
    BY <1>1
  <2> QED  BY <2>1, <2>2
<1>6. h = F(h)
  <2>1. \A k \in 0 .. n : k # 0 => k \in 1 .. n
    BY <1>1
  <2>2. \A k \in 0 .. n : h[k] = F(h)[k]
    BY <1>5, <2>1 DEF SizeOf
  <2> QED  BY <1>5, <2>2
<1>7. chosen = F(chosen)
  <2> HIDE DEF F
  <2> QED  BY <1>6
<1> HIDE DEF chosen, f
<1>8. /\ 0 \in 0 .. n
      /\ \A i \in 1 .. n : i \in 0 .. n /\ i # 0 /\ i - 1 \in 0 .. n
  BY <1>1
<1>9. chosen[0] = 0
  BY <1>7, <1>8
<1>10. \A i \in 1 .. n : chosen[i] = chosen[i - 1] + SizeOf(messages[i])
  BY <1>7, <1>8 DEF SizeOf
<1> DEFINE T == {k \in Nat : k <= n => chosen[k] = h[k]}
<1>11. n \in T
  <2>1. 0 \in T
    BY <1>5, <1>9
  <2>2. ASSUME NEW k \in T
        PROVE  k + 1 \in T
    <3>1. k \in Nat /\ k + 1 \in Nat /\ (k + 1) - 1 = k
      OBVIOUS
    <3>2. ASSUME k + 1 <= n
          PROVE  chosen[k + 1] = h[k + 1]
      <4>1. k + 1 \in 1 .. n /\ chosen[k] = h[k]
        BY <1>1, <3>1, <3>2
      <4> QED  BY <1>5, <1>10, <3>1, <4>1
    <3> QED  BY <3>1, <3>2
  <2>3. T \in SUBSET Nat
    OBVIOUS
  <2> HIDE DEF T
  <2> QED  BY <1>1, <2>1, <2>2, <2>3, AllNumbers
<1>12. Words(messages) = h[n]
  BY <1>1, <1>2, <1>11
<1> QED  BY <1>5, <1>12 DEF n

LEMMA WordsOfOnes ==
  ASSUME NEW M, NEW messages \in Seq(M),
         \A i \in 1 .. Len(messages) : SizeOf(messages[i]) = 1
  PROVE  Words(messages) = Len(messages)
<1> DEFINE n == Len(messages)
<1>1. n \in Nat
  OBVIOUS
<1>2. PICK sum \in [0 .. n -> Nat] :
        /\ sum[0] = 0
        /\ \A i \in 1 .. n : sum[i] = sum[i - 1] + SizeOf(messages[i])
        /\ Words(messages) = sum[n]
  BY WordsSum
<1>3. \A i \in 1 .. n : SizeOf(messages[i]) = 1
  OBVIOUS
<1> HIDE DEF n
<1> DEFINE T == {k \in Nat : k <= n => sum[k] = k}
<1>4. 0 \in T
  BY <1>2
<1>5. ASSUME NEW k \in T
      PROVE  k + 1 \in T
  <2>1. k \in Nat /\ k + 1 \in Nat /\ (k + 1) - 1 = k
    OBVIOUS
  <2>2. ASSUME k + 1 <= n
        PROVE  sum[k + 1] = k + 1
    <3>1. k + 1 \in 1 .. n /\ sum[k] = k
      BY <1>1, <2>1, <2>2
    <3> QED  BY <1>2, <1>3, <2>1, <3>1
  <2> QED  BY <2>1, <2>2
<1>6. n \in T
  <2>1. T \in SUBSET Nat
    OBVIOUS
  <2> HIDE DEF T
  <2> QED  BY <1>1, <1>4, <1>5, <2>1, AllNumbers
<1> QED  BY <1>2, <1>6 DEF n

LEMMA WordsOfOne ==
  ASSUME NEW m
  PROVE  Words(<<m>>) = SizeOf(m)
<1> DEFINE messages == <<m>>
<1>1. messages \in Seq({m}) /\ Len(messages) = 1 /\ messages[1] = m
  OBVIOUS
<1> HIDE DEF messages
<1>2. PICK sum \in [0 .. 1 -> Nat] :
        /\ sum[0] = 0
        /\ \A i \in 1 .. 1 : sum[i] = sum[i - 1] + SizeOf(messages[i])
        /\ Words(messages) = sum[1]
  BY <1>1, WordsSum
<1>3. sum[1] = sum[0] + SizeOf(m)
  <2>1. 1 \in 1 .. 1 /\ 1 - 1 = 0
    OBVIOUS
  <2> QED  BY <1>1, <1>2, <2>1
<1> QED  BY <1>2, <1>3, SizeType DEF messages

Small(messages) ==
  \/ Len(messages) <= 4 /\ \A i \in 1 .. Len(messages) : SizeOf(messages[i]) = 1
  \/ Len(messages) <= 1

LEMMA PrefixWords ==
  ASSUME NEW M, NEW messages \in Seq(M), Small(messages), NEW k \in 0 .. Len(messages)
  PROVE  Words(SubSeq(messages, 1, k)) <= OutputSize
<1> DEFINE n == Len(messages)
           prefix == SubSeq(messages, 1, k)
<1>1. n \in Nat /\ k \in 0 .. n
  OBVIOUS
<1>2. /\ prefix \in Seq(M) /\ Len(prefix) = k
      /\ \A i \in 1 .. k : prefix[i] = messages[i]
  BY SubSeqProperties
<1>3. CASE n <= 4 /\ \A i \in 1 .. n : SizeOf(messages[i]) = 1
  <2>1. \A i \in 1 .. k : i \in 1 .. n
    BY <1>1
  <2>2. \A i \in 1 .. Len(prefix) : SizeOf(prefix[i]) = 1
    BY <1>2, <1>3, <2>1
  <2>3. Words(prefix) = k
    <3> HIDE DEF prefix
    <3> QED  BY <1>2, <2>2, WordsOfOnes
  <2> QED  BY <1>1, <1>3, <2>3 DEF OutputSize
<1>4. CASE k = 0
  <2>1. \A i \in 1 .. Len(prefix) : SizeOf(prefix[i]) = 1
    BY <1>2, <1>4
  <2>2. Words(prefix) = 0
    <3> HIDE DEF prefix
    <3> QED  BY <1>2, <1>4, <2>1, WordsOfOnes
  <2> QED  BY <2>2 DEF OutputSize
<1>5. CASE n <= 1 /\ k # 0
  <2>1. k = 1
    BY <1>1, <1>5
  <2>2. prefix = <<prefix[1]>>
    <3> HIDE DEF prefix
    <3> QED  BY <1>2, <2>1
  <2>3. Words(prefix) = SizeOf(prefix[1])
    <3> HIDE DEF prefix
    <3> QED  BY <2>2, WordsOfOne
  <2> QED  BY <2>3, SizeType DEF OutputSize
<1> QED  BY <1>3, <1>4, <1>5 DEF Small

\* All that one message yields goes into an empty FIFO.
LEMMA AllPushed ==
  ASSUME NEW M, NEW messages \in Seq(M), Small(messages)
  PROVE  Fits(<<>>, messages) /\ Pushed(<<>>, messages) = messages
<1> DEFINE n == Len(messages)
           Prefix(k) == SubSeq(messages, 1, k)
<1>1. n \in Nat
  OBVIOUS
<1>2. /\ Prefix(0) = <<>> /\ Prefix(n) = messages
      /\ \A k \in 1 .. n : Prefix(k) = Append(Prefix(k - 1), messages[k])
  <2>1. \A k \in 1 .. n : Prefix(k) = Append(Prefix(k - 1), messages[k])
    <3> TAKE k \in 1 .. n
    <3>1. /\ Prefix(k) \in Seq(M) /\ Len(Prefix(k)) = k
          /\ \A i \in 1 .. k : Prefix(k)[i] = messages[i]
      BY SubSeqProperties
    <3>2. /\ Prefix(k - 1) \in Seq(M) /\ Len(Prefix(k - 1)) = k - 1
          /\ \A i \in 1 .. k - 1 : Prefix(k - 1)[i] = messages[i]
      BY SubSeqProperties
    <3> DEFINE a == Prefix(k) b == Prefix(k - 1)
    <3> HIDE DEF a, b
    <3>3. messages[k] \in M
      OBVIOUS
    <3>4. /\ Append(b, messages[k]) \in Seq(M) /\ Len(Append(b, messages[k])) = k
          /\ \A i \in 1 .. k - 1 : Append(b, messages[k])[i] = b[i]
          /\ Append(b, messages[k])[k] = messages[k]
      BY <3>2, <3>3, AppendProperties DEF b
    <3>5. \A i \in 1 .. k : Append(b, messages[k])[i] = messages[i]
      BY <3>2, <3>4 DEF b
    <3>6. a \in Seq(M) /\ Len(a) = k /\ \A i \in 1 .. k : a[i] = messages[i]
      BY <3>1 DEF a
    <3>7. a = Append(b, messages[k])
      BY <3>4, <3>5, <3>6, SeqEqual
    <3> QED  BY <3>7 DEF a, b
  <2> QED  BY <2>1, SubSeqFull
<1>3. \A k \in 0 .. n : Words(Prefix(k)) <= OutputSize
  BY PrefixWords
<1>4. Fits(<<>>, messages)
  <2>1. <<>> \o messages = messages
    OBVIOUS
  <2>2. n \in 0 .. n
    BY <1>1
  <2> QED  BY <1>2, <1>3, <2>1, <2>2 DEF Fits
<1>5. \A k \in 1 .. n : Fits(Prefix(k - 1), <<messages[k]>>)
  <2> TAKE k \in 1 .. n
  <2>1. k \in 0 .. n
    BY <1>1
  <2>2. Prefix(k - 1) \in Seq(M) /\ messages[k] \in M
    BY SubSeqProperties
  <2>3. Prefix(k - 1) \o <<messages[k]>> = Append(Prefix(k - 1), messages[k])
    <3> DEFINE b == Prefix(k - 1)
    <3> HIDE DEF b
    <3>1. b \in Seq(M)
      BY <2>2 DEF b
    <3>2. Append(b, messages[k]) = b \o <<messages[k]>>
      BY <2>2, <3>1, AppendIsConcat
    <3> QED  BY <3>2 DEF b
  <2> QED  BY <1>2, <1>3, <2>1, <2>3 DEF Fits
<1> DEFINE F(s) == [k \in 0 .. n |->
                      IF k = 0 THEN <<>>
                      ELSE IF Fits(s[k - 1], <<messages[k]>>)
                      THEN Append(s[k - 1], messages[k]) ELSE s[k - 1]]
           chosen == CHOOSE s : s = F(s)
           h == [k \in 0 .. n |-> Prefix(k)]
<1>6. Pushed(<<>>, messages) = chosen[n]
  BY DEF Pushed
<1> HIDE DEF Prefix, n
<1>7. /\ 0 \in 0 .. n
      /\ \A i \in 1 .. n : i \in 0 .. n /\ i # 0 /\ i - 1 \in 0 .. n
      /\ \A i \in 0 .. n : i # 0 => i \in 1 .. n
  BY <1>1
<1>8. h = F(h)
  <2>1. \A k \in 0 .. n : h[k] = F(h)[k]
    BY <1>2, <1>5, <1>7
  <2> QED  BY <2>1
<1>9. chosen = F(chosen)
  <2> HIDE DEF F, h
  <2> QED  BY <1>8
<1> HIDE DEF chosen, h
<1> DEFINE T == {k \in Nat : k <= n => chosen[k] = Prefix(k)}
<1>10. 0 \in T
  BY <1>2, <1>7, <1>9
<1>11. ASSUME NEW k \in T
       PROVE  k + 1 \in T
  <2>1. k \in Nat /\ k + 1 \in Nat /\ (k + 1) - 1 = k
    OBVIOUS
  <2>2. ASSUME k + 1 <= n
        PROVE  chosen[k + 1] = Prefix(k + 1)
    <3>1. k + 1 \in 1 .. n /\ k + 1 \in 0 .. n /\ k + 1 # 0
      BY <1>1, <2>1, <2>2
    <3>2. chosen[k] = Prefix(k)
      BY <1>1, <2>1, <2>2
    <3>3. Fits(Prefix(k), <<messages[k + 1]>>)
      BY <1>5, <2>1, <3>1
    <3>4. Prefix(k + 1) = Append(Prefix(k), messages[k + 1])
      BY <1>2, <2>1, <3>1
    <3>5. chosen[k + 1] = F(chosen)[k + 1]
      BY <1>9, <3>1
    <3> QED  BY <2>1, <3>1, <3>2, <3>3, <3>4, <3>5
  <2> QED  BY <2>1, <2>2
<1>12. n \in T
  <2>1. T \in SUBSET Nat
    OBVIOUS
  <2> HIDE DEF T
  <2> QED  BY <1>1, <1>10, <1>11, <2>1, AllNumbers
<1>13. chosen[n] = messages
  BY <1>1, <1>2, <1>12
<1> QED  BY <1>4, <1>6, <1>13

-------------------------------------------------------------------------------
(* The messages.                                                                 *)

AnyMessages == M1Messages \union M2Messages

LEMMA OtherFields ==
  ASSUME NEW m \in Others
  PROVE  /\ m.mt \in Types /\ m.mt \notin {MT_M1CVM, MT_M2CVM}
         /\ m = Other(m.mt, m.status) /\ "value" \notin DOMAIN m
<1>1. m \in [mt : Types, status : Nat]
  BY DEF Others
<1> QED  BY <1>1 DEF Types, Other

\* The dispatcher has a handler for the messages that mean something, and for no
\* others.
LEMMA HandledDefined ==
  ASSUME NEW m \in Others
  PROVE  Handled(m) <=> <<m.mt, m.status>> \in Defined
<1> USE DEF MT_UTILITY, MT_SYSTEM, MT_M1CVM, MT_DATA64, MT_M2CVM, MT_DATA128, MT_FLEX,
            MT_STREAM
<1>1. m.mt # MT_M1CVM /\ m.mt # MT_M2CVM
  BY OtherFields
<1>2. /\ Dispatcher!SystemStatus = {241, 242, 243, 246, 248, 250, 251, 252, 254, 255}
      /\ Dispatcher!Data64Status = {0, 1, 2, 3}
  BY DEF Dispatcher!SystemStatus, Dispatcher!Data64Status, Dispatcher!TIMING_CODE,
         Dispatcher!SPP, Dispatcher!SONG_SELECT, Dispatcher!TUNE_REQUEST,
         Dispatcher!TIMING_CLOCK, Dispatcher!SEQUENCE_START,
         Dispatcher!SEQUENCE_CONTINUE, Dispatcher!SEQUENCE_STOP,
         Dispatcher!ACTIVE_SENSING, Dispatcher!SYSTEM_RESET, Dispatcher!SYSEX7_IN_1,
         Dispatcher!SYSEX7_START, Dispatcher!SYSEX7_CONTINUE, Dispatcher!SYSEX7_END
<1>3. /\ Dispatcher!UtilityStatus = {0, 1, 2, 3, 4}
      /\ Dispatcher!StreamStatus = {0, 1, 2, 3, 4, 5, 6, 16, 17, 18, 32, 33}
      /\ Dispatcher!Data128Status = {0, 1, 2, 3, 8, 9}
      /\ Dispatcher!FlexStatus = {0, 1, 2, 5, 6, Dispatcher!Text}
  BY DEF Dispatcher!UtilityStatus, Dispatcher!StreamStatus, Dispatcher!Data128Status,
         Dispatcher!FlexStatus
<1> QED  BY <1>1, <1>2, <1>3 DEF Handled, Defined, Dispatcher!Handlers,
           Dispatcher!MT_UTILITY, Dispatcher!MT_SYSTEM, Dispatcher!MT_M1CVM,
           Dispatcher!MT_DATA64, Dispatcher!MT_M2CVM, Dispatcher!MT_DATA128,
           Dispatcher!MT_FLEX, Dispatcher!MT_STREAM

LEMMA Kinds1 ==
  ASSUME NEW m \in M1Messages
  PROVE  /\ m.mt # MT_M2CVM
         /\ m.mt # MT_M1CVM => m \in Others
         /\ m.mt = MT_M1CVM => /\ m.status \in Valued \union {program_change}
                               /\ m.at \in Channels /\ m.index \in Number7
         /\ m.mt = MT_M1CVM /\ m.status \in Valued =>
              m \in M1Values /\ m.value \in SUBSET (0 .. M1Width(m.status) - 1)
<1> USE DEF MT_UTILITY, MT_SYSTEM, MT_M1CVM, MT_DATA64, MT_M2CVM, MT_DATA128, MT_FLEX,
            MT_STREAM
<1>1. CASE m \in M1Values
  BY <1>1 DEF M1Values
<1>2. CASE m \in M1Programs
  <2>1. program_change \notin Valued
    BY DEF Valued, program_change, note_off, note_on, poly_pressure, control_change,
           channel_pressure, pitch_bend
  <2> QED  BY <1>2, <2>1 DEF M1Programs
<1>3. CASE m \in Others
  BY <1>3, OtherFields
<1> QED  BY <1>1, <1>2, <1>3 DEF M1Messages

\* The dispatcher has a handler for every channel voice message of MIDI 1.0.
LEMMA HandledVoices ==
  ASSUME NEW m \in M1Messages, m.mt = MT_M1CVM
  PROVE  Handled(m)
<1>1. m.status \in Valued \union {program_change}
  BY Kinds1
<1>2. m.status \in Dispatcher!M1cvmStatus
  BY <1>1 DEF Dispatcher!M1cvmStatus, Valued, note_off, note_on, poly_pressure,
              control_change, program_change, channel_pressure, pitch_bend
<1> QED  BY <1>2 DEF Handled, Dispatcher!Handlers, Dispatcher!MT_M1CVM, MT_M1CVM

LEMMA Kinds2 ==
  ASSUME NEW m \in M2Messages
  PROVE  /\ m.mt = MT_M2CVM /\ m.at \in Channels
         /\ m.status \in Valued =>
              m.index \in Number7 /\ m.value \in SUBSET (0 .. M2Width(m.status) - 1)
         /\ m.status = program_change =>
              m.index \in Number7 /\ m.bank \in Optional(Number7 \X Number7)
         /\ m.status \in {rpn, nrpn} =>
              m.index \in Number7 \X Number7 /\ m.value \in SUBSET (0 .. 31)
<1>1. /\ program_change \notin Valued /\ rpn \notin Valued /\ nrpn \notin Valued
      /\ program_change \notin {rpn, nrpn}
  BY DEF Valued, program_change, note_off, note_on, poly_pressure, control_change,
         channel_pressure, pitch_bend, rpn, nrpn
<1>2. CASE m \in M2Values
  BY <1>1, <1>2 DEF M2Values
<1>3. CASE m \in M2Programs
  BY <1>1, <1>3 DEF M2Programs
<1>4. CASE m \in M2Parameters
  BY <1>1, <1>4 DEF M2Parameters
<1>5. CASE m \in M2Rest
  BY <1>1, <1>5 DEF M2Rest
<1> QED  BY <1>2, <1>3, <1>4, <1>5 DEF M2Messages

LEMMA Made1 ==
  ASSUME NEW at \in Channels, NEW index \in Number7
  PROVE  /\ Program(MT_M1CVM, at, index, {}) \in M1Messages
         /\ \A status \in Valued : \A value \in SUBSET (0 .. M1Width(status) - 1) :
              Voice(MT_M1CVM, status, at, index, value) \in M1Messages
         /\ \A value \in Number7 : Control(at, index, value) \in M1Messages
<1>1. ASSUME NEW status \in Valued, NEW value \in SUBSET (0 .. M1Width(status) - 1)
      PROVE  Voice(MT_M1CVM, status, at, index, value) \in M1Messages
  <2>1. value \in SUBSET (0 .. 13)
    BY DEF M1Width
  <2> QED  BY <2>1 DEF Voice, M1Messages, M1Values
<1>2. ASSUME NEW value \in Number7
      PROVE  Control(at, index, value) \in M1Messages
  <2>1. /\ control_change \in Valued /\ M1Width(control_change) = 7
        /\ value \in SUBSET (0 .. 6)
    BY DEF Valued, M1Width, control_change, pitch_bend, Number7, AllOnes7
  <2> QED  BY <1>1, <2>1 DEF Control
<1>3. Program(MT_M1CVM, at, index, {}) \in M1Messages
  BY DEF Program, M1Messages, M1Programs
<1> QED  BY <1>1, <1>2, <1>3

LEMMA Made2 ==
  ASSUME NEW at \in Channels, NEW index
  PROVE  /\ index \in Number7 => \A b \in Optional(Number7 \X Number7) :
              Program(MT_M2CVM, at, index, b) \in M2Messages
         /\ index \in Number7 =>
              \A status \in Valued : \A value \in SUBSET (0 .. M2Width(status) - 1) :
                Voice(MT_M2CVM, status, at, index, value) \in M2Messages
         /\ index \in Number7 \X Number7 =>
              \A status \in {rpn, nrpn}, value \in SUBSET (0 .. 31) :
                Voice(MT_M2CVM, status, at, index, value) \in M2Messages
<1>1. ASSUME index \in Number7, NEW b \in Optional(Number7 \X Number7)
      PROVE  Program(MT_M2CVM, at, index, b) \in M2Messages
  BY <1>1 DEF Program, M2Messages, M2Programs
<1>2. ASSUME index \in Number7, NEW status \in Valued,
             NEW value \in SUBSET (0 .. M2Width(status) - 1)
      PROVE  Voice(MT_M2CVM, status, at, index, value) \in M2Messages
  <2>1. value \in SUBSET (0 .. 31)
    BY DEF M2Width
  <2> QED  BY <1>2, <2>1 DEF Voice, M2Messages, M2Values
<1>3. ASSUME index \in Number7 \X Number7, NEW status \in {rpn, nrpn},
             NEW value \in SUBSET (0 .. 31)
      PROVE  Voice(MT_M2CVM, status, at, index, value) \in M2Messages
  BY <1>3 DEF Voice, M2Messages, M2Parameters
<1> QED  BY <1>1, <1>2, <1>3

\* The numbers of the controls have seven bits, and no two are the same.
LEMMA ControlNumbers ==
  /\ Controls \subseteq Number7
  /\ bank_select # bank_select_lsb
  /\ {bank_select, bank_select_lsb}
       \intersect {rpn_msb, nrpn_msb, rpn_lsb, nrpn_lsb, data_entry_msb, data_entry_lsb,
                   reset_all_controllers} = {}
  /\ {rpn_msb, nrpn_msb}
       \intersect {rpn_lsb, nrpn_lsb, data_entry_msb, data_entry_lsb, reset_all_controllers} = {}
  /\ rpn_msb # nrpn_msb /\ rpn_lsb # nrpn_lsb
  /\ {rpn_lsb, nrpn_lsb}
       \intersect {data_entry_msb, data_entry_lsb, reset_all_controllers} = {}
  /\ data_entry_msb # data_entry_lsb
  /\ reset_all_controllers \notin {data_entry_msb, data_entry_lsb}
<1> USE DEF bank_select, bank_select_lsb, rpn_msb, nrpn_msb, rpn_lsb, nrpn_lsb,
            data_entry_msb, data_entry_lsb, reset_all_controllers
<1>1. Controls \subseteq Number7
  BY DEF Controls, Number7, AllOnes7
<1>2. /\ 0 \notin {5} /\ 5 \in {5} /\ 5 \notin {1, 2} /\ 1 \in {1, 2}
      /\ 1 \notin {5} /\ 1 \in {1, 2, 5} /\ 6 \notin {5} /\ 6 \in {1, 5, 6}
      /\ 6 \in {0, 1, 5, 6} /\ 6 \in {2, 5, 6} /\ 6 \in {0, 2, 5, 6}
      /\ 6 \in {0, 3, 4, 5, 6}
      /\ 6 \notin {1, 2} /\ 6 \notin {1, 2, 5} /\ 5 \in {1, 2, 5}
      /\ 0 \in {0, 1, 5, 6} /\ 0 \in {0, 2, 5, 6} /\ 0 \notin {1, 5, 6} /\ 0 \notin {2, 5, 6}
      /\ 1 \in {1, 5, 6} /\ 1 \notin {2, 5, 6} /\ 1 \in {0, 1, 5, 6} /\ 1 \notin {0, 2, 5, 6}
      /\ 3 \in {0, 3, 4, 5, 6} /\ 3 \notin {0, 1, 5, 6} /\ 3 \notin {0, 2, 5, 6}
      /\ 3 \notin {1, 5, 6} /\ 3 \notin {2, 5, 6} /\ 3 \notin {1, 2} /\ 3 \notin {1, 2, 5}
  OBVIOUS
<1>3. bank_select # bank_select_lsb /\ data_entry_msb # data_entry_lsb
  BY <1>2, Zenon
<1>4. /\ bank_select \notin {rpn_msb, nrpn_msb, rpn_lsb, nrpn_lsb, data_entry_msb,
                             data_entry_lsb, reset_all_controllers}
      /\ bank_select_lsb \notin {rpn_msb, nrpn_msb, rpn_lsb, nrpn_lsb, data_entry_msb,
                                 data_entry_lsb, reset_all_controllers}
  BY <1>2, Zenon
<1>5. /\ rpn_msb \notin {rpn_lsb, nrpn_lsb, data_entry_msb, data_entry_lsb,
                         reset_all_controllers}
      /\ nrpn_msb \notin {rpn_lsb, nrpn_lsb, data_entry_msb, data_entry_lsb,
                          reset_all_controllers}
  BY <1>2, Zenon
<1>6. rpn_msb # nrpn_msb /\ rpn_lsb # nrpn_lsb
  BY <1>2, Zenon
<1>7. /\ rpn_lsb \notin {data_entry_msb, data_entry_lsb, reset_all_controllers}
      /\ nrpn_lsb \notin {data_entry_msb, data_entry_lsb, reset_all_controllers}
      /\ reset_all_controllers \notin {data_entry_msb, data_entry_lsb}
  BY <1>2, Zenon
<1> QED  BY <1>1, <1>3, <1>4, <1>5, <1>6, <1>7, Zenon

LEMMA Sizes ==
  ASSUME NEW m, m.mt \in {MT_UTILITY, MT_SYSTEM, MT_M1CVM}
  PROVE  SizeOf(m) = 1
BY DEF SizeOf, Dispatcher!MessageSize, Dispatcher!MT_UTILITY, Dispatcher!MT_SYSTEM,
       Dispatcher!MT_M1CVM, MT_UTILITY, MT_SYSTEM, MT_M1CVM

-------------------------------------------------------------------------------
(* What to_midi1 and ump_to_midi2 make of one message when they are empty.       *)

LEMMA Four ==
  ASSUME NEW a, NEW b, NEW c, NEW d
  PROVE  <<a, b>> \o <<c, d>> = <<a, b, c, d>>
<1> DEFINE s == <<a, b>> r == <<c, d>> t == <<a, b, c, d>> M == {a, b, c, d}
<1>1. /\ s \in Seq(M) /\ Len(s) = 2 /\ s[1] = a /\ s[2] = b
      /\ r \in Seq(M) /\ Len(r) = 2 /\ r[1] = c /\ r[2] = d
  OBVIOUS
<1>2. t \in Seq(M) /\ Len(t) = 4 /\ t[1] = a /\ t[2] = b /\ t[3] = c /\ t[4] = d
  OBVIOUS
<1> HIDE DEF s, r, t, M
<1>3. /\ s \o r \in Seq(M) /\ Len(s \o r) = 4
      /\ \A i \in 1 .. 4 : (s \o r)[i] = IF i <= 2 THEN s[i] ELSE r[i - 2]
  BY <1>1, ConcatProperties
<1> DEFINE u == s \o r
<1> HIDE DEF u
<1>4. u \in Seq(M) /\ Len(u) = Len(t) /\ \A i \in 1 .. Len(u) : u[i] = t[i]
  BY <1>1, <1>2, <1>3 DEF u
<1>5. u = t
  BY <1>2, <1>4, SeqEqual
<1> QED  BY <1>5 DEF u, s, r, t

LEMMA Emitted1 ==
  ASSUME NEW M, NEW messages \in Seq(M), Small(messages), output1 = <<>>, ~refused1,
         Emit1(messages)
  PROVE  output1' = messages /\ ~refused1'
<1>1. Fits(<<>>, messages) /\ Pushed(<<>>, messages) = messages
  BY AllPushed
<1>2. output1' = messages
  BY <1>1 DEF Emit1
<1>3. Fits(output1, messages)
  BY <1>1
<1>4. ~refused1'
  BY <1>3, Zenon DEF Emit1
<1> QED  BY <1>2, <1>4

LEMMA Emitted2 ==
  ASSUME NEW M, NEW messages \in Seq(M), Len(messages) <= 1, output2 = <<>>, ~refused2,
         Emit2(messages)
  PROVE  output2' = messages /\ ~refused2'
<1>1. Fits(<<>>, messages) /\ Pushed(<<>>, messages) = messages
  BY AllPushed DEF Small
<1>2. output2' = messages
  BY <1>1 DEF Emit2
<1>3. Fits(output2, messages)
  BY <1>1
<1>4. ~refused2'
  BY <1>3, Zenon DEF Emit2
<1> QED  BY <1>2, <1>4

\* After an access the cache has the number, and what else it has it had before.
LEMMA Cached ==
  ASSUME NEW key, NEW number, Access(key, number)
  PROVE  /\ key \in DOMAIN pn_cache' /\ pn_cache'[key] = number
         /\ \A k \in DOMAIN pn_cache' \ {key} :
              k \in DOMAIN pn_cache /\ pn_cache'[k] = pn_cache[k]
         /\ \/ pn_access'.called = TRUE
            \/ pn_access'.called = FALSE /\ key \in DOMAIN pn_cache /\ pn_cache[key] = number
<1>1. CASE PnCache!Hit(key, {number})
  BY <1>1 DEF PnCache!Hit, PnCache!Returned
<1>2. CASE PnCache!Renew(key, {number}, number)
  BY <1>2 DEF PnCache!Renew, PnCache!Returned
<1>3. CASE PnCache!Admit(key, number)
  <2>1. PICK victims : pn_cache' = [j \in (DOMAIN pn_cache \ victims) \union {key} |->
                                      IF j = key THEN number ELSE pn_cache[j]]
    BY <1>3 DEF PnCache!Admit
  <2>2. pn_access'.called = TRUE
    BY <1>3 DEF PnCache!Admit, PnCache!Returned
  <2> QED  BY <2>1, <2>2
<1> QED  BY <1>1, <1>2, <1>3 DEF Access

\* The messages that to_midi1 makes of a program change or of a parameter.
BankMsb(s)   == Control(s.at, bank_select, Only(s.bank)[1])
BankLsb(s)   == Control(s.at, bank_select_lsb, Only(s.bank)[2])
Selection(s) == Program(MT_M1CVM, s.at, s.index, {})
FirstOf(s)   == Control(s.at, IF s.status = rpn THEN rpn_msb ELSE nrpn_msb, s.index[1])
SecondOf(s)  == Control(s.at, IF s.status = rpn THEN rpn_lsb ELSE nrpn_lsb, s.index[2])
EntryMsb(s)  == Control(s.at, data_entry_msb, Hi7(Scale(32, 14, s.value)))
EntryLsb(s)  == Control(s.at, data_entry_lsb, Lo7(Scale(32, 14, s.value)))
Narrowed(s)  == Voice(MT_M1CVM, s.status, s.at, s.index,
                      Scale(M2Width(s.status), M1Width(s.status), s.value))

KeyOf(p) == PnKey(p.at, p.status = rpn)

LEMMA MadeOf ==
  ASSUME NEW s \in M2Messages
  PROVE  /\ s.status \in Valued => Narrowed(s) \in M1Messages
         /\ s.status = program_change =>
              /\ Selection(s) \in M1Messages
              /\ s.bank # {} => BankMsb(s) \in M1Messages /\ BankLsb(s) \in M1Messages
         /\ s.status \in {rpn, nrpn} =>
              /\ FirstOf(s) \in M1Messages /\ SecondOf(s) \in M1Messages
              /\ EntryMsb(s) \in M1Messages /\ EntryLsb(s) \in M1Messages
<1>1. /\ \A c \in Controls : c \in Number7
      /\ {bank_select, bank_select_lsb, rpn_msb, nrpn_msb, rpn_lsb, nrpn_lsb,
          data_entry_msb, data_entry_lsb} \subseteq Controls
  BY ControlNumbers DEF Controls
<1>2. ASSUME s.status \in Valued
      PROVE  Narrowed(s) \in M1Messages
  <2>1. s.at \in Channels /\ s.index \in Number7
        /\ s.value \in SUBSET (0 .. M2Width(s.status) - 1)
    BY <1>2, Kinds2
  <2>2. Scale(M2Width(s.status), M1Width(s.status), s.value)
          \in SUBSET (0 .. M1Width(s.status) - 1)
    BY <2>1, WidthsType, ScaleType
  <2> QED  BY <1>2, <2>1, <2>2, Made1 DEF Narrowed
<1>3. ASSUME s.status = program_change
      PROVE  /\ Selection(s) \in M1Messages
             /\ s.bank # {} => BankMsb(s) \in M1Messages /\ BankLsb(s) \in M1Messages
  <2>1. s.at \in Channels /\ s.index \in Number7 /\ s.bank \in Optional(Number7 \X Number7)
    BY <1>3, Kinds2
  <2>2. ASSUME s.bank # {}
        PROVE  BankMsb(s) \in M1Messages /\ BankLsb(s) \in M1Messages
    <3>1. Only(s.bank) \in Number7 \X Number7
      BY <2>1, <2>2, OptionalValues
    <3> QED  BY <1>1, <2>1, <3>1, Made1 DEF BankMsb, BankLsb
  <2> QED  BY <2>1, <2>2, Made1 DEF Selection
<1>4. ASSUME s.status \in {rpn, nrpn}
      PROVE  /\ FirstOf(s) \in M1Messages /\ SecondOf(s) \in M1Messages
             /\ EntryMsb(s) \in M1Messages /\ EntryLsb(s) \in M1Messages
  <2>1. s.at \in Channels /\ s.index \in Number7 \X Number7 /\ s.value \in SUBSET (0 .. 31)
    BY <1>4, Kinds2
  <2>2. Scale(32, 14, s.value) \in SUBSET (0 .. 13)
    <3>1. s.value \in SUBSET (0 .. 32 - 1)
      BY <2>1
    <3>2. 32 \in Nat \ {0} /\ 14 \in Nat \ {0}
      OBVIOUS
    <3>3. Scale(32, 14, s.value) \in SUBSET (0 .. 14 - 1)
      BY <3>1, <3>2, ScaleType, Zenon
    <3> QED  BY <3>3
  <2>3. Hi7(Scale(32, 14, s.value)) \in Number7 /\ Lo7(Scale(32, 14, s.value)) \in Number7
    BY <2>2, HalvesType
  <2> QED  BY <1>1, <2>1, <2>3, Made1 DEF FirstOf, SecondOf, EntryMsb, EntryLsb
<1> QED  BY <1>2, <1>3, <1>4

Yields(in) ==
  \/ output1' = <<>> /\ UNCHANGED pn_cache
  \/ /\ in.mt \in {MT_SYSTEM, MT_M1CVM, MT_DATA64}
     /\ in \in M1Messages /\ Handled(in) /\ output1' = <<in>> /\ UNCHANGED pn_cache
  \/ /\ in \in M2Messages /\ in.status \in Valued
     /\ output1' = <<Narrowed(in)>> /\ UNCHANGED pn_cache
  \/ /\ in \in M2Messages /\ in.status = program_change /\ UNCHANGED pn_cache
     /\ IF in.bank = {} THEN output1' = <<Selection(in)>>
        ELSE output1' = <<BankMsb(in), BankLsb(in), Selection(in)>>
  \/ /\ in \in M2Messages /\ in.status \in {rpn, nrpn} /\ Access(KeyOf(in), in.index)
     /\ IF pn_access'.called
        THEN output1' = <<FirstOf(in), SecondOf(in), EntryMsb(in), EntryLsb(in)>>
        ELSE output1' = <<EntryMsb(in), EntryLsb(in)>>

LEMMA Pushed1 ==
  ASSUME NEW in \in AnyMessages, output1 = <<>>, ~refused1, Push1(in)
  PROVE  ~refused1' /\ Yields(in)
<1>1. CASE Pass1(in)
  <2>1. /\ in.mt \in {MT_SYSTEM, MT_M1CVM, MT_DATA64} /\ Handled(in)
        /\ Emit1(<<in>>) /\ UNCHANGED pn_cache
    BY <1>1 DEF Pass1, Send1
  <2>2. <<in>> \in Seq({in}) /\ Len(<<in>>) <= 1
    OBVIOUS
  <2>3. output1' = <<in>> /\ ~refused1'
    BY <2>1, <2>2, Emitted1 DEF Small
  <2>4. in \in M1Messages
    <3>1. MT_M2CVM \notin {MT_SYSTEM, MT_M1CVM, MT_DATA64}
      BY DEF MT_M2CVM, MT_SYSTEM, MT_M1CVM, MT_DATA64
    <3> QED  BY <2>1, <3>1, Kinds2 DEF AnyMessages
  <2> QED  BY <2>1, <2>3, <2>4 DEF Yields
<1>2. CASE Drop1(in)
  <2>1. output1' = <<>> /\ UNCHANGED <<pn_cache, refused1>>
    BY <1>2 DEF Drop1, vars1
  <2>2. ~refused1'
    BY <2>1
  <2> QED  BY <2>1, <2>2 DEF Yields
<1>3. ASSUME in.mt = MT_M2CVM
      PROVE  in \in M2Messages
  BY <1>3, Kinds1 DEF AnyMessages
<1>4. CASE Value1(in)
  <2>1. /\ in.mt = MT_M2CVM /\ in.status \in Valued
        /\ Emit1(<<Narrowed(in)>>) /\ UNCHANGED pn_cache
    BY <1>4 DEF Value1, Send1, Narrowed
  <2> DEFINE out == <<Narrowed(in)>>
  <2>2. out \in Seq({Narrowed(in)}) /\ Len(out) <= 1
    OBVIOUS
  <2>3. output1' = out /\ ~refused1'
    <3> HIDE DEF out
    <3> QED  BY <2>1, <2>2, Emitted1 DEF Small, out
  <2> QED  BY <1>3, <2>1, <2>3 DEF Yields
<1>5. CASE Program1(in)
  <2> DEFINE out == IF in.bank = {} THEN <<Selection(in)>>
                    ELSE <<BankMsb(in), BankLsb(in), Selection(in)>>
  <2>1. in.mt = MT_M2CVM /\ in.status = program_change /\ UNCHANGED pn_cache
    BY <1>5 DEF Program1, Send1
  <2>2. Emit1(out)
    BY <1>5 DEF Program1, Send1, Selection, BankMsb, BankLsb
  <2> DEFINE M == {BankMsb(in), BankLsb(in), Selection(in)}
  <2>3. out \in Seq(M)
    <3> DEFINE a == BankMsb(in) b == BankLsb(in) c == Selection(in)
    <3> HIDE DEF a, b, c
    <3>1. <<a, b, c>> \in Seq({a, b, c}) /\ <<c>> \in Seq({a, b, c})
      OBVIOUS
    <3> QED  BY <3>1 DEF a, b, c
  <2>4. Len(out) <= 3
    OBVIOUS
  <2>5. \A m \in M : SizeOf(m) = 1
    BY Sizes DEF BankMsb, BankLsb, Selection, Control, Voice, Program
  <2> HIDE DEF out, M
  <2>6. Small(out)
    <3>1. \A i \in 1 .. Len(out) : out[i] \in M
      BY <2>3
    <3>2. Len(out) \in Nat
      BY <2>3
    <3> QED  BY <2>4, <2>5, <3>1, <3>2 DEF Small
  <2>7. output1' = out /\ ~refused1'
    BY <2>2, <2>3, <2>6, Emitted1
  <2> QED  BY <1>3, <2>1, <2>7 DEF Yields, out
<1>6. CASE Parameter1(in)
  <2> DEFINE out == IF pn_access'.called
                    THEN <<FirstOf(in), SecondOf(in), EntryMsb(in), EntryLsb(in)>>
                    ELSE <<EntryMsb(in), EntryLsb(in)>>
  <2>1. in.mt = MT_M2CVM /\ in.status \in {rpn, nrpn} /\ Access(KeyOf(in), in.index)
    BY <1>6 DEF Parameter1, KeyOf
  <2>2. Emit1(out)
    <3> DEFINE a == FirstOf(in) b == SecondOf(in) c == EntryMsb(in) d == EntryLsb(in)
    <3>1. /\ Number(in.at, in.status = rpn, in.index) = <<a, b>>
          /\ DataEntry(in.at, in.value) = <<c, d>>
      BY DEF Number, DataEntry, FirstOf, SecondOf, EntryMsb, EntryLsb
    <3>2. Emit1(IF pn_access'.called THEN <<a, b>> \o <<c, d>> ELSE <<c, d>>)
      <4> HIDE DEF a, b, c, d
      <4> QED  BY <1>6, <3>1 DEF Parameter1
    <3> HIDE DEF a, b, c, d
    <3>3. <<a, b>> \o <<c, d>> = <<a, b, c, d>>
      BY Four
    <3> QED  BY <3>2, <3>3 DEF a, b, c, d
  <2> DEFINE M == {FirstOf(in), SecondOf(in), EntryMsb(in), EntryLsb(in)}
  <2>3. out \in Seq(M)
    <3> DEFINE a == FirstOf(in) b == SecondOf(in) c == EntryMsb(in) d == EntryLsb(in)
    <3> HIDE DEF a, b, c, d
    <3>1. <<a, b, c, d>> \in Seq({a, b, c, d}) /\ <<c, d>> \in Seq({a, b, c, d})
      OBVIOUS
    <3> QED  BY <3>1 DEF a, b, c, d
  <2>4. Len(out) <= 4
    OBVIOUS
  <2>5. \A m \in M : SizeOf(m) = 1
    BY Sizes DEF FirstOf, SecondOf, EntryMsb, EntryLsb, Control, Voice
  <2> HIDE DEF out, M
  <2>6. Small(out)
    <3>1. \A i \in 1 .. Len(out) : out[i] \in M
      BY <2>3
    <3>2. Len(out) \in Nat
      BY <2>3
    <3> QED  BY <2>4, <2>5, <3>1, <3>2 DEF Small
  <2>7. output1' = out /\ ~refused1'
    BY <2>2, <2>3, <2>6, Emitted1
  <2> QED  BY <1>3, <2>1, <2>7 DEF Yields, out
<1> QED  BY <1>1, <1>2, <1>4, <1>5, <1>6 DEF Push1

\* What goes on the link is a message of MIDI 1.0; a control change has seven bits.
LEMMA ControlOf ==
  ASSUME NEW in \in M1Messages, NEW controllers, IsControl(in, controllers)
  PROVE  in.mt = MT_M1CVM /\ in.at \in Channels /\ in.index \in controllers
         /\ in.index \in Number7 /\ in.value \in Number7 /\ in.status = control_change
<1>1. in.mt = MT_M1CVM /\ in.status = control_change /\ in.index \in controllers
  BY DEF IsControl
<1>2. control_change \in Valued /\ M1Width(control_change) = 7
  BY DEF Valued, M1Width, control_change, pitch_bend
<1>3. in.at \in Channels /\ in.index \in Number7 /\ in.value \in SUBSET (0 .. 7 - 1)
  BY <1>1, <1>2, Kinds1
<1>4. in.value \in Number7
  BY <1>3 DEF Number7, AllOnes7
<1> QED  BY <1>1, <1>3, <1>4

Outputs2 == M2Messages \union Others

Typed2 ==
  /\ bank \in [Channels -> Banks]
  /\ parameter_number \in [Channels -> ParameterNumbers]

LEMMA SentOne ==
  ASSUME NEW m \in Outputs2, output2 = <<>>, ~refused2, Emit2(<<m>>)
  PROVE  output2' = <<m>> /\ output2' \in Seq(Outputs2) /\ ~refused2'
<1> DEFINE out == <<m>>
<1>1. out \in Seq(Outputs2) /\ Len(out) <= 1
  OBVIOUS
<1>2. output2' = out /\ ~refused2'
  <2> HIDE DEF out
  <2> QED  BY <1>1, Emitted2 DEF out
<1> QED  BY <1>1, <1>2

LEMMA ScaledType ==
  ASSUME NEW in \in M1Messages, in.mt = MT_M1CVM, in.status \in Valued
  PROVE  Scaled(in) \in Outputs2
<1>1. in.at \in Channels /\ in.index \in Number7
      /\ in.value \in SUBSET (0 .. M1Width(in.status) - 1)
  BY Kinds1
<1>2. Scale(M1Width(in.status), M2Width(in.status), in.value)
        \in SUBSET (0 .. M2Width(in.status) - 1)
  BY <1>1, WidthsType, ScaleType
<1> QED  BY <1>1, <1>2, Made2 DEF Scaled, Outputs2

\* What a channel's context yields when the data entry is complete.
SentFor(pn, in, k) ==
  Voice(MT_M2CVM, IF pn.is_rpn THEN rpn ELSE nrpn, in.at, <<k[1], k[2]>>,
        Scale(14, 32, Joined(k[3], in.value)))

LEMMA SentForType ==
  ASSUME NEW pn \in ParameterNumbers, NEW in \in M1Messages,
         IsControl(in, {data_entry_lsb})
  PROVE  /\ \A k \in pn.msb \X pn.lsb \X pn.value_msb : SentFor(pn, in, k) \in Outputs2
         /\ \A j, k \in pn.msb \X pn.lsb \X pn.value_msb : j = k
<1>1. /\ pn.msb \in Optional(Number7) /\ pn.lsb \in Optional(Number7)
      /\ pn.value_msb \in Optional(Number7)
  BY DEF ParameterNumbers
<1>2. ASSUME NEW k \in pn.msb \X pn.lsb \X pn.value_msb
      PROVE  SentFor(pn, in, k) \in Outputs2
  <2>1. k[1] \in Number7 /\ k[2] \in Number7 /\ k[3] \in Number7
    BY <1>1 DEF Optional
  <2>2. in.at \in Channels /\ in.value \in Number7
    BY ControlOf
  <2>3. Joined(k[3], in.value) \in SUBSET (0 .. 14 - 1)
    <3>1. Joined(k[3], in.value) \in SUBSET (0 .. 13)
      BY <2>1, <2>2, JoinedType
    <3> QED  BY <3>1
  <2>4. Scale(14, 32, Joined(k[3], in.value)) \in SUBSET (0 .. 31)
    <3>1. Scale(14, 32, Joined(k[3], in.value)) \in SUBSET (0 .. 32 - 1)
      BY <2>3, ScaleType
    <3> QED  BY <3>1
  <2>5. <<k[1], k[2]>> \in Number7 \X Number7
        /\ (IF pn.is_rpn THEN rpn ELSE nrpn) \in {rpn, nrpn}
    BY <2>1
  <2> QED  BY <2>2, <2>4, <2>5, Made2 DEF SentFor, Outputs2
<1>3. \A j, k \in pn.msb \X pn.lsb \X pn.value_msb : j = k
  BY <1>1 DEF Optional
<1> QED  BY <1>2, <1>3

LEMMA ContextTypes ==
  /\ \A msb, lsb \in Optional(Number7) : Bank(msb, lsb) \in Banks
  /\ \A is_rpn \in BOOLEAN, msb, lsb, value_msb \in Optional(Number7) :
       ParameterNumber(is_rpn, msb, lsb, value_msb) \in ParameterNumbers
  /\ \A b \in Banks : b.msb \in Optional(Number7) /\ b.lsb \in Optional(Number7)
  /\ \A pn \in ParameterNumbers :
       /\ pn.is_rpn \in BOOLEAN /\ pn.msb \in Optional(Number7)
       /\ pn.lsb \in Optional(Number7) /\ pn.value_msb \in Optional(Number7)
  /\ NoBank \in Banks /\ NoNumber \in ParameterNumbers
  /\ \A pn \in ParameterNumbers : Forgotten(pn) \in ParameterNumbers
<1>1. {} \in Optional(Number7)
  BY OptionalValues
<1>2. \A msb, lsb \in Optional(Number7) : Bank(msb, lsb) \in Banks
  BY DEF Bank, Banks
<1>3. \A is_rpn \in BOOLEAN, msb, lsb, value_msb \in Optional(Number7) :
        ParameterNumber(is_rpn, msb, lsb, value_msb) \in ParameterNumbers
  BY DEF ParameterNumber, ParameterNumbers
<1>4. /\ \A b \in Banks : b.msb \in Optional(Number7) /\ b.lsb \in Optional(Number7)
      /\ \A pn \in ParameterNumbers :
           /\ pn.is_rpn \in BOOLEAN /\ pn.msb \in Optional(Number7)
           /\ pn.lsb \in Optional(Number7) /\ pn.value_msb \in Optional(Number7)
  BY DEF Banks, ParameterNumbers
<1>5. NoBank \in Banks /\ NoNumber \in ParameterNumbers
  BY <1>1, <1>2, <1>3 DEF NoBank, NoNumber
<1>6. \A pn \in ParameterNumbers : Forgotten(pn) \in ParameterNumbers
  BY <1>1, <1>3, <1>4 DEF Forgotten
<1> QED  BY <1>2, <1>3, <1>4, <1>5, <1>6

LEMMA Pushed2 ==
  ASSUME NEW in \in M1Messages, Typed2, output2 = <<>>, ~refused2, Push2(in)
  PROVE  ~refused2' /\ output2' \in Seq(Outputs2) /\ Typed2'
<1> DEFINE Same == bank' = bank /\ parameter_number' = parameter_number
<1>1. Same => Typed2'
  BY DEF Typed2
<1>2. \A m \in Outputs2 : Emit2(<<m>>) => output2' \in Seq(Outputs2) /\ ~refused2'
  BY SentOne
<1>3. Send2(<<>>) => ~refused2' /\ output2' \in Seq(Outputs2)
  <2>1. <<>> \in Seq(Outputs2) /\ Len(<<>>) <= 1
    OBVIOUS
  <2> QED  BY <2>1, Emitted2 DEF Send2
<1>4. \A messages : Send2(messages) => Emit2(messages) /\ Same
  BY DEF Send2
<1>5. UNCHANGED <<output2, refused2>> => output2' \in Seq(Outputs2) /\ ~refused2'
  <2>1. <<>> \in Seq(Outputs2)
    OBVIOUS
  <2> QED  BY <2>1
<1> HIDE DEF Same
<1>6. CASE Pass2(in)
  <2>1. in \in Outputs2 /\ Send2(<<in>>)
    BY <1>6, Kinds1 DEF Pass2, Outputs2
  <2> QED  BY <1>1, <1>2, <1>4, <2>1
<1>7. CASE Drop2(in)
  <2>1. Same /\ UNCHANGED <<output2, refused2>>
    BY <1>7 DEF Drop2, vars2, Same
  <2> QED  BY <1>1, <1>5, <2>1
<1>8. CASE Value2(in)
  <2>1. Scaled(in) \in Outputs2 /\ Send2(<<Scaled(in)>>)
    BY <1>8, ScaledType DEF Value2
  <2> QED  BY <1>1, <1>2, <1>4, <2>1
<1>9. CASE Program2(in)
  <2> DEFINE m == Program(MT_M2CVM, in.at, in.index, bank[in.at].msb \X bank[in.at].lsb)
  <2>1. in.mt = MT_M1CVM /\ Send2(<<m>>)
    BY <1>9 DEF Program2
  <2>2. in.at \in Channels /\ in.index \in Number7
    BY <2>1, Kinds1
  <2>3. bank[in.at].msb \X bank[in.at].lsb \in Optional(Number7 \X Number7)
    BY <2>2, ContextTypes, OptionalPair DEF Typed2
  <2>4. m \in Outputs2
    BY <2>2, <2>3, Made2 DEF Outputs2
  <2> HIDE DEF m
  <2> QED  BY <1>1, <1>2, <1>4, <2>1, <2>4
<1>10. \A x \in Number7 : {x} \in Optional(Number7)
  BY OptionalValues
<1>11. CASE BankSelect(in)
  <2>1. in.at \in Channels /\ in.value \in Number7
    BY <1>11, ControlOf DEF BankSelect
  <2>2. /\ UNCHANGED <<output2, refused2>> /\ parameter_number' = parameter_number
        /\ \E b \in Banks : bank' = [bank EXCEPT ![in.at] = b]
    <3>1. bank[in.at] \in Banks
      BY <2>1 DEF Typed2
    <3>2. /\ Bank({in.value}, bank[in.at].lsb) \in Banks
          /\ Bank(bank[in.at].msb, {in.value}) \in Banks
      BY <1>10, <2>1, <3>1, ContextTypes
    <3> QED  BY <1>11, <3>2 DEF BankSelect
  <2>3. Typed2'
    BY <2>2 DEF Typed2
  <2> QED  BY <1>5, <2>2, <2>3
<1>12. ASSUME NEW pn \in ParameterNumbers,
              parameter_number' = [parameter_number EXCEPT ![in.at] = pn], bank' = bank
       PROVE  Typed2'
  BY <1>12 DEF Typed2
<1>13. in.at \in Channels => parameter_number[in.at] \in ParameterNumbers
  BY DEF Typed2
<1>14. CASE NumberMsb(in)
  <2>1. in.at \in Channels /\ in.value \in Number7
    BY <1>14, ControlOf DEF NumberMsb
  <2> DEFINE old == parameter_number[in.at]
             pn == ParameterNumber(in.index = rpn_msb, {in.value}, old.lsb, old.value_msb)
  <2>2. pn \in ParameterNumbers
    BY <1>10, <1>13, <2>1, ContextTypes
  <2>3. /\ UNCHANGED <<output2, refused2>> /\ bank' = bank
        /\ parameter_number' = [parameter_number EXCEPT ![in.at] = pn]
    BY <1>14 DEF NumberMsb
  <2> HIDE DEF pn
  <2> QED  BY <1>5, <1>12, <2>2, <2>3
<1>15. CASE NumberLsb(in)
  <2>1. in.at \in Channels /\ in.value \in Number7
    BY <1>15, ControlOf DEF NumberLsb
  <2> DEFINE old == parameter_number[in.at]
             pn == IF IsNull(old, in) THEN Forgotten(old)
                   ELSE ParameterNumber(in.index = rpn_lsb, old.msb, {in.value}, old.value_msb)
  <2>2. pn \in ParameterNumbers
    BY <1>10, <1>13, <2>1, ContextTypes
  <2>3. /\ UNCHANGED <<output2, refused2>> /\ bank' = bank
        /\ parameter_number' = [parameter_number EXCEPT ![in.at] = pn]
    BY <1>15 DEF NumberLsb
  <2> HIDE DEF pn
  <2> QED  BY <1>5, <1>12, <2>2, <2>3
<1>16. CASE DataMsb(in)
  <2>1. in.at \in Channels /\ in.value \in Number7
    BY <1>16, ControlOf DEF DataMsb
  <2> DEFINE old == parameter_number[in.at]
             pn == ParameterNumber(old.is_rpn, old.msb, old.lsb, {in.value})
  <2>2. pn \in ParameterNumbers
    BY <1>10, <1>13, <2>1, ContextTypes
  <2>3. /\ UNCHANGED <<output2, refused2>> /\ bank' = bank
        /\ parameter_number' = [parameter_number EXCEPT ![in.at] = pn]
    BY <1>16 DEF DataMsb
  <2> HIDE DEF pn
  <2> QED  BY <1>5, <1>12, <2>2, <2>3
<1>17. CASE DataLsb(in)
  <2>1. IsControl(in, {data_entry_lsb})
    BY <1>17 DEF DataLsb
  <2>2. in.at \in Channels
    BY <2>1, ControlOf
  <2> DEFINE pn == parameter_number[in.at]
             sent == {SentFor(pn, in, k) : k \in pn.msb \X pn.lsb \X pn.value_msb}
  <2>3. Send2(Listed(sent))
    BY <1>17 DEF DataLsb, SentFor
  <2>4. sent \in SUBSET Outputs2
    <3>1. pn \in ParameterNumbers
      BY <1>13, <2>2
    <3> HIDE DEF pn
    <3>2. \A k \in pn.msb \X pn.lsb \X pn.value_msb : SentFor(pn, in, k) \in Outputs2
      BY <2>1, <3>1, SentForType
    <3> QED  BY <3>2
  <2> HIDE DEF sent
  <2>5. CASE sent = {}
    BY <1>1, <1>3, <1>4, <2>3, <2>5 DEF Listed
  <2>6. CASE sent # {}
    <3>1. Only(sent) \in Outputs2
      BY <2>4, <2>6 DEF Only
    <3> QED  BY <1>1, <1>2, <1>4, <2>3, <2>6, <3>1 DEF Listed
  <2> QED  BY <2>5, <2>6
<1>18. CASE ResetControllers(in)
  <2>1. IsControl(in, {reset_all_controllers})
    BY <1>18 DEF ResetControllers
  <2>2. in.at \in Channels /\ in.mt = MT_M1CVM /\ in.status \in Valued
    BY <2>1, ControlOf DEF Valued
  <2> DEFINE pn == Forgotten(parameter_number[in.at])
  <2>3. pn \in ParameterNumbers
    BY <1>13, <2>2, ContextTypes
  <2>4. /\ Emit2(<<Scaled(in)>>) /\ bank' = bank
        /\ parameter_number' = [parameter_number EXCEPT ![in.at] = pn]
    BY <1>18 DEF ResetControllers
  <2> HIDE DEF pn
  <2> QED  BY <1>2, <1>12, <2>2, <2>3, <2>4, ScaledType
<1>19. CASE OtherControl(in)
  <2>1. Scaled(in) \in Outputs2 /\ Send2(<<Scaled(in)>>)
    BY <1>19, ScaledType DEF OtherControl, Valued
  <2> QED  BY <1>1, <1>2, <1>4, <2>1
<1> QED  BY <1>6, <1>7, <1>8, <1>9, <1>11, <1>14, <1>15, <1>16, <1>17, <1>18, <1>19 DEF Push2

-------------------------------------------------------------------------------
(* The receiver on the link.                                                     *)

LEMMA KnowsType ==
  ASSUME NEW banks \in Optional(Number7) \X Optional(Number7),
         NEW parameter \in Optional({rpn, nrpn} \X (Number7 \X Number7)),
         NEW pending \in Optional({rpn, nrpn} \X Number7),
         NEW value_msb \in Optional(Number7)
  PROVE  Knows(banks, parameter, pending, value_msb) \in Receivers
BY DEF Knows, Receivers

LEMMA UnawareType == Unaware \in Receivers
<1>1. /\ {} \in Optional(Number7) /\ {} \in Optional({rpn, nrpn} \X (Number7 \X Number7))
      /\ {} \in Optional({rpn, nrpn} \X Number7)
  BY OptionalValues
<1> QED  BY <1>1, KnowsType DEF Unaware

LEMMA KindOfControl ==
  /\ \A m : KindOf(m) \in {rpn, nrpn}
  /\ \A m : m.index = rpn_msb => KindOf(m) = rpn
  /\ \A m : m.index = rpn_lsb => KindOf(m) = rpn
  /\ \A m : m.index = nrpn_msb => KindOf(m) = nrpn
  /\ \A m : m.index = nrpn_lsb => KindOf(m) = nrpn
<1>1. nrpn_msb \notin {rpn_msb, rpn_lsb} /\ nrpn_lsb \notin {rpn_msb, rpn_lsb}
  BY ControlNumbers, Zenon
<1> QED  BY <1>1 DEF KindOf

LEMMA ToldType ==
  ASSUME NEW h \in Receivers, NEW m \in M1Messages
  PROVE  Told(h, m) \in Receivers
<1> DEFINE P == Optional({rpn, nrpn} \X (Number7 \X Number7))
           Q == Optional({rpn, nrpn} \X Number7)
<1>1. /\ h.bank[1] \in Optional(Number7) /\ h.bank[2] \in Optional(Number7)
      /\ h.bank \in Optional(Number7) \X Optional(Number7)
      /\ h.parameter \in P /\ h.pending \in Q
      /\ h.value_msb \in Optional(Number7)
  BY DEF Receivers
<1>2. {} \in Optional(Number7) /\ {} \in P /\ {} \in Q
  BY OptionalValues
<1>3. \A x \in Number7 : {x} \in Optional(Number7)
  BY OptionalValues
<1>4. CASE m.mt # MT_M1CVM \/ m.status # control_change
  BY <1>4 DEF Told
<1>5. CASE IsControl(m, Number7)
  <2>1. m.value \in Number7 /\ m.mt = MT_M1CVM /\ m.status = control_change
    BY <1>5, ControlOf
  <2>2. /\ <<{m.value}, h.bank[2]>> \in Optional(Number7) \X Optional(Number7)
        /\ <<h.bank[1], {m.value}>> \in Optional(Number7) \X Optional(Number7)
    BY <1>1, <1>3, <2>1
  <2> DEFINE S == {<<q[1], <<q[2], m.value>>>> : q \in h.pending} \ {NullRpn}
  <2>3. S \in P
    <3>1. \A q \in h.pending : <<q[1], <<q[2], m.value>>>> \in {rpn, nrpn} \X (Number7 \X Number7)
      BY <1>1, <2>1 DEF Optional
    <3>2. \A x, y \in h.pending : x = y
      BY <1>1 DEF Optional
    <3> QED  BY <3>1, <3>2 DEF Optional
  <2>4. {<<KindOf(m), m.value>>} \in Q
    <3>1. <<KindOf(m), m.value>> \in {rpn, nrpn} \X Number7
      BY <2>1, KindOfControl
    <3> QED  BY <3>1, OptionalValues
  <2> HIDE DEF S, P, Q
  <2>5. /\ Knows(<<{m.value}, h.bank[2]>>, h.parameter, h.pending, h.value_msb) \in Receivers
        /\ Knows(<<h.bank[1], {m.value}>>, h.parameter, h.pending, h.value_msb) \in Receivers
    BY <1>1, <2>2, KnowsType DEF P, Q
  <2>6. /\ Knows(h.bank, {}, {<<KindOf(m), m.value>>}, h.value_msb) \in Receivers
        /\ Knows(h.bank, S, {}, {}) \in Receivers
        /\ Knows(h.bank, h.parameter, h.pending, {m.value}) \in Receivers
        /\ Knows(h.bank, {}, {}, {}) \in Receivers
    BY <1>1, <1>2, <1>3, <2>1, <2>3, <2>4, KnowsType DEF P, Q
  <2> QED  BY <2>1, <2>5, <2>6 DEF Told, S
<1>6. m.mt = MT_M1CVM => m.index \in Number7
  BY Kinds1
<1> QED  BY <1>4, <1>5, <1>6 DEF IsControl

LEMMA Carried ==
  ASSUME NEW m \in M1Messages, link \in Seq(M1Messages), holds \in [Channels -> Receivers],
         Carry(m)
  PROVE  link' \in Seq(M1Messages) /\ holds' \in [Channels -> Receivers]
<1>1. link' \in Seq(M1Messages)
  BY DEF Carry
<1>2. CASE ~IsVoice(m)
  BY <1>1, <1>2 DEF Carry
<1>3. CASE IsVoice(m)
  <2>1. m.at \in Channels
    BY <1>3, Kinds1 DEF IsVoice
  <2>2. Told(holds[m.at], m) \in Receivers
    BY <2>1, ToldType
  <2>3. holds' = [holds EXCEPT ![m.at] = Told(holds[m.at], m)]
    BY <1>3 DEF Carry
  <2> HIDE DEF Told
  <2> QED  BY <1>1, <2>2, <2>3
<1> QED  BY <1>2, <1>3

-------------------------------------------------------------------------------
(* Types, and the words of the FIFOs.                                            *)

TypeInv == TypeOK /\ NothingRefused

LEMMA InitTyped == Init => TypeInv
<1> SUFFICES ASSUME Init PROVE TypeInv
  OBVIOUS
<1>1. /\ output1 = <<>> /\ output2 = <<>> /\ script = <<>> /\ link = <<>> /\ source = {}
      /\ pn_cache = <<>> /\ refused1 = FALSE /\ refused2 = FALSE
      /\ bank = [at \in Channels |-> NoBank]
      /\ parameter_number = [at \in Channels |-> NoNumber]
      /\ holds = [at \in Channels |-> Unaware]
  BY DEF Init, ToMidi1Init, ToMidi2Init, PnCache!Init
<1>2. /\ bank \in [Channels -> Banks]
      /\ parameter_number \in [Channels -> ParameterNumbers]
      /\ holds \in [Channels -> Receivers]
  BY <1>1, ContextTypes, UnawareType
<1>3. /\ output1 \in Seq(M1Messages) /\ output2 \in Seq(M2Messages \union Others)
      /\ script \in Seq(M1Messages) /\ link \in Seq(M1Messages)
      /\ DOMAIN pn_cache = {}
  BY <1>1
<1>4. source \in Optional(Messages) /\ (source = {} <=> output1 = <<>>)
  BY <1>1, OptionalValues
<1> QED  BY <1>1, <1>2, <1>3, <1>4 DEF TypeInv, TypeOK, NothingRefused

\* The parts of the invariant that the actions change together.
Typed1 ==
  /\ output1 \in Seq(M1Messages)
  /\ \A key \in DOMAIN pn_cache :
       /\ \E at \in Channels, k \in BOOLEAN : key = PnKey(at, k)
       /\ pn_cache[key] \in Number7 \X Number7
  /\ source \in Optional(Messages)
  /\ source = {} <=> output1 = <<>>
TypedLink ==
  /\ script \in Seq(M1Messages) /\ link \in Seq(M1Messages)
  /\ holds \in [Channels -> Receivers]

LEMMA TypeInvParts ==
  TypeInv <=> /\ Typed1 /\ ~refused1
              /\ Typed2 /\ output2 \in Seq(Outputs2) /\ ~refused2
              /\ TypedLink
BY DEF TypeInv, TypeOK, NothingRefused, Typed1, Typed2, TypedLink, Outputs2

LEMMA NextParts ==
  /\ Typed1' /\ ~refused1'
  /\ Typed2' /\ output2' \in Seq(Outputs2) /\ ~refused2'
  /\ TypedLink'
  => TypeInv'
BY DEF TypeInv, TypeOK, NothingRefused, Typed1, Typed2, TypedLink, Outputs2

LEMMA SameParts ==
  /\ Typed1 /\ UNCHANGED <<output1, pn_cache, source>> => Typed1'
  /\ Typed2 /\ UNCHANGED <<bank, parameter_number>> => Typed2'
  /\ TypedLink /\ UNCHANGED <<script, link, holds>> => TypedLink'
<1>1. Typed1 /\ UNCHANGED <<output1, pn_cache, source>> => Typed1'
  BY DEF Typed1
<1>2. Typed2 /\ UNCHANGED <<bank, parameter_number>> => Typed2'
  BY DEF Typed2
<1>3. TypedLink /\ UNCHANGED <<script, link, holds>> => TypedLink'
  BY DEF TypedLink
<1> QED  BY <1>1, <1>2, <1>3

LEMMA TailType ==
  ASSUME NEW M, NEW s \in Seq(M), s # <<>>
  PROVE  /\ Head(s) \in M /\ Tail(s) \in Seq(M) /\ Len(Tail(s)) = Len(s) - 1
         /\ Tail(s) = <<>> <=> Len(s) = 1
<1>1. Head(s) \in M /\ Tail(s) \in Seq(M) /\ Len(Tail(s)) = Len(s) - 1
  BY HeadTailProperties
<1> DEFINE t == Tail(s) n == Len(s)
<1>2. t \in Seq(M) /\ n \in Nat /\ Len(t) = n - 1
  BY <1>1
<1> HIDE DEF t, n
<1>3. t = <<>> <=> n = 1
  BY <1>2, EmptySeq
<1> QED  BY <1>1, <1>3 DEF t, n

LEMMA YieldsTyped ==
  ASSUME NEW m \in Messages, Typed1, Yields(m),
         source' = IF output1' = <<>> THEN {} ELSE {m}
  PROVE  Typed1'
<1>1. m \in M1Messages \union M2Messages
  BY LinkAssumption
<1>2. output1' \in Seq(M1Messages)
  <2>1. m \in M2Messages =>
          /\ m.status \in Valued => Narrowed(m) \in M1Messages
          /\ m.status = program_change =>
               /\ Selection(m) \in M1Messages
               /\ m.bank # {} => BankMsb(m) \in M1Messages /\ BankLsb(m) \in M1Messages
          /\ m.status \in {rpn, nrpn} =>
               /\ FirstOf(m) \in M1Messages /\ SecondOf(m) \in M1Messages
               /\ EntryMsb(m) \in M1Messages /\ EntryLsb(m) \in M1Messages
    BY MadeOf
  <2>2. <<>> \in Seq(M1Messages)
    OBVIOUS
  <2>3. \A a, b, c, d \in M1Messages :
          /\ <<a>> \in Seq(M1Messages) /\ <<a, b>> \in Seq(M1Messages)
          /\ <<a, b, c>> \in Seq(M1Messages) /\ <<a, b, c, d>> \in Seq(M1Messages)
    OBVIOUS
  <2> QED  BY <2>1, <2>2, <2>3 DEF Yields
<1>3. \A key \in DOMAIN pn_cache' :
        /\ \E at \in Channels, k \in BOOLEAN : key = PnKey(at, k)
        /\ pn_cache'[key] \in Number7 \X Number7
  <2>1. CASE pn_cache' = pn_cache
    BY <2>1 DEF Typed1
  <2>2. CASE m \in M2Messages /\ m.status \in {rpn, nrpn} /\ Access(KeyOf(m), m.index)
    <3>1. m.at \in Channels /\ m.index \in Number7 \X Number7 /\ (m.status = rpn) \in BOOLEAN
      BY <2>2, Kinds2
    <3>2. \E at \in Channels, k \in BOOLEAN : KeyOf(m) = PnKey(at, k)
      BY <3>1 DEF KeyOf
    <3>3. /\ pn_cache'[KeyOf(m)] = m.index
          /\ \A k \in DOMAIN pn_cache' \ {KeyOf(m)} :
               k \in DOMAIN pn_cache /\ pn_cache'[k] = pn_cache[k]
      BY <2>2, Cached
    <3> QED  BY <3>1, <3>2, <3>3 DEF Typed1
  <2> QED  BY <2>1, <2>2 DEF Yields
<1>4. source' \in Optional(Messages)
  BY OptionalValues
<1>5. source' = {} <=> output1' = <<>>
  OBVIOUS
<1> QED  BY <1>2, <1>3, <1>4, <1>5 DEF Typed1

LEMMA PushTyped ==
  ASSUME TypeInv, NEW m \in Messages, Push(m)
  PROVE  TypeInv'
<1>1. /\ Typed1 /\ ~refused1 /\ Typed2 /\ output2 \in Seq(Outputs2) /\ ~refused2 /\ TypedLink
  BY TypeInvParts
<1>2. /\ output1 = <<>> /\ Push1(m) /\ source' = IF output1' = <<>> THEN {} ELSE {m}
      /\ UNCHANGED <<bank, parameter_number, output2, refused2, script, link, holds>>
  BY DEF Push, vars2
<1>3. ~refused1' /\ Yields(m)
  BY <1>1, <1>2, Pushed1, LinkAssumption DEF AnyMessages
<1>4. Typed1'
  BY <1>1, <1>2, <1>3, YieldsTyped
<1>5. Typed2' /\ TypedLink' /\ output2' \in Seq(Outputs2) /\ ~refused2'
  BY <1>1, <1>2, SameParts
<1> QED  BY <1>3, <1>4, <1>5, NextParts

LEMMA ForwardTyped ==
  ASSUME TypeInv, Forward
  PROVE  TypeInv'
<1>1. /\ Typed1 /\ ~refused1 /\ Typed2 /\ output2 \in Seq(Outputs2) /\ ~refused2 /\ TypedLink
  BY TypeInvParts
<1>2. /\ output1 # <<>> /\ output1' = Tail(output1) /\ Carry(Head(output1))
      /\ UNCHANGED <<pn_cache, refused1, bank, parameter_number, output2, refused2, script>>
      /\ Len(output1) = 1 => source' = {}
      /\ Len(output1) # 1 => source' = source
  BY DEF Forward, Pop1, vars2
<1>3. Head(output1) \in M1Messages /\ output1' \in Seq(M1Messages)
      /\ (output1' = <<>> <=> Len(output1) = 1)
  BY <1>1, <1>2, TailType DEF Typed1
<1>4. Typed1'
  <2>1. source' \in Optional(Messages) /\ (source' = {} <=> output1' = <<>>)
    BY <1>1, <1>2, <1>3, OptionalValues DEF Typed1
  <2> QED  BY <1>1, <1>2, <1>3, <2>1 DEF Typed1
<1>5. TypedLink'
  BY <1>1, <1>2, <1>3, Carried DEF TypedLink
<1>6. Typed2' /\ output2' \in Seq(Outputs2) /\ ~refused2' /\ ~refused1'
  BY <1>1, <1>2, SameParts
<1> QED  BY <1>4, <1>5, <1>6, NextParts

LEMMA DeviceTyped ==
  ASSUME TypeInv, (\E t \in Transactions : DeviceBegins(t)) \/ DeviceSends
  PROVE  TypeInv'
<1>1. /\ Typed1 /\ ~refused1 /\ Typed2 /\ output2 \in Seq(Outputs2) /\ ~refused2 /\ TypedLink
  BY TypeInvParts
<1>2. UNCHANGED <<output1, pn_cache, source, refused1, bank, parameter_number, output2,
                  refused2>>
  BY DEF DeviceBegins, DeviceSends, vars1, vars2
<1>3. TypedLink'
  <2>1. ASSUME NEW t \in Transactions, DeviceBegins(t)
        PROVE  TypedLink'
    <3>1. script' = t /\ UNCHANGED <<link, holds>>
      BY <2>1 DEF DeviceBegins
    <3>2. t \in Seq(M1Messages)
      BY LinkAssumption
    <3> QED  BY <1>1, <3>1, <3>2 DEF TypedLink
  <2>2. CASE DeviceSends
    <3>1. script # <<>> /\ script' = Tail(script) /\ Carry(Head(script))
      BY <2>2 DEF DeviceSends
    <3>2. Head(script) \in M1Messages /\ script' \in Seq(M1Messages)
      BY <1>1, <3>1, TailType DEF TypedLink
    <3> QED  BY <1>1, <3>1, <3>2, Carried DEF TypedLink
  <2> QED  BY <2>1, <2>2
<1>4. Typed1' /\ ~refused1' /\ Typed2' /\ output2' \in Seq(Outputs2) /\ ~refused2'
  BY <1>1, <1>2, SameParts
<1> QED  BY <1>3, <1>4, NextParts

LEMMA FarEndTyped ==
  ASSUME TypeInv, Receive \/ Deliver
  PROVE  TypeInv'
<1>1. /\ Typed1 /\ ~refused1 /\ Typed2 /\ output2 \in Seq(Outputs2) /\ ~refused2 /\ TypedLink
  BY TypeInvParts
<1>2. UNCHANGED <<output1, pn_cache, source, refused1, script, holds>>
  BY DEF Receive, Deliver, vars1
<1>3. Typed1' /\ ~refused1'
  BY <1>1, <1>2, SameParts
<1>4. CASE Receive
  <2>1. link # <<>> /\ output2 = <<>> /\ Push2(Head(link)) /\ link' = Tail(link)
    BY <1>4 DEF Receive
  <2>2. Head(link) \in M1Messages /\ link' \in Seq(M1Messages)
    BY <1>1, <2>1, TailType DEF TypedLink
  <2>3. TypedLink'
    BY <1>1, <1>2, <2>2 DEF TypedLink
  <2>4. Typed2' /\ output2' \in Seq(Outputs2) /\ ~refused2'
    BY <1>1, <2>1, <2>2, Pushed2
  <2> QED  BY <1>3, <2>3, <2>4, NextParts
<1>5. CASE Deliver
  <2>1. /\ output2 # <<>> /\ output2' = Tail(output2)
        /\ UNCHANGED <<bank, parameter_number, refused2, link>>
    BY <1>5 DEF Deliver, Pop2
  <2>2. output2' \in Seq(Outputs2) /\ ~refused2'
    BY <1>1, <2>1, TailType
  <2>3. Typed2' /\ TypedLink'
    BY <1>1, <1>2, <2>1, SameParts
  <2> QED  BY <1>3, <2>2, <2>3, NextParts
<1> QED  BY <1>4, <1>5

LEMMA ResetTyped ==
  ASSUME TypeInv, ResetSender \/ ResetAll
  PROVE  TypeInv'
<1>1. /\ Typed1 /\ ~refused1 /\ Typed2 /\ output2 \in Seq(Outputs2) /\ ~refused2 /\ TypedLink
  BY TypeInvParts
<1>2. pn_cache' = <<>> /\ output1' = <<>> /\ UNCHANGED <<refused1, script, link>>
  BY DEF ResetSender, ResetAll, Reset1, PnCache!Clear
<1>3. source' = {}
  BY <1>1 DEF ResetSender, ResetAll, Typed1
<1>4. Typed1' /\ ~refused1'
  <2>1. output1' \in Seq(M1Messages) /\ DOMAIN pn_cache' = {}
    BY <1>2
  <2>2. source' \in Optional(Messages) /\ (source' = {} <=> output1' = <<>>)
    BY <1>2, <1>3, OptionalValues
  <2> QED  BY <1>1, <1>2, <2>1, <2>2 DEF Typed1
<1>5. CASE ResetSender
  <2>1. UNCHANGED <<bank, parameter_number, output2, refused2, holds>>
    BY <1>5 DEF ResetSender, vars2
  <2>2. Typed2' /\ TypedLink' /\ output2' \in Seq(Outputs2) /\ ~refused2'
    BY <1>1, <1>2, <2>1, SameParts
  <2> QED  BY <1>4, <2>2, NextParts
<1>6. CASE ResetAll
  <2>1. /\ output2' = <<>> /\ UNCHANGED refused2
        /\ bank' = [at \in Channels |-> NoBank]
        /\ parameter_number' = [at \in Channels |-> Forgotten(parameter_number[at])]
        /\ holds' = [at \in Channels |-> Unaware]
    BY <1>6 DEF ResetAll, Reset2
  <2>2. Typed2'
    BY <1>1, <2>1, ContextTypes DEF Typed2
  <2>3. TypedLink'
    BY <1>1, <1>2, <2>1, UnawareType DEF TypedLink
  <2>4. output2' \in Seq(Outputs2) /\ ~refused2'
    BY <1>1, <2>1
  <2> QED  BY <1>4, <2>2, <2>3, <2>4, NextParts
<1> QED  BY <1>5, <1>6

LEMMA NextTyped == TypeInv /\ [Next]_vars => TypeInv'
<1> SUFFICES ASSUME TypeInv, [Next]_vars PROVE TypeInv'
  OBVIOUS
<1>1. CASE UNCHANGED vars
  <2>1. UNCHANGED <<output1, output2, script, link, pn_cache, bank, parameter_number, holds,
                    source, refused1, refused2>>
    BY <1>1 DEF vars, vars1, vars2, environment
  <2> QED  BY <2>1 DEF TypeInv, TypeOK, NothingRefused
<1>2. CASE Next
  BY <1>2, PushTyped, ForwardTyped, DeviceTyped, FarEndTyped, ResetTyped DEF Next
<1> QED  BY <1>1, <1>2

(* The fields of all messages have their width, those of the scaled values too;   *)
(* the cache has numbers of channels; to_midi1 holds output exactly while a       *)
(* message is under way.                                                          *)
THEOREM LinkTypes == Spec => []TypeOK
<1>1. TypeInv => TypeOK
  BY DEF TypeInv
<1> QED  BY <1>1, InitTyped, NextTyped, PTL DEF Spec

(* The output FIFO of to_midi1 and that of ump_to_midi2 take all that one message  *)
(* yields: their word counts of four are enough for every message.                *)
THEOREM FifosSuffice == Spec => []NothingRefused
<1>1. TypeInv => NothingRefused
  BY DEF TypeInv
<1> QED  BY <1>1, InitTyped, NextTyped, PTL DEF Spec

-------------------------------------------------------------------------------
(* What a receiver makes of the messages of to_midi1.                            *)

LEMMA KnowsFields ==
  ASSUME NEW banks, NEW parameter, NEW pending, NEW value_msb
  PROVE  LET h == Knows(banks, parameter, pending, value_msb)
         IN  /\ h.bank = banks /\ h.parameter = parameter /\ h.pending = pending
             /\ h.value_msb = value_msb
BY DEF Knows

LEMMA ControlFields ==
  ASSUME NEW at, NEW c, NEW v
  PROVE  LET m == Control(at, c, v)
         IN  /\ m.mt = MT_M1CVM /\ m.status = control_change
             /\ m.at = at /\ m.index = c /\ m.value = v /\ IsVoice(m)
BY DEF Control, Voice, IsVoice

LEMMA VoiceFields ==
  ASSUME NEW mt, NEW status, NEW at, NEW index, NEW value
  PROVE  LET m == Voice(mt, status, at, index, value)
         IN  /\ m.mt = mt /\ m.status = status
             /\ m.at = at /\ m.index = index /\ m.value = value
BY DEF Voice

LEMMA ToldBank ==
  ASSUME NEW h, NEW at, NEW v
  PROVE  /\ LET k == Told(h, Control(at, bank_select, v))
            IN  k.bank[1] = {v} /\ k.parameter = h.parameter /\ k.pending = h.pending
         /\ LET k == Told(h, Control(at, bank_select_lsb, v))
            IN  /\ k.bank[1] = h.bank[1] /\ k.bank[2] = {v}
                /\ k.parameter = h.parameter /\ k.pending = h.pending
<1>1. Told(h, Control(at, bank_select, v))
        = Knows(<<{v}, h.bank[2]>>, h.parameter, h.pending, h.value_msb)
  <2> DEFINE m == Control(at, bank_select, v)
  <2>1. /\ m.mt = MT_M1CVM /\ m.status = control_change /\ m.value = v
        /\ m.index = bank_select
    BY ControlFields
  <2> HIDE DEF m
  <2> QED  BY <2>1 DEF Told, m
<1>2. Told(h, Control(at, bank_select_lsb, v))
        = Knows(<<h.bank[1], {v}>>, h.parameter, h.pending, h.value_msb)
  <2> DEFINE m == Control(at, bank_select_lsb, v)
  <2>1. /\ m.mt = MT_M1CVM /\ m.status = control_change /\ m.value = v
        /\ m.index = bank_select_lsb
    BY ControlFields
  <2> HIDE DEF m
  <2>2. m.index # bank_select
    BY <2>1, ControlNumbers, Zenon
  <2> QED  BY <2>1, <2>2 DEF Told, m
<1> QED  BY <1>1, <1>2, KnowsFields

LEMMA ToldNumber ==
  ASSUME NEW h, NEW at, NEW v, NEW kind \in {rpn, nrpn}
  PROVE  /\ Told(h, Control(at, IF kind = rpn THEN rpn_msb ELSE nrpn_msb, v)).pending
              = {<<kind, v>>}
         /\ \A w : h.pending = {<<kind, w>>} =>
              LET k == Told(h, Control(at, IF kind = rpn THEN rpn_lsb ELSE nrpn_lsb, v))
              IN  k.parameter = {<<kind, <<w, v>>>>} \ {NullRpn} /\ k.pending = {}
<1>1. /\ bank_select \notin {rpn_msb, nrpn_msb, rpn_lsb, nrpn_lsb}
      /\ bank_select_lsb \notin {rpn_msb, nrpn_msb, rpn_lsb, nrpn_lsb}
      /\ rpn_lsb \notin {rpn_msb, nrpn_msb} /\ nrpn_lsb \notin {rpn_msb, nrpn_msb}
      /\ rpn_lsb # nrpn_lsb
  BY ControlNumbers, Zenon
<1>2. ASSUME NEW c \in {rpn_msb, nrpn_msb}
      PROVE  Told(h, Control(at, c, v))
               = Knows(h.bank, {}, {<<IF c = rpn_msb THEN rpn ELSE nrpn, v>>}, h.value_msb)
  <2> DEFINE m == Control(at, c, v)
  <2>1. m.mt = MT_M1CVM /\ m.status = control_change /\ m.value = v /\ m.index = c
    BY ControlFields
  <2> HIDE DEF m
  <2>2. m.index # bank_select /\ m.index # bank_select_lsb /\ m.index \in {rpn_msb, nrpn_msb}
    BY <1>1, <2>1, Zenon
  <2>3. KindOf(m) = IF c = rpn_msb THEN rpn ELSE nrpn
    BY <2>1, KindOfControl
  <2> QED  BY <2>1, <2>2, <2>3 DEF Told, m
<1>3. ASSUME NEW c \in {rpn_lsb, nrpn_lsb}
      PROVE  Told(h, Control(at, c, v))
               = Knows(h.bank, {<<q[1], <<q[2], v>>>> : q \in h.pending} \ {NullRpn}, {}, {})
  <2> DEFINE m == Control(at, c, v)
  <2>1. m.mt = MT_M1CVM /\ m.status = control_change /\ m.value = v /\ m.index = c
    BY ControlFields
  <2> HIDE DEF m
  <2>2. /\ m.index # bank_select /\ m.index # bank_select_lsb
        /\ m.index \notin {rpn_msb, nrpn_msb} /\ m.index \in {rpn_lsb, nrpn_lsb}
    BY <1>1, <2>1, Zenon
  <2> QED  BY <2>1, <2>2 DEF Told, m
<1>4. rpn_msb # nrpn_msb
  BY ControlNumbers, Zenon
<1>8. rpn # nrpn
  BY DEF rpn, nrpn
<1>5. Told(h, Control(at, IF kind = rpn THEN rpn_msb ELSE nrpn_msb, v)).pending
        = {<<kind, v>>}
  <2>1. CASE kind = rpn
    BY <1>2, <2>1, KnowsFields
  <2>2. CASE kind = nrpn
    BY <1>2, <1>4, <1>8, <2>2, KnowsFields
  <2> QED  BY <2>1, <2>2
<1>6. ASSUME NEW w, h.pending = {<<kind, w>>},
             NEW c \in {rpn_lsb, nrpn_lsb}
      PROVE  /\ Told(h, Control(at, c, v)).parameter = {<<kind, <<w, v>>>>} \ {NullRpn}
             /\ Told(h, Control(at, c, v)).pending = {}
  <2>1. {<<q[1], <<q[2], v>>>> : q \in h.pending} = {<<kind, <<w, v>>>>}
    BY <1>6
  <2> QED  BY <1>3, <2>1, KnowsFields
<1>7. (IF kind = rpn THEN rpn_lsb ELSE nrpn_lsb) \in {rpn_lsb, nrpn_lsb}
  OBVIOUS
<1> QED  BY <1>5, <1>6, <1>7

LEMMA ToldEntry ==
  ASSUME NEW h, NEW at, NEW v
  PROVE  /\ LET k == Told(h, Control(at, data_entry_msb, v))
            IN  /\ k.value_msb = {v}
                /\ k.parameter = h.parameter /\ k.pending = h.pending
         /\ Told(h, Control(at, data_entry_lsb, v)) = h
<1>1. /\ bank_select \notin {data_entry_msb, data_entry_lsb}
      /\ bank_select_lsb \notin {data_entry_msb, data_entry_lsb}
      /\ data_entry_msb \notin {rpn_msb, nrpn_msb, rpn_lsb, nrpn_lsb}
      /\ data_entry_lsb \notin {rpn_msb, nrpn_msb, rpn_lsb, nrpn_lsb}
      /\ data_entry_msb # data_entry_lsb
      /\ reset_all_controllers \notin {data_entry_msb, data_entry_lsb}
  BY ControlNumbers, Zenon
<1>2. Told(h, Control(at, data_entry_msb, v))
        = Knows(h.bank, h.parameter, h.pending, {v})
  <2> DEFINE m == Control(at, data_entry_msb, v)
  <2>1. /\ m.mt = MT_M1CVM /\ m.status = control_change /\ m.value = v
        /\ m.index = data_entry_msb
    BY ControlFields
  <2> HIDE DEF m
  <2>2. /\ m.index # bank_select /\ m.index # bank_select_lsb
        /\ m.index \notin {rpn_msb, nrpn_msb}
        /\ m.index # rpn_lsb /\ m.index # nrpn_lsb
    BY <1>1, <2>1, Zenon
  <2> QED  BY <2>1, <2>2 DEF Told, m
<1>3. Told(h, Control(at, data_entry_lsb, v)) = h
  <2> DEFINE m == Control(at, data_entry_lsb, v)
  <2>1. m.index = data_entry_lsb
    BY ControlFields
  <2> HIDE DEF m
  <2>2. /\ m.index # bank_select /\ m.index # bank_select_lsb
        /\ m.index \notin {rpn_msb, nrpn_msb}
        /\ m.index # rpn_lsb /\ m.index # nrpn_lsb
        /\ m.index # data_entry_msb /\ m.index # reset_all_controllers
    BY <1>1, <2>1, Zenon
  <2> QED  BY <2>2 DEF Told, m
<1> QED  BY <1>2, <1>3, KnowsFields

LEMMA ToldNothing ==
  ASSUME NEW h, NEW m, ~IsControl(m, Controls)
  PROVE  Told(h, m) = h
BY DEF Told, IsControl, Controls

LEMMA MeantByMessage ==
  ASSUME NEW h, NEW m, m.mt = MT_M1CVM \/ Meaningful(m), ~IsControl(m, Controls)
  PROVE  /\ Len(Meant(h, m)) = 1
         /\ m.mt = MT_M1CVM /\ m.status = program_change =>
              Meant(h, m) = <<Program(MT_M2CVM, m.at, m.index, h.bank[1] \X h.bank[2])>>
         /\ m.mt = MT_M1CVM /\ m.status # program_change =>
              Meant(h, m) = <<Voice(MT_M2CVM, m.status, m.at, m.index, m.value)>>
<1>1. /\ ~IsControl(m, {data_entry_lsb})
      /\ ~IsControl(m, Controls \ {reset_all_controllers})
  BY DEF IsControl, Controls
<1> QED  BY <1>1 DEF Meant

LEMMA MeantByEntry ==
  ASSUME NEW h, NEW at, NEW hi, NEW lo, NEW kind, NEW number,
         h.parameter = {<<kind, number>>} \ {NullRpn}, h.value_msb = {hi}
  PROVE  Meant(h, Control(at, data_entry_lsb, lo)) =
           IF <<kind, number>> = NullRpn THEN <<>>
           ELSE <<Voice(MT_M2CVM, kind, at, number, Joined(hi, lo))>>
<1> DEFINE m == Control(at, data_entry_lsb, lo)
           S == {Voice(MT_M2CVM, k[1][1], at, k[1][2], Joined(k[2], lo)) :
                   k \in h.parameter \X h.value_msb}
<1>1. Meant(h, m) = Listed(S)
  <2>1. /\ m.status # program_change /\ m.mt = MT_M1CVM
        /\ IsControl(m, {data_entry_lsb})
    BY ControlFields DEF control_change, program_change, IsControl
  <2>2. m.at = at /\ m.value = lo
    BY ControlFields
  <2> HIDE DEF m
  <2> QED  BY <2>1, <2>2 DEF Meant
<1>2. CASE <<kind, number>> = NullRpn
  <2>1. S = {}
    BY <1>2
  <2> HIDE DEF S
  <2> QED  BY <1>1, <1>2, <2>1 DEF Listed
<1>3. CASE <<kind, number>> # NullRpn
  <2> DEFINE x == Voice(MT_M2CVM, kind, at, number, Joined(hi, lo))
  <2> DEFINE y == <<<<kind, number>>, hi>>
  <2>1. h.parameter \X h.value_msb = {y}
    BY <1>3
  <2>2. S = {x}
    <3>1. y[1][1] = kind /\ y[1][2] = number /\ y[2] = hi
      OBVIOUS
    <3> HIDE DEF y
    <3>2. S = {Voice(MT_M2CVM, k[1][1], at, k[1][2], Joined(k[2], lo)) : k \in {y}}
      BY <2>1
    <3>3. S = {Voice(MT_M2CVM, y[1][1], at, y[1][2], Joined(y[2], lo))}
      BY <3>2, Zenon
    <3> QED  BY <3>1, <3>3
  <2> HIDE DEF S, x
  <2>3. Listed(S) = <<x>>
    BY <2>2, OnlyOne
  <2> QED  BY <1>1, <1>3, <2>3 DEF x
<1> QED  BY <1>2, <1>3

-------------------------------------------------------------------------------
(* What the receiver knows of the message that is under way, and of the numbers   *)
(* in the cache.                                                                 *)

Parameters == {m \in Messages : IsParameter(m)}
Entry(s)   == Scale(32, 14, s.value)

\* What remains to be sent for message s, when the receiver knows h.
ProgramLeft(s, h, out) ==
  \/ s.bank # {} /\ out = <<BankMsb(s), BankLsb(s), Selection(s)>>
  \/ s.bank # {} /\ out = <<BankLsb(s), Selection(s)>> /\ h.bank[1] = {Only(s.bank)[1]}
  \/ /\ out = <<Selection(s)>>
     /\ s.bank # {} => h.bank[1] = {Only(s.bank)[1]} /\ h.bank[2] = {Only(s.bank)[2]}

ParameterLeft(s, h, out) ==
  \/ out = <<FirstOf(s), SecondOf(s), EntryMsb(s), EntryLsb(s)>>
  \/ out = <<SecondOf(s), EntryMsb(s), EntryLsb(s)>> /\ h.pending = {<<s.status, s.index[1]>>}
  \/ out = <<EntryMsb(s), EntryLsb(s)>>
  \/ out = <<EntryLsb(s)>> /\ h.value_msb = {Hi7(Entry(s))}

Left(s) ==
  \/ /\ s \in M1Messages /\ s.mt \in {MT_SYSTEM, MT_M1CVM, MT_DATA64}
     /\ Handled(s) /\ output1 = <<s>>
  \/ s \in M2Messages /\ s.status \in Valued /\ output1 = <<Narrowed(s)>>
  \/ /\ s \in M2Messages /\ s.status = program_change
     /\ ProgramLeft(s, holds[s.at], output1)
  \/ /\ s \in Parameters
     /\ KeyOf(s) \in DOMAIN pn_cache /\ pn_cache[KeyOf(s)] = s.index
     /\ ParameterLeft(s, holds[s.at], output1)

\* The receiver has the number that is in the cache, or is being told it.
Has(p, number) ==
  holds[p.at].parameter = {<<p.status, number>>} \ {NullRpn} /\ holds[p.at].pending = {}
Settled(p) ==
  \/ Has(p, pn_cache[KeyOf(p)])
  \/ Len(output1) > 2 /\ \E s \in source : s \in Parameters /\ s.at = p.at

Apart(t) == \A m \in Messages : \A i \in DOMAIN t :
              IsVoice(m) /\ IsVoice(t[i]) => m.at # t[i].at

\* The same number is selected, and the same part of one is pending.
SameNumber(k, h) == k.parameter = h.parameter /\ k.pending = h.pending

SenderInv ==
  /\ Apart(script)
  /\ \A p \in Parameters : KeyOf(p) \in DOMAIN pn_cache => Settled(p)
  /\ \A s \in source : Left(s)
  /\ MeaningSurvives

LEMMA ParameterFields ==
  ASSUME NEW p \in Parameters
  PROVE  /\ p \in Messages /\ p \in M2Messages /\ p.status \in {rpn, nrpn} /\ IsVoice(p)
         /\ p.at \in Channels /\ p.index \in Number7 \X Number7
         /\ p.value \in SUBSET (0 .. 31)
         /\ p.mt = MT_M2CVM
<1>1. p \in Messages /\ p.mt = MT_M2CVM /\ p.status \in {rpn, nrpn}
  BY DEF Parameters, IsParameter
<1>2. p \in M2Messages
  BY <1>1, Kinds1, LinkAssumption
<1> QED  BY <1>1, <1>2, Kinds2 DEF IsVoice

LEMMA KeyInjective ==
  ASSUME NEW p \in Parameters, NEW q \in Parameters, KeyOf(p) = KeyOf(q)
  PROVE  p.at = q.at /\ p.status = q.status
<1>1. /\ p.at \in (0 .. 15) \X (0 .. 15) /\ q.at \in (0 .. 15) \X (0 .. 15)
      /\ p.status \in {rpn, nrpn} /\ q.status \in {rpn, nrpn}
  BY ParameterFields, LinkAssumption
<1> DEFINE a == p.at[1] b == p.at[2] c == q.at[1] d == q.at[2]
<1>2. /\ a \in 0 .. 15 /\ b \in 0 .. 15 /\ c \in 0 .. 15 /\ d \in 0 .. 15
      /\ p.at = <<a, b>> /\ q.at = <<c, d>>
  BY <1>1
<1>3. a + 16 * b + (IF p.status = rpn THEN 256 ELSE 0)
        = c + 16 * d + (IF q.status = rpn THEN 256 ELSE 0)
  BY DEF KeyOf, PnKey
<1> HIDE DEF a, b, c, d
<1>4. (p.status = rpn) <=> (q.status = rpn)
  BY <1>2, <1>3
<1>5. a = c /\ b = d
  BY <1>2, <1>3, <1>4
<1> QED  BY <1>1, <1>2, <1>4, <1>5

\* Nothing that the sender believes changes when nobody writes to its channels.
LEMMA SenderSame ==
  ASSUME SenderInv, Apart(script)', applied' = <<>>,
         UNCHANGED <<pn_cache, output1, source>>,
         \A m \in Messages : IsVoice(m) => holds'[m.at] = holds[m.at],
         source \subseteq Messages
  PROVE  SenderInv'
<1>1. ASSUME NEW p \in Parameters, KeyOf(p) \in DOMAIN pn_cache'
      PROVE  Settled(p)'
  <2>1. Settled(p) /\ holds'[p.at] = holds[p.at]
    BY <1>1, ParameterFields DEF SenderInv
  <2> QED  BY <2>1 DEF Settled, Has
<1>2. ASSUME NEW s \in source'
      PROVE  Left(s)'
  <2>1. Left(s) /\ s \in Messages
    BY <1>2 DEF SenderInv
  <2>2. s \in M2Messages => holds'[s.at] = holds[s.at]
    BY <2>1, Kinds2 DEF IsVoice
  <2>3. s \in Parameters => holds'[s.at] = holds[s.at]
    BY ParameterFields
  <2> QED  BY <2>1, <2>2, <2>3 DEF Left
<1>3. MeaningSurvives'
  BY DEF MeaningSurvives
<1> QED  BY <1>1, <1>2, <1>3 DEF SenderInv

LEMMA PushSender ==
  ASSUME TypeInv, SenderInv, NEW m \in Messages, Push(m)
  PROVE  SenderInv'
<1>1. /\ output1 = <<>> /\ Push1(m) /\ source' = IF output1' = <<>> THEN {} ELSE {m}
      /\ script' = script /\ holds' = holds /\ applied' = <<>>
  BY DEF Push, Quiet
<1>2. source = {} /\ ~refused1
  BY <1>1 DEF TypeInv, TypeOK, NothingRefused
<1>3. Yields(m)
  BY <1>1, <1>2, Pushed1, LinkAssumption DEF AnyMessages
<1>4. Apart(script)' /\ MeaningSurvives'
  BY <1>1 DEF SenderInv, Apart, MeaningSurvives
<1>5. \A p \in Parameters : KeyOf(p) \in DOMAIN pn_cache => Has(p, pn_cache[KeyOf(p)])
  BY <1>2 DEF SenderInv, Settled
<1>6. \A p : \A n : Has(p, n) => Has(p, n)'
  BY <1>1 DEF Has
<1>7. UNCHANGED pn_cache => \A p \in Parameters : KeyOf(p) \in DOMAIN pn_cache' => Settled(p)'
  BY <1>5, <1>6 DEF Settled
<1>8. \A s \in source' : s = m /\ output1' # <<>>
  BY <1>1
<1>9. CASE output1' = <<>> /\ UNCHANGED pn_cache
  BY <1>4, <1>7, <1>8, <1>9 DEF SenderInv
<1>10. CASE /\ m.mt \in {MT_SYSTEM, MT_M1CVM, MT_DATA64} /\ m \in M1Messages
            /\ Handled(m) /\ output1' = <<m>> /\ UNCHANGED pn_cache
  <2>1. \A s \in source' : Left(s)'
    BY <1>8, <1>10 DEF Left
  <2> QED  BY <1>4, <1>7, <1>10, <2>1 DEF SenderInv
<1>11. CASE /\ m \in M2Messages /\ m.status \in Valued
            /\ output1' = <<Narrowed(m)>> /\ UNCHANGED pn_cache
  <2>1. \A s \in source' : Left(s)'
    BY <1>8, <1>11 DEF Left
  <2> QED  BY <1>4, <1>7, <1>11, <2>1 DEF SenderInv
<1>12. CASE /\ m \in M2Messages /\ m.status = program_change /\ UNCHANGED pn_cache
            /\ IF m.bank = {} THEN output1' = <<Selection(m)>>
               ELSE output1' = <<BankMsb(m), BankLsb(m), Selection(m)>>
  <2>1. \A s \in source' : Left(s)'
    BY <1>8, <1>12 DEF Left, ProgramLeft
  <2> QED  BY <1>4, <1>7, <1>12, <2>1 DEF SenderInv
<1>13. CASE /\ m \in M2Messages /\ m.status \in {rpn, nrpn} /\ Access(KeyOf(m), m.index)
            /\ IF pn_access'.called
               THEN output1' = <<FirstOf(m), SecondOf(m), EntryMsb(m), EntryLsb(m)>>
               ELSE output1' = <<EntryMsb(m), EntryLsb(m)>>
  <2>1. m \in Parameters
    BY <1>13, Kinds2 DEF Parameters, IsParameter
  <2>2. /\ KeyOf(m) \in DOMAIN pn_cache' /\ pn_cache'[KeyOf(m)] = m.index
        /\ \A k \in DOMAIN pn_cache' \ {KeyOf(m)} :
             k \in DOMAIN pn_cache /\ pn_cache'[k] = pn_cache[k]
        /\ \/ pn_access'.called = TRUE
           \/ /\ pn_access'.called = FALSE
              /\ KeyOf(m) \in DOMAIN pn_cache /\ pn_cache[KeyOf(m)] = m.index
    BY <1>13, Cached
  <2>3. source' = {m}
    <3>1. output1' # <<>>
      BY <1>13
    <3> QED  BY <1>1, <3>1
  <2>4. \A s \in source' : Left(s)'
    BY <1>13, <2>1, <2>2, <2>3 DEF Left, ParameterLeft
  <2>5. ASSUME NEW p \in Parameters, KeyOf(p) \in DOMAIN pn_cache'
        PROVE  Settled(p)'
    <3>1. CASE KeyOf(p) # KeyOf(m)
      <4>1. KeyOf(p) \in DOMAIN pn_cache /\ pn_cache'[KeyOf(p)] = pn_cache[KeyOf(p)]
        BY <2>2, <2>5, <3>1
      <4> QED  BY <1>5, <1>6, <4>1 DEF Settled
    <3>2. CASE KeyOf(p) = KeyOf(m) /\ pn_access'.called = TRUE
      <4>1. p.at = m.at
        BY <2>1, <3>2, KeyInjective
      <4>2. Len(output1') = 4
        BY <1>13, <3>2
      <4> QED  BY <2>1, <2>3, <4>1, <4>2 DEF Settled
    <3>3. CASE KeyOf(p) = KeyOf(m) /\ pn_access'.called = FALSE
      <4>1. KeyOf(p) \in DOMAIN pn_cache /\ pn_cache'[KeyOf(p)] = pn_cache[KeyOf(p)]
        BY <2>2, <3>3
      <4> QED  BY <1>5, <1>6, <4>1 DEF Settled
    <3> QED  BY <2>2, <3>1, <3>2, <3>3
  <2> QED  BY <1>4, <2>4, <2>5 DEF SenderInv
<1> QED  BY <1>3, <1>9, <1>10, <1>11, <1>12, <1>13 DEF Yields

\* The client of to_midi1 puts message x, the next of those for message s, on the link.
Forwards(s, x) ==
  /\ source = {s} /\ s \in Messages
  /\ x = Head(output1) /\ output1' = Tail(output1)
  /\ UNCHANGED <<pn_cache, script>>
  /\ \A at \in Channels :
       holds'[at] = IF IsVoice(x) /\ x.at = at THEN Told(holds[at], x) ELSE holds[at]
  /\ IF Len(output1) = 1 THEN source' = {} /\ applied' = <<s, MeantNow(x)>>
     ELSE source' = {s} /\ applied' = <<>>

LEMMA ForwardParts ==
  ASSUME TypeInv, Forward
  PROVE  \E s : Forwards(s, Head(output1))
<1>1. /\ output1 \in Seq(M1Messages) /\ output1 # <<>> /\ source \in Optional(Messages)
      /\ holds \in [Channels -> Receivers] /\ source # {}
  BY DEF Forward, Pop1, TypeInv, TypeOK
<1>2. PICK s \in Messages : source = {s}
  BY <1>1, OptionalValues
<1> DEFINE x == Head(output1)
<1>3. x \in M1Messages
  BY <1>1, TailType
<1>4. /\ output1' = Tail(output1) /\ UNCHANGED <<pn_cache, script>> /\ Carry(x)
      /\ IF Len(output1) = 1 THEN source' = {} /\ applied' = <<s, MeantNow(x)>>
         ELSE source' = {s} /\ applied' = <<>>
  <2>1. /\ output1' = Tail(output1) /\ UNCHANGED <<pn_cache, script>> /\ Carry(x)
        /\ IF Len(output1) = 1
           THEN \E r \in source : source' = {} /\ applied' = <<r, MeantNow(x)>>
           ELSE UNCHANGED source /\ applied' = <<>>
    BY DEF Forward, Pop1
  <2> HIDE DEF x
  <2> QED  BY <1>2, <2>1
<1> HIDE DEF x
<1>5. IsVoice(x) => x.at \in Channels
  BY <1>3, Kinds1 DEF IsVoice
<1>6. holds' = IF IsVoice(x) THEN [holds EXCEPT ![x.at] = Told(holds[x.at], x)] ELSE holds
  BY <1>4 DEF Carry
<1>7. \A at \in Channels :
        holds'[at] = IF IsVoice(x) /\ x.at = at THEN Told(holds[at], x) ELSE holds[at]
  BY <1>1, <1>5, <1>6
<1>8. Forwards(s, x)
  BY <1>2, <1>4, <1>7 DEF Forwards, x
<1> QED  BY <1>8 DEF x

\* With the last message for s the receiver has what it had before, ...
LEMMA LastForwarded ==
  ASSUME SenderInv, NEW s, NEW x, Forwards(s, x), Len(output1) = 1,
         Conveyed(s, MeantNow(x)),
         \A at \in Channels : SameNumber(holds'[at], holds[at])
  PROVE  SenderInv'
<1>1. source' = {} /\ applied' = <<s, MeantNow(x)>> /\ UNCHANGED <<pn_cache, script>>
  BY DEF Forwards
<1>2. Apart(script)' /\ MeaningSurvives'
  BY <1>1 DEF SenderInv, Apart, MeaningSurvives
<1>3. ASSUME NEW p \in Parameters, KeyOf(p) \in DOMAIN pn_cache'
      PROVE  Settled(p)'
  <2>1. Has(p, pn_cache[KeyOf(p)])
    BY <1>1, <1>3 DEF SenderInv, Settled
  <2> QED  BY <1>1, <2>1, ParameterFields DEF Settled, Has, SameNumber
<1> QED  BY <1>1, <1>2, <1>3 DEF SenderInv

\* ... and with another one too, unless it is part of a parameter number.
LEMMA AnotherForwarded ==
  ASSUME SenderInv, NEW s, NEW x, Forwards(s, x), Len(output1) # 1,
         Left(s)', s \in Parameters => Len(output1) = 2,
         \A at \in Channels : SameNumber(holds'[at], holds[at])
  PROVE  SenderInv'
<1>1. source' = {s} /\ applied' = <<>> /\ UNCHANGED <<pn_cache, script>>
  BY DEF Forwards
<1>2. Apart(script)' /\ MeaningSurvives'
  BY <1>1 DEF SenderInv, Apart, MeaningSurvives
<1>3. ASSUME NEW p \in Parameters, KeyOf(p) \in DOMAIN pn_cache'
      PROVE  Settled(p)'
  <2>1. Has(p, pn_cache[KeyOf(p)])
    <3>1. Settled(p)
      BY <1>1, <1>3 DEF SenderInv
    <3>2. ~(Len(output1) > 2 /\ \E r \in source : r \in Parameters /\ r.at = p.at)
      <4>1. source = {s}
        BY DEF Forwards
      <4>2. ASSUME s \in Parameters
            PROVE  ~(Len(output1) > 2)
        <5>1. Len(output1) = 2
          BY <4>2
        <5> QED  BY <5>1
      <4> QED  BY <4>1, <4>2, Zenon
    <3> QED  BY <1>1, <3>1, <3>2 DEF Settled
  <2> QED  BY <1>1, <2>1, ParameterFields DEF Settled, Has, SameNumber
<1> QED  BY <1>1, <1>2, <1>3 DEF SenderInv

LEMMA NotControls ==
  ASSUME Disciplined(Messages, Transactions), NEW s \in Messages,
         NEW x, IsVoice(s), x.status = s.status, x.index = s.index
  PROVE  ~IsControl(x, Controls)
BY DEF Disciplined, IsControl

LEMMA PassForwarded ==
  ASSUME Disciplined(Messages, Transactions), SenderInv, NEW s, NEW x, Forwards(s, x),
         s \in M1Messages, s.mt \in {MT_SYSTEM, MT_M1CVM, MT_DATA64}, Handled(s),
         output1 = <<s>>
  PROVE  SenderInv'
<1>1. x = s /\ Len(output1) = 1 /\ s \in Messages
  BY DEF Forwards
<1>2. ~IsControl(x, Controls)
  <2>1. CASE IsVoice(s)
    BY <1>1, <2>1, NotControls
  <2>2. CASE ~IsVoice(s)
    BY <1>1, <2>2 DEF IsVoice, IsControl
  <2> QED  BY <2>1, <2>2
<1>3. \A at \in Channels : SameNumber(holds'[at], holds[at])
  BY <1>2, ToldNothing DEF Forwards, SameNumber
<1>4. (x.mt = MT_M1CVM \/ Meaningful(x)) /\ s.mt # MT_M2CVM
  <2>1. s.mt # MT_UTILITY
    BY DEF MT_UTILITY, MT_SYSTEM, MT_M1CVM, MT_DATA64
  <2>2. s.mt # MT_M1CVM => <<s.mt, s.status>> \in Defined
    BY Kinds1, HandledDefined
  <2> QED  BY <1>1, <2>1, <2>2, Kinds1 DEF Meaningful
<1>5. Len(MeantNow(x)) = 1
  BY <1>2, <1>4, MeantByMessage DEF MeantNow
<1> QED  BY <1>1, <1>3, <1>4, <1>5, LastForwarded DEF Conveyed

LEMMA ValueForwarded ==
  ASSUME Disciplined(Messages, Transactions), SenderInv, NEW s, NEW x, Forwards(s, x),
         s \in M2Messages, s.status \in Valued, output1 = <<Narrowed(s)>>
  PROVE  SenderInv'
<1>1. x = Narrowed(s) /\ Len(output1) = 1 /\ s \in Messages
  BY DEF Forwards
<1>2. /\ x.mt = MT_M1CVM /\ x.status = s.status /\ x.at = s.at /\ x.index = s.index
      /\ x.value = Scale(M2Width(s.status), M1Width(s.status), s.value)
  BY <1>1, VoiceFields DEF Narrowed
<1>3. s.mt = MT_M2CVM /\ IsVoice(s) /\ s.value \in SUBSET (0 .. M2Width(s.status) - 1)
  BY Kinds2 DEF IsVoice
<1>4. ~IsControl(x, Controls)
  BY <1>1, <1>2, <1>3, NotControls
<1>5. \A at \in Channels : SameNumber(holds'[at], holds[at])
  BY <1>4, ToldNothing DEF Forwards, SameNumber
<1>6. s.status # program_change /\ s.status \notin {rpn, nrpn}
  BY <1>2 DEF Valued, program_change, note_off, note_on, poly_pressure, control_change,
              channel_pressure, pitch_bend, rpn, nrpn
<1>7. MeantNow(x) = <<Voice(MT_M2CVM, s.status, s.at, s.index, x.value)>>
  BY <1>2, <1>4, <1>6, MeantByMessage DEF MeantNow
<1>8. x.value = Dropped(M2Width(s.status) - M1Width(s.status), s.value)
  <2>1. M1Width(s.status) \in Nat \ {0} /\ M2Width(s.status) \in Nat \ {0}
        /\ M2Width(s.status) >= M1Width(s.status)
    BY WidthsType
  <2> QED  BY <1>2, <1>3, <2>1, ScaledDown
<1>9. MeantNow(x) = Intended(s)
  BY <1>6, <1>7, <1>8 DEF Intended
<1> QED  BY <1>1, <1>3, <1>5, <1>6, <1>9, LastForwarded DEF Conveyed

LEMMA ProgramForwarded ==
  ASSUME SenderInv, NEW s, NEW x, Forwards(s, x),
         s \in M2Messages, s.status = program_change, ProgramLeft(s, holds[s.at], output1)
  PROVE  SenderInv'
<1>1. s.at \in Channels /\ s.mt = MT_M2CVM /\ s.bank \in Optional(Number7 \X Number7)
  BY Kinds2
<1>2. s \notin Parameters
  BY ParameterFields DEF program_change, rpn, nrpn
<1> DEFINE a == BankMsb(s) b == BankLsb(s) c == Selection(s)
           msb == Only(s.bank)[1] lsb == Only(s.bank)[2]
<1>3. /\ a = Control(s.at, bank_select, msb) /\ b = Control(s.at, bank_select_lsb, lsb)
      /\ c = Program(MT_M1CVM, s.at, s.index, {})
  BY DEF BankMsb, BankLsb, Selection
<1> HIDE DEF a, b, c
<1>4. CASE s.bank # {} /\ output1 = <<a, b, c>>
  <2>1. x = a /\ output1' = <<b, c>> /\ Len(output1) = 3 /\ IsVoice(x) /\ x.at = s.at
    BY <1>3, <1>4, ControlFields DEF Forwards
  <2>2. \A at \in Channels : SameNumber(holds'[at], holds[at])
    BY <1>3, <2>1, ToldBank DEF Forwards, SameNumber
  <2>3. holds'[s.at].bank[1] = {msb}
    BY <1>1, <1>3, <2>1, ToldBank DEF Forwards
  <2>4. Left(s)'
    BY <1>4, <2>1, <2>3 DEF Left, ProgramLeft, b, c
  <2> QED  BY <1>2, <2>1, <2>2, <2>4, AnotherForwarded
<1>5. CASE s.bank # {} /\ output1 = <<b, c>> /\ holds[s.at].bank[1] = {msb}
  <2>1. x = b /\ output1' = <<c>> /\ Len(output1) = 2 /\ IsVoice(x) /\ x.at = s.at
    BY <1>3, <1>5, ControlFields DEF Forwards
  <2>2. \A at \in Channels : SameNumber(holds'[at], holds[at])
    BY <1>3, <2>1, ToldBank DEF Forwards, SameNumber
  <2>3. holds'[s.at].bank[1] = {msb} /\ holds'[s.at].bank[2] = {lsb}
    BY <1>1, <1>3, <1>5, <2>1, ToldBank DEF Forwards
  <2>4. Left(s)'
    BY <1>5, <2>1, <2>3 DEF Left, ProgramLeft, b, c
  <2> QED  BY <1>2, <2>1, <2>2, <2>4, AnotherForwarded
<1>6. CASE /\ output1 = <<c>>
           /\ s.bank # {} => holds[s.at].bank[1] = {msb} /\ holds[s.at].bank[2] = {lsb}
  <2>1. x = c /\ Len(output1) = 1
    BY <1>6 DEF Forwards
  <2>2. x.mt = MT_M1CVM /\ x.status = program_change /\ x.at = s.at /\ x.index = s.index
    BY <1>3, <2>1 DEF Program
  <2>3. ~IsControl(x, Controls) /\ IsVoice(x)
    BY <2>2 DEF IsControl, control_change, program_change, IsVoice
  <2>4. \A at \in Channels : SameNumber(holds'[at], holds[at])
    BY <2>3, ToldNothing DEF Forwards, SameNumber
  <2> DEFINE h == holds[s.at]
             meant == Program(MT_M2CVM, s.at, s.index, h.bank[1] \X h.bank[2])
  <2>5. MeantNow(x) = <<meant>>
    BY <2>2, <2>3, MeantByMessage DEF MeantNow
  <2>6. meant.index = s.index /\ meant.bank = h.bank[1] \X h.bank[2]
    BY DEF Program
  <2>7. s.bank # {} => h.bank[1] \X h.bank[2] = s.bank
    <3>1. ASSUME s.bank # {}
          PROVE  h.bank[1] \X h.bank[2] = s.bank
      <4>1. s.bank = {Only(s.bank)} /\ Only(s.bank) \in Number7 \X Number7
        BY <1>1, <3>1, OptionalValues
      <4>2. Only(s.bank) = <<msb, lsb>>
        BY <4>1
      <4>3. {msb} \X {lsb} = {<<msb, lsb>>}
        OBVIOUS
      <4> QED  BY <1>6, <3>1, <4>1, <4>2, <4>3
    <3> QED  BY <3>1
  <2> HIDE DEF meant, h
  <2>8. Conveyed(s, MeantNow(x))
    <3>1. MeantNow(x)[1] = meant
      BY <2>5
    <3>2. s.mt = MT_M2CVM /\ s.status = program_change
      BY <1>1
    <3> QED  BY <2>6, <2>7, <3>1, <3>2 DEF Conveyed
  <2> QED  BY <2>1, <2>4, <2>8, LastForwarded
<1> QED  BY <1>4, <1>5, <1>6 DEF ProgramLeft, a, b, c

\* The status of a parameter is that of all parameters on its channel.
LEMMA OneKind ==
  ASSUME Disciplined(Messages, Transactions), NEW p \in Parameters, NEW q \in Parameters,
         p.at = q.at
  PROVE  p.status = q.status /\ KeyOf(p) = KeyOf(q)
<1>1. p.status = q.status
  BY DEF Disciplined, Parameters
<1> QED  BY <1>1 DEF KeyOf

LEMMA ParameterForwarded ==
  ASSUME Disciplined(Messages, Transactions), SenderInv, NEW s, NEW x, Forwards(s, x),
         s \in Parameters, KeyOf(s) \in DOMAIN pn_cache, pn_cache[KeyOf(s)] = s.index,
         ParameterLeft(s, holds[s.at], output1)
  PROVE  SenderInv'
<1>1. /\ s.at \in Channels /\ s.mt = MT_M2CVM /\ s.status \in {rpn, nrpn} /\ IsVoice(s)
      /\ s.index \in Number7 \X Number7 /\ s.value \in SUBSET (0 .. 31)
  BY ParameterFields
<1> DEFINE a == FirstOf(s) b == SecondOf(s) c == EntryMsb(s) d == EntryLsb(s)
           h == holds[s.at]
<1>2. /\ a = Control(s.at, IF s.status = rpn THEN rpn_msb ELSE nrpn_msb, s.index[1])
      /\ b = Control(s.at, IF s.status = rpn THEN rpn_lsb ELSE nrpn_lsb, s.index[2])
      /\ c = Control(s.at, data_entry_msb, Hi7(Entry(s)))
      /\ d = Control(s.at, data_entry_lsb, Lo7(Entry(s)))
  BY DEF FirstOf, SecondOf, EntryMsb, EntryLsb, Entry
<1>3. \A m \in {a, b, c, d} : IsVoice(m) /\ m.at = s.at
  BY <1>2, ControlFields
<1> HIDE DEF a, b, c, d
<1>4. /\ UNCHANGED <<pn_cache, script>> /\ x = Head(output1) /\ output1' = Tail(output1)
      /\ source = {s}
      /\ x \in {a, b, c, d} =>
           /\ holds'[s.at] = Told(h, x)
           /\ \A at \in Channels : at # s.at => holds'[at] = holds[at]
  BY <1>1, <1>3 DEF Forwards
<1>5. ASSUME Len(output1) \in {3, 4}, x \in {a, b},
             Len(output1) = 4 => Len(output1') = 3,
             ParameterLeft(s, holds'[s.at], output1'),
             Len(output1) = 3 => Has(s, s.index)'
      PROVE  SenderInv'
  <2>1. source' = {s} /\ applied' = <<>>
    <3>1. Len(output1) # 1
      BY <1>5
    <3> QED  BY <3>1 DEF Forwards
  <2>2. Apart(script)' /\ MeaningSurvives'
    BY <1>4, <2>1 DEF SenderInv, Apart, MeaningSurvives
  <2>3. Left(s)'
    BY <1>4, <1>5 DEF Left
  <2>4. ASSUME NEW p \in Parameters, KeyOf(p) \in DOMAIN pn_cache'
        PROVE  Settled(p)'
    <3>1. CASE p.at # s.at
      <4>1. Has(p, pn_cache[KeyOf(p)])
        BY <1>4, <2>4, <3>1 DEF SenderInv, Settled
      <4>2. holds'[p.at] = holds[p.at]
        BY <1>4, <1>5, <3>1, ParameterFields
      <4> QED  BY <1>4, <4>1, <4>2 DEF Settled, Has
    <3>2. CASE p.at = s.at /\ Len(output1) = 4
      <4>1. Len(output1') > 2
        <5>1. Len(output1') = 3
          BY <1>5, <3>2
        <5> QED  BY <5>1
      <4> QED  BY <2>1, <3>2, <4>1 DEF Settled
    <3>3. CASE p.at = s.at /\ Len(output1) = 3
      <4>1. p.status = s.status /\ KeyOf(p) = KeyOf(s)
        BY <3>3, OneKind
      <4>2. pn_cache'[KeyOf(p)] = s.index
        BY <1>4, <4>1
      <4> QED  BY <1>5, <3>3, <4>1, <4>2 DEF Settled, Has
    <3> QED  BY <1>5, <3>1, <3>2, <3>3
  <2> QED  BY <2>1, <2>2, <2>3, <2>4 DEF SenderInv
<1>6. CASE output1 = <<a, b, c, d>>
  <2>1. x = a /\ output1' = <<b, c, d>> /\ Len(output1) = 4 /\ Len(output1') = 3
    BY <1>4, <1>6
  <2>2. holds'[s.at].pending = {<<s.status, s.index[1]>>}
    BY <1>1, <1>2, <1>4, <2>1, ToldNumber
  <2>3. ParameterLeft(s, holds'[s.at], output1')
    BY <2>1, <2>2 DEF ParameterLeft, b, c, d
  <2> QED  BY <1>5, <2>1, <2>3
<1>7. CASE output1 = <<b, c, d>> /\ h.pending = {<<s.status, s.index[1]>>}
  <2>1. x = b /\ output1' = <<c, d>> /\ Len(output1) = 3
    BY <1>4, <1>7
  <2>2. /\ holds'[s.at].parameter = {<<s.status, <<s.index[1], s.index[2]>>>>} \ {NullRpn}
        /\ holds'[s.at].pending = {}
    BY <1>1, <1>2, <1>4, <1>7, <2>1, ToldNumber
  <2>3. <<s.index[1], s.index[2]>> = s.index
    BY <1>1
  <2>4. Has(s, s.index)'
    BY <2>2, <2>3 DEF Has
  <2>5. ParameterLeft(s, holds'[s.at], output1')
    BY <2>1 DEF ParameterLeft, c, d
  <2> QED  BY <1>5, <2>1, <2>4, <2>5
<1>8. CASE output1 = <<c, d>>
  <2>1. x = c /\ output1' = <<d>> /\ Len(output1) = 2
    BY <1>4, <1>8
  <2>2. holds'[s.at].value_msb = {Hi7(Entry(s))} /\ SameNumber(holds'[s.at], h)
    BY <1>2, <1>4, <2>1, ToldEntry DEF SameNumber
  <2>3. \A at \in Channels : SameNumber(holds'[at], holds[at])
    BY <1>4, <2>1, <2>2 DEF SameNumber
  <2>4. ParameterLeft(s, holds'[s.at], output1')
    BY <2>1, <2>2 DEF ParameterLeft, d
  <2>5. Left(s)'
    BY <1>4, <2>4 DEF Left
  <2> QED  BY <2>1, <2>3, <2>5, AnotherForwarded
<1>9. CASE output1 = <<d>> /\ h.value_msb = {Hi7(Entry(s))}
  <2>1. x = d /\ Len(output1) = 1
    BY <1>4, <1>9
  <2>2. holds'[s.at] = h
    BY <1>2, <1>4, <2>1, ToldEntry
  <2>3. \A at \in Channels : SameNumber(holds'[at], holds[at])
    BY <1>4, <2>1, <2>2 DEF SameNumber
  <2>4. h.parameter = {<<s.status, s.index>>} \ {NullRpn}
    <3>1. Settled(s)
      BY DEF SenderInv
    <3> QED  BY <2>1, <3>1 DEF Settled, Has
  <2>5. MeantNow(x) = Meant(h, Control(s.at, data_entry_lsb, Lo7(Entry(s))))
    BY <1>2, <1>3, <2>1 DEF MeantNow
  <2>6. MeantNow(x) = IF <<s.status, s.index>> = NullRpn THEN <<>>
                      ELSE <<Voice(MT_M2CVM, s.status, s.at, s.index,
                                   Joined(Hi7(Entry(s)), Lo7(Entry(s))))>>
    BY <1>9, <2>4, <2>5, MeantByEntry
  <2>7. Joined(Hi7(Entry(s)), Lo7(Entry(s))) = Dropped(18, s.value)
    <3>1. s.value \in SUBSET (0 .. 32 - 1)
      BY <1>1
    <3>2. Entry(s) \in SUBSET (0 .. 14 - 1) /\ Entry(s) = Dropped(32 - 14, s.value)
      BY <3>1, ScaleType, ScaledDown DEF Entry
    <3>3. Entry(s) \in SUBSET (0 .. 13) /\ Entry(s) = Dropped(18, s.value)
      BY <3>2
    <3> QED  BY <3>3, HalvesType
  <2>8. MeantNow(x) = Intended(s)
    BY <1>1, <2>6, <2>7 DEF Intended
  <2>9. Conveyed(s, MeantNow(x))
    BY <1>1, <2>8 DEF Conveyed, program_change, rpn, nrpn
  <2> QED  BY <2>1, <2>3, <2>9, LastForwarded
<1> QED  BY <1>6, <1>7, <1>8, <1>9 DEF ParameterLeft, a, b, c, d

LEMMA ForwardSender ==
  ASSUME Disciplined(Messages, Transactions), TypeInv, SenderInv, Forward
  PROVE  SenderInv'
<1>1. PICK s : Forwards(s, Head(output1))
  BY ForwardParts
<1>2. Left(s)
  BY <1>1 DEF Forwards, SenderInv
<1> QED  BY <1>1, <1>2, PassForwarded, ValueForwarded, ProgramForwarded, ParameterForwarded
         DEF Left

LEMMA OthersSender ==
  ASSUME Disciplined(Messages, Transactions), TypeInv, SenderInv,
         \/ \E t \in Transactions : DeviceBegins(t)
         \/ DeviceSends \/ Receive \/ Deliver
  PROVE  SenderInv'
<1>1. UNCHANGED <<pn_cache, output1, source>> /\ applied' = <<>>
  BY DEF DeviceBegins, DeviceSends, Receive, Deliver, vars1, Quiet
<1>2. source \subseteq Messages /\ script \in Seq(M1Messages)
      /\ holds \in [Channels -> Receivers]
  BY DEF TypeInv, TypeOK, Optional
<1>3. Apart(script)
  BY DEF SenderInv
<1>4. ASSUME NEW t \in Transactions, DeviceBegins(t)
      PROVE  SenderInv'
  <2>1. script' = t /\ holds' = holds
    BY <1>4 DEF DeviceBegins
  <2>2. Apart(t)
    BY DEF Apart, Disciplined
  <2>3. Apart(script)'
    BY <2>1, <2>2 DEF Apart
  <2> QED  BY <1>1, <1>2, <2>1, <2>3, SenderSame
<1>5. CASE DeviceSends
  <2> DEFINE x == Head(script)
  <2>1. script # <<>> /\ script' = Tail(script) /\ Carry(x)
    BY <1>5 DEF DeviceSends
  <2>2. 1 \in DOMAIN script /\ x = script[1] /\ x \in M1Messages
    BY <1>2, <2>1, HeadTailProperties
  <2>3. \A i \in DOMAIN script' : i + 1 \in DOMAIN script /\ script'[i] = script[i + 1]
    <3>1. /\ Tail(script) \in Seq(M1Messages) /\ Len(Tail(script)) = Len(script) - 1
          /\ \A i \in 1 .. Len(Tail(script)) : Tail(script)[i] = script[i + 1]
      BY <1>2, <2>1, HeadTailProperties
    <3>2. DOMAIN script' = 1 .. Len(script) - 1 /\ DOMAIN script = 1 .. Len(script)
          /\ Len(script) \in Nat
      BY <1>2, <2>1, <3>1
    <3> QED  BY <2>1, <3>1, <3>2
  <2>4. Apart(script)'
    BY <1>3, <2>3 DEF Apart
  <2>5. \A m \in Messages : IsVoice(m) => holds'[m.at] = holds[m.at]
    <3>1. \A m \in Messages : IsVoice(m) /\ IsVoice(x) => m.at # x.at
      BY <1>3, <2>2 DEF Apart
    <3>2. IsVoice(x) => x.at \in Channels
      BY <2>2, Kinds1 DEF IsVoice
    <3>3. \A m \in Messages : IsVoice(m) => m.at \in Channels
      BY Kinds1, Kinds2, LinkAssumption DEF IsVoice
    <3>4. holds' = IF IsVoice(x) THEN [holds EXCEPT ![x.at] = Told(holds[x.at], x)] ELSE holds
      BY <2>1 DEF Carry
    <3> HIDE DEF x
    <3> QED  BY <1>2, <3>1, <3>2, <3>3, <3>4
  <2> QED  BY <1>1, <1>2, <2>4, <2>5, SenderSame
<1>6. CASE Receive \/ Deliver
  <2>1. script' = script /\ holds' = holds
    BY <1>6 DEF Receive, Deliver
  <2>2. Apart(script)'
    BY <1>3, <2>1 DEF Apart
  <2> QED  BY <1>1, <1>2, <2>1, <2>2, SenderSame
<1> QED  BY <1>4, <1>5, <1>6

LEMMA EmptySender ==
  ASSUME SenderInv,
         \/ ResetSender \/ ResetAll
         \/ UNCHANGED <<pn_cache, output1, source, holds, script, applied>>,
         TypeInv
  PROVE  SenderInv'
<1>1. CASE UNCHANGED <<pn_cache, output1, source, holds, script, applied>>
  BY <1>1 DEF SenderInv, Apart, Settled, Has, Left, MeaningSurvives
<1>2. CASE ResetSender \/ ResetAll
  <2>1. pn_cache' = <<>> /\ script' = script /\ applied' = <<>>
    BY <1>2 DEF ResetSender, ResetAll, Reset1, PnCache!Clear, Quiet
  <2>2. source' = {}
    BY <1>2 DEF ResetSender, ResetAll, TypeInv, TypeOK
  <2>3. DOMAIN pn_cache' = {}
    BY <2>1
  <2> QED  BY <2>1, <2>2, <2>3 DEF SenderInv, Apart, MeaningSurvives
<1> QED  BY <1>1, <1>2

LEMMA InitSender == Init => SenderInv
<1> SUFFICES ASSUME Init PROVE SenderInv
  OBVIOUS
<1>1. source = {} /\ script = <<>> /\ applied = <<>> /\ DOMAIN pn_cache = {}
  BY DEF Init, ToMidi1Init, PnCache!Init
<1> QED  BY <1>1 DEF SenderInv, Apart, MeaningSurvives

LEMMA NextSender ==
  ASSUME Disciplined(Messages, Transactions)
  PROVE  TypeInv /\ SenderInv /\ [Next]_vars => SenderInv'
<1> SUFFICES ASSUME TypeInv, SenderInv, [Next]_vars PROVE SenderInv'
  OBVIOUS
<1>1. CASE UNCHANGED vars
  BY <1>1, EmptySender DEF vars, vars1, environment
<1>2. CASE Next
  BY <1>2, PushSender, ForwardSender, OthersSender, EmptySender DEF Next
<1> QED  BY <1>1, <1>2

(* A receiver of MIDI 1.0 takes what to_midi1 sends for a message to mean that   *)
(* message, whatever the device on the same link sends on other channels and     *)
(* whenever to_midi1 is reset: in particular the parameter number that to_midi1  *)
(* does not send again, because it is in the cache, is the one that the receiver *)
(* has selected.  For this the application must not mix the two kinds of         *)
(* parameters on a channel, nor send the controls that select them itself.       *)
THEOREM MeaningKept ==
  ASSUME Disciplined(Messages, Transactions)
  PROVE  Spec => []MeaningSurvives
<1>1. Init => TypeInv /\ SenderInv
  BY InitTyped, InitSender
<1>2. TypeInv /\ SenderInv /\ [Next]_vars => (TypeInv /\ SenderInv)'
  BY NextTyped, NextSender
<1>3. SenderInv => MeaningSurvives
  BY DEF SenderInv
<1> QED  BY <1>1, <1>2, <1>3, PTL DEF Spec

-------------------------------------------------------------------------------
(* What arrives at the far end is what a MIDI 1.0 receiver on the link would have  *)
(* understood.                                                                   *)

-------------------------------------------------------------------------------
(* Scaled values.                                                                *)

\* A value that is scaled up keeps its bits; below them are repeated ones, none for
\* nothing and the centre, and only ones for the largest value.
Keeps(width, more, up, v) ==
  /\ {b - more : b \in up \ 0 .. more - 1} = v
  /\ v \in {{}, {width - 1}} => up = {b + more : b \in v}
  /\ v = 0 .. width - 1 => up = 0 .. width + more - 1

LEMMA ScaledUp ==
  ASSUME NEW width \in {7, 14}, NEW dest \in {16, 32}, width < dest,
         NEW v \in SUBSET (0 .. width - 1)
  PROVE  Keeps(width, dest - width, Scale(width, dest, v), v)
<1> DEFINE more == dest - width
           up   == Scale(width, dest, v)
           high == {b + more : b \in v}
           low  == IF width - 1 \in v /\ v # {width - 1} THEN Repeated(width, dest, v) ELSE {}
<1>1. width \in Nat /\ more \in Nat /\ more > 0 /\ ~(width >= dest) /\ width > 1
  OBVIOUS
<1>2. up = high \union low
  BY <1>1 DEF Scale
<1>3. low \subseteq 0 .. more - 1
  BY DEF Repeated
<1>4. v \in {{}, {width - 1}} => low = {}
  OBVIOUS
<1>5. \A b \in v : b \in Nat /\ b + more \notin 0 .. more - 1 /\ (b + more) - more = b
  BY <1>1
<1>6. {b - more : b \in up \ 0 .. more - 1} = v
  <2>1. up \ 0 .. more - 1 = high
    <3>1. \A x \in high : x \notin 0 .. more - 1
      BY <1>5
    <3> HIDE DEF up, high, low
    <3> QED  BY <1>2, <1>3, <3>1
  <2>2. {b - more : b \in high} = v
    <3>2. \A x \in high : x - more \in v
      BY <1>5
    <3>3. ASSUME NEW b \in v
          PROVE  b \in {x - more : x \in high}
      <4>1. b + more \in high /\ b = (b + more) - more
        BY <1>5
      <4> HIDE DEF high
      <4> QED  BY <4>1
    <3> HIDE DEF high
    <3> QED  BY <3>2, <3>3
  <2> QED  BY <2>1, <2>2
<1>7. v \in {{}, {width - 1}} => up = high
  <2> HIDE DEF up, high, low
  <2> QED  BY <1>2, <1>4
<1>8. ASSUME v = 0 .. width - 1
      PROVE  up = 0 .. width + more - 1
  <2>1. high = more .. width + more - 1
    <3>1. high \subseteq more .. width + more - 1
      BY <1>1
    <3>2. ASSUME NEW x \in more .. width + more - 1
          PROVE  x \in high
      <4>1. x - more \in v /\ x = (x - more) + more
        BY <1>1, <1>8
      <4> QED  BY <4>1
    <3> QED  BY <3>1, <3>2
  <2>2. low = 0 .. more - 1
    <3>1. width - 1 \in v /\ v # {width - 1}
      <4>1. 0 \in v /\ width - 1 \in v /\ 0 # width - 1
        BY <1>1, <1>8
      <4> QED  BY <4>1
    <3>2. ASSUME NEW b \in 0 .. more - 1
          PROVE  width - 2 - ((dest - width - 1 - b) % (width - 1)) \in v
      <4>1. (dest - width - 1 - b) % (width - 1) \in 0 .. width - 2
        BY <1>1
      <4> QED  BY <1>1, <1>8, <4>1
    <3> QED  BY <3>1, <3>2 DEF Repeated
  <2>3. 0 .. more - 1 \union more .. width + more - 1 = 0 .. width + more - 1
    BY <1>1
  <2> HIDE DEF up, high, low
  <2> QED  BY <1>2, <2>1, <2>2, <2>3
<1> HIDE DEF up, high, low
<1> HIDE DEF more, up, high
<1> QED  BY <1>6, <1>7, <1>8 DEF Keeps, more, up, high

LEMMA AgreesItself ==
  ASSUME NEW m, "value" \notin DOMAIN m
  PROVE  Agrees(m, m)
BY DEF Agrees

LEMMA AgreesScaled ==
  ASSUME NEW status, NEW at, NEW index, NEW width \in {7, 14}, NEW dest \in {16, 32},
         NEW v \in SUBSET (0 .. width - 1), width < dest,
         width = IF status \in {rpn, nrpn} THEN 14 ELSE M1Width(status),
         dest = IF status \in {rpn, nrpn} THEN 32 ELSE M2Width(status)
  PROVE  Agrees(Voice(MT_M2CVM, status, at, index, Scale(width, dest, v)),
                Voice(MT_M2CVM, status, at, index, v))
<1> DEFINE more == dest - width
           up   == Scale(width, dest, v)
           got  == Voice(MT_M2CVM, status, at, index, up)
           want == Voice(MT_M2CVM, status, at, index, v)
<1>1. got.value = up /\ want.value = v /\ got.status = status
  BY DEF Voice
<1>2. "value" \in DOMAIN got
  BY DEF Voice
<1>3. [got EXCEPT !.value = {}] = [want EXCEPT !.value = {}]
  <2> DEFINE x == up
  <2> HIDE DEF x
  <2>1. [Voice(MT_M2CVM, status, at, index, x) EXCEPT !.value = {}]
          = Voice(MT_M2CVM, status, at, index, {})
    BY DEF Voice
  <2>2. [Voice(MT_M2CVM, status, at, index, v) EXCEPT !.value = {}]
          = Voice(MT_M2CVM, status, at, index, {})
    BY DEF Voice
  <2> QED  BY <2>1, <2>2 DEF x
<1>4. Keeps(width, more, up, v)
  BY ScaledUp
<1>5. /\ width = IF got.status \in {rpn, nrpn} THEN 14 ELSE M1Width(got.status)
      /\ more = (IF got.status \in {rpn, nrpn} THEN 32 ELSE M2Width(got.status)) - width
  BY <1>1
<1> HIDE DEF got, want, up, more
<1>6. Agrees(got, want)
  BY <1>1, <1>2, <1>3, <1>4, <1>5 DEF Agrees, Keeps
<1> QED  BY <1>6 DEF got, want, up

-------------------------------------------------------------------------------
(* The translator at the far end is a receiver of MIDI 1.0: what it keeps for a   *)
(* channel follows what a receiver knows that has been told the same.             *)

\* A translator keeps more than it needs: a value, and parts of a number, may be left
\* from what it was told before.
Follows(h, b, pn) ==
  /\ h.bank = <<b.msb, b.lsb>>
  /\ \A q \in h.pending : pn.is_rpn = (q[1] = rpn) /\ pn.msb = {q[2]}
  /\ \A p \in h.parameter :
       pn.is_rpn = (p[1] = rpn) /\ pn.msb = {p[2][1]} /\ pn.lsb = {p[2][2]}
  /\ h.pending = {} /\ h.parameter = {} => pn.msb = {} /\ pn.lsb = {}
  /\ h.pending # {} => h.parameter = {}
  /\ \A v \in h.value_msb : pn.value_msb = {v}

LEMMA NumberFields ==
  /\ \A is_rpn, msb, lsb, value_msb :
       LET pn == ParameterNumber(is_rpn, msb, lsb, value_msb)
       IN  /\ pn.is_rpn = is_rpn /\ pn.msb = msb /\ pn.lsb = lsb
           /\ pn.value_msb = value_msb
  /\ \A msb, lsb : Bank(msb, lsb).msb = msb /\ Bank(msb, lsb).lsb = lsb
BY DEF ParameterNumber, Bank

LEMMA FollowsBank ==
  ASSUME NEW h, NEW b, NEW pn, Follows(h, b, pn), NEW v
  PROVE  /\ Follows(Knows(<<{v}, h.bank[2]>>, h.parameter, h.pending, h.value_msb),
                    Bank({v}, b.lsb), pn)
         /\ Follows(Knows(<<h.bank[1], {v}>>, h.parameter, h.pending, h.value_msb),
                    Bank(b.msb, {v}), pn)
<1> DEFINE k1 == Knows(<<{v}, h.bank[2]>>, h.parameter, h.pending, h.value_msb)
           k2 == Knows(<<h.bank[1], {v}>>, h.parameter, h.pending, h.value_msb)
           b1 == Bank({v}, b.lsb)
           b2 == Bank(b.msb, {v})
<1>1. /\ k1.bank = <<{v}, h.bank[2]>> /\ k1.parameter = h.parameter
      /\ k1.pending = h.pending /\ k1.value_msb = h.value_msb
      /\ k2.bank = <<h.bank[1], {v}>> /\ k2.parameter = h.parameter
      /\ k2.pending = h.pending /\ k2.value_msb = h.value_msb
  BY KnowsFields
<1>2. b1.msb = {v} /\ b1.lsb = b.lsb /\ b2.msb = b.msb /\ b2.lsb = {v}
  BY NumberFields
<1>3. h.bank[1] = b.msb /\ h.bank[2] = b.lsb
  BY DEF Follows
<1> HIDE DEF k1, k2, b1, b2
<1>4. Follows(k1, b1, pn) /\ Follows(k2, b2, pn)
  BY <1>1, <1>2, <1>3 DEF Follows
<1> QED  BY <1>4 DEF k1, k2, b1, b2

LEMMA FollowsMsb ==
  ASSUME NEW h, NEW b, NEW pn, Follows(h, b, pn), NEW kind, NEW is_rpn,
         is_rpn = (kind = rpn), NEW v
  PROVE  Follows(Knows(h.bank, {}, {<<kind, v>>}, h.value_msb), b,
                 ParameterNumber(is_rpn, {v}, pn.lsb, pn.value_msb))
<1> DEFINE k == Knows(h.bank, {}, {<<kind, v>>}, h.value_msb)
           n == ParameterNumber(is_rpn, {v}, pn.lsb, pn.value_msb)
           q == <<kind, v>>
<1>1. /\ k.bank = h.bank /\ k.parameter = {} /\ k.pending = {q}
      /\ k.value_msb = h.value_msb /\ q[1] = kind /\ q[2] = v
  BY KnowsFields
<1>2. n.is_rpn = is_rpn /\ n.msb = {v} /\ n.value_msb = pn.value_msb
  BY NumberFields
<1> HIDE DEF k, n, q
<1>3. Follows(k, b, n)
  BY <1>1, <1>2 DEF Follows
<1> QED  BY <1>3 DEF k, n

LEMMA FollowsReset ==
  ASSUME NEW h, NEW b, NEW pn, Follows(h, b, pn)
  PROVE  Follows(Knows(h.bank, {}, {}, {}), b, Forgotten(pn))
<1> DEFINE k == Knows(h.bank, {}, {}, {})
           n == Forgotten(pn)
<1>1. k.bank = h.bank /\ k.parameter = {} /\ k.pending = {} /\ k.value_msb = {}
  BY KnowsFields
<1>2. n.msb = {} /\ n.lsb = {}
  BY NumberFields DEF Forgotten
<1> HIDE DEF k, n
<1>3. Follows(k, b, n)
  BY <1>1, <1>2 DEF Follows
<1> QED  BY <1>3 DEF k, n

LEMMA FollowsLsb ==
  ASSUME NEW h, NEW b, NEW pn, Follows(h, b, pn), NEW kind \in {rpn, nrpn}, NEW msb, NEW v,
         h.pending = {<<kind, msb>>}, NEW in, in.value = v,
         (in.index = rpn_lsb) = (kind = rpn)
  PROVE  Follows(Knows(h.bank, {<<kind, <<msb, v>>>>} \ {NullRpn}, {}, {}), b,
                 IF IsNull(pn, in) THEN Forgotten(pn)
                 ELSE ParameterNumber(in.index = rpn_lsb, pn.msb, {v}, pn.value_msb))
<1>1. pn.is_rpn = (kind = rpn) /\ pn.msb = {msb} /\ h.bank = <<b.msb, b.lsb>>
  BY DEF Follows
<1>2. IsNull(pn, in) <=> <<kind, <<msb, v>>>> = NullRpn
  BY <1>1 DEF IsNull, NullRpn
<1>3. CASE IsNull(pn, in)
  <2>1. {<<kind, <<msb, v>>>>} \ {NullRpn} = {}
    BY <1>2, <1>3
  <2>2. Follows(Knows(h.bank, {}, {}, {}), b, Forgotten(pn))
    BY <1>1, FollowsReset
  <2> QED  BY <1>3, <2>1, <2>2
<1>4. CASE ~IsNull(pn, in)
  <2>1. {<<kind, <<msb, v>>>>} \ {NullRpn} = {<<kind, <<msb, v>>>>}
    BY <1>2, <1>4
  <2>2. Follows(Knows(h.bank, {<<kind, <<msb, v>>>>}, {}, {}), b,
                ParameterNumber(in.index = rpn_lsb, pn.msb, {v}, pn.value_msb))
    <3> DEFINE p == <<kind, <<msb, v>>>>
               k == Knows(h.bank, {p}, {}, {})
               n == ParameterNumber(in.index = rpn_lsb, pn.msb, {v}, pn.value_msb)
    <3>1. /\ k.bank = h.bank /\ k.parameter = {p} /\ k.pending = {} /\ k.value_msb = {}
          /\ p[1] = kind /\ p[2][1] = msb /\ p[2][2] = v
      BY KnowsFields
    <3>2. n.is_rpn = (in.index = rpn_lsb) /\ n.msb = pn.msb /\ n.lsb = {v}
      BY NumberFields
    <3> HIDE DEF k, n, p
    <3>3. Follows(k, b, n)
      BY <1>1, <3>1, <3>2 DEF Follows
    <3> QED  BY <3>3 DEF k, n, p
  <2> QED  BY <1>4, <2>1, <2>2
<1> QED  BY <1>3, <1>4

LEMMA FollowsEntry ==
  ASSUME NEW h, NEW b, NEW pn, Follows(h, b, pn), NEW v
  PROVE  Follows(Knows(h.bank, h.parameter, h.pending, {v}), b,
                 ParameterNumber(pn.is_rpn, pn.msb, pn.lsb, {v}))
<1> DEFINE k == Knows(h.bank, h.parameter, h.pending, {v})
           n == ParameterNumber(pn.is_rpn, pn.msb, pn.lsb, {v})
<1>1. /\ k.bank = h.bank /\ k.parameter = h.parameter /\ k.pending = h.pending
      /\ k.value_msb = {v}
  BY KnowsFields
<1>2. n.is_rpn = pn.is_rpn /\ n.msb = pn.msb /\ n.lsb = pn.lsb /\ n.value_msb = {v}
  BY NumberFields
<1> HIDE DEF k, n
<1>3. Follows(k, b, n)
  BY <1>1, <1>2 DEF Follows
<1> QED  BY <1>3 DEF k, n

\* What a receiver is told by each control.
LEMMA ToldControl ==
  ASSUME NEW h, NEW m, m.mt = MT_M1CVM, m.status = control_change
  PROVE  /\ m.index = bank_select =>
              Told(h, m) = Knows(<<{m.value}, h.bank[2]>>, h.parameter, h.pending, h.value_msb)
         /\ m.index = bank_select_lsb =>
              Told(h, m) = Knows(<<h.bank[1], {m.value}>>, h.parameter, h.pending, h.value_msb)
         /\ m.index \in {rpn_msb, nrpn_msb} =>
              Told(h, m) = Knows(h.bank, {}, {<<KindOf(m), m.value>>}, h.value_msb)
         /\ m.index \in {rpn_lsb, nrpn_lsb} =>
              Told(h, m) = Knows(h.bank, {<<q[1], <<q[2], m.value>>>> : q \in h.pending}
                                           \ {NullRpn}, {}, {})
         /\ m.index = data_entry_msb =>
              Told(h, m) = Knows(h.bank, h.parameter, h.pending, {m.value})
         /\ m.index = data_entry_lsb => Told(h, m) = h
         /\ m.index = reset_all_controllers => Told(h, m) = Knows(h.bank, {}, {}, {})
<1>1. m.index = bank_select_lsb => m.index # bank_select
  BY ControlNumbers, Zenon
<1>2. m.index \in {rpn_msb, nrpn_msb} => m.index # bank_select /\ m.index # bank_select_lsb
  BY ControlNumbers, Zenon
<1>3. m.index \in {rpn_lsb, nrpn_lsb} =>
        /\ m.index # bank_select /\ m.index # bank_select_lsb
        /\ m.index \notin {rpn_msb, nrpn_msb}
  BY ControlNumbers, Zenon
<1>4. m.index \in {data_entry_msb, data_entry_lsb, reset_all_controllers} =>
        /\ m.index # bank_select /\ m.index # bank_select_lsb
        /\ m.index \notin {rpn_msb, nrpn_msb} /\ m.index \notin {rpn_lsb, nrpn_lsb}
  BY ControlNumbers, Zenon
<1>5. /\ m.index = data_entry_lsb =>
           m.index # data_entry_msb /\ m.index # reset_all_controllers
      /\ m.index = reset_all_controllers => m.index # data_entry_msb
  BY ControlNumbers, Zenon
<1>6. m.index = bank_select =>
        Told(h, m) = Knows(<<{m.value}, h.bank[2]>>, h.parameter, h.pending, h.value_msb)
  BY DEF Told
<1>7. m.index = bank_select_lsb =>
        Told(h, m) = Knows(<<h.bank[1], {m.value}>>, h.parameter, h.pending, h.value_msb)
  BY <1>1 DEF Told
<1>8. m.index \in {rpn_msb, nrpn_msb} =>
        Told(h, m) = Knows(h.bank, {}, {<<KindOf(m), m.value>>}, h.value_msb)
  BY <1>2 DEF Told
<1>9. m.index \in {rpn_lsb, nrpn_lsb} =>
        Told(h, m) = Knows(h.bank, {<<q[1], <<q[2], m.value>>>> : q \in h.pending}
                                     \ {NullRpn}, {}, {})
  BY <1>3 DEF Told
<1>10. /\ m.index = data_entry_msb =>
            Told(h, m) = Knows(h.bank, h.parameter, h.pending, {m.value})
       /\ m.index = data_entry_lsb => Told(h, m) = h
       /\ m.index = reset_all_controllers => Told(h, m) = Knows(h.bank, {}, {}, {})
  BY <1>4, <1>5 DEF Told
<1> QED  BY <1>6, <1>7, <1>8, <1>9, <1>10

-------------------------------------------------------------------------------
(* One message: h is what receivers of all channels know.                        *)

Hears(h, m)   == IF IsVoice(m) THEN [h EXCEPT ![m.at] = Told(@, m)] ELSE h
Means(h, m)   == Meant(IF IsVoice(m) THEN h[m.at] ELSE Unaware, m)
MayHear(h, m) == IsVoice(m) => MaySend(h[m.at], m)
AllFollow(h)  == \A at \in Channels : Follows(h[at], bank[at], parameter_number[at])

AllAgree(got, want) ==
  Len(got) = Len(want) /\ \A i \in 1 .. Len(got) : Agrees(got[i], want[i])

LEMMA HearsType ==
  ASSUME NEW h \in [Channels -> Receivers], NEW m \in M1Messages
  PROVE  Hears(h, m) \in [Channels -> Receivers]
<1>1. CASE IsVoice(m)
  <2>1. m.at \in Channels
    BY <1>1, Kinds1 DEF IsVoice
  <2>2. Told(h[m.at], m) \in Receivers
    BY <2>1, ToldType
  <2> QED  BY <1>1, <2>2 DEF Hears
<1> QED  BY <1>1 DEF Hears

\* All but control changes of a number that means something leave receivers alone.
LEMMA HearsNothing ==
  ASSUME NEW h \in [Channels -> Receivers], NEW m \in M1Messages,
         ~IsControl(m, Controls \ {data_entry_lsb})
  PROVE  Hears(h, m) = h
<1>1. CASE IsVoice(m)
  <2>1. m.at \in Channels
    BY <1>1, Kinds1 DEF IsVoice
  <2>2. Told(h[m.at], m) = h[m.at]
    <3>1. CASE IsControl(m, {data_entry_lsb})
      BY <3>1, ToldControl DEF IsControl
    <3>2. CASE ~IsControl(m, {data_entry_lsb})
      <4>1. ~IsControl(m, Controls)
        BY <3>2 DEF IsControl
      <4> QED  BY <4>1, ToldNothing
    <3> QED  BY <3>1, <3>2
  <2>3. Hears(h, m) = [h EXCEPT ![m.at] = Told(h[m.at], m)]
    BY <1>1 DEF Hears
  <2> QED  BY <2>1, <2>2, <2>3
<1> QED  BY <1>1 DEF Hears

LEMMA HearsControl ==
  ASSUME NEW h \in [Channels -> Receivers], NEW m \in M1Messages, IsControl(m, Controls)
  PROVE  /\ m.at \in Channels /\ m.mt = MT_M1CVM /\ m.status = control_change
         /\ Hears(h, m)[m.at] = Told(h[m.at], m)
         /\ \A at \in Channels : at # m.at => Hears(h, m)[at] = h[at]
         /\ Means(h, m) = Meant(h[m.at], m)
         /\ MayHear(h, m) => MaySend(h[m.at], m)
<1>1. m.at \in Channels /\ m.mt = MT_M1CVM /\ m.status = control_change /\ IsVoice(m)
  BY ControlOf DEF IsVoice
<1>2. Hears(h, m) = [h EXCEPT ![m.at] = Told(h[m.at], m)]
  BY <1>1 DEF Hears
<1> QED  BY <1>1, <1>2 DEF Means, MayHear

LEMMA AgreeOne ==
  ASSUME NEW a, NEW b, Agrees(a, b)
  PROVE  AllAgree(<<a>>, <<b>>)
<1> DEFINE s == <<a>> t == <<b>>
<1>1. Len(s) = 1 /\ Len(t) = 1 /\ s[1] = a /\ t[1] = b
  OBVIOUS
<1> HIDE DEF s, t
<1>2. AllAgree(s, t)
  BY <1>1 DEF AllAgree
<1> QED  BY <1>2 DEF s, t

LEMMA AgreeNone == AllAgree(<<>>, <<>>)
BY DEF AllAgree

\* What goes through is meant as it is.
LEMMA PassReceived ==
  ASSUME NEW in \in M1Messages, NEW h \in [Channels -> Receivers], AllFollow(h),
         output2 = <<>>, ~refused2, Pass2(in) \/ Drop2(in)
  PROVE  AllFollow(Hears(h, in))' /\ AllAgree(output2', Means(h, in))
<1>1. in.mt # MT_M1CVM
  BY HandledVoices DEF Pass2, Drop2, MT_UTILITY, MT_M1CVM
<1>2. /\ in \in Others /\ "value" \notin DOMAIN in
      /\ Handled(in) <=> <<in.mt, in.status>> \in Defined
  BY <1>1, Kinds1, OtherFields, HandledDefined
<1>3. Hears(h, in) = h
  BY <1>1, HearsNothing DEF IsControl
<1>4. bank' = bank /\ parameter_number' = parameter_number
  BY DEF Pass2, Drop2, Send2, vars2
<1>5. AllFollow(Hears(h, in))'
  BY <1>3, <1>4 DEF AllFollow
<1>6. CASE Drop2(in)
  <2>1. ~Meaningful(in) /\ output2' = <<>>
    BY <1>2, <1>6 DEF Drop2, vars2, Meaningful
  <2> QED  BY <1>1, <1>5, <2>1, AgreeNone DEF Means, Meant
<1>7. CASE Pass2(in)
  <2>1. Meaningful(in)
    BY <1>2, <1>7 DEF Pass2, Meaningful
  <2>2. Means(h, in) = <<in>>
    BY <1>1, <2>1 DEF Means, Meant
  <2>3. output2' = <<in>>
    BY <1>2, <1>7, SentOne DEF Pass2, Send2, Outputs2
  <2> QED  BY <1>2, <1>5, <2>2, <2>3, AgreesItself, AgreeOne
<1> QED  BY <1>6, <1>7

\* A value is meant with the resolution of MIDI 1.0 and arrives with that of MIDI 2.0.
LEMMA ValueReceived ==
  ASSUME NEW in \in M1Messages, in.mt = MT_M1CVM, in.status \in Valued, output2 = <<>>,
         ~refused2, Emit2(<<Scaled(in)>>)
  PROVE  AllAgree(output2', <<Voice(MT_M2CVM, in.status, in.at, in.index, in.value)>>)
<1>1. in.value \in SUBSET (0 .. M1Width(in.status) - 1)
  BY Kinds1
<1>2. in.status \notin {rpn, nrpn}
  BY DEF Valued, note_off, note_on, poly_pressure, control_change, channel_pressure,
         pitch_bend, rpn, nrpn
<1>3. /\ M1Width(in.status) \in {7, 14} /\ M2Width(in.status) \in {16, 32}
      /\ M1Width(in.status) < M2Width(in.status)
  BY DEF M1Width, M2Width, pitch_bend, note_off, note_on
<1>4. Agrees(Scaled(in), Voice(MT_M2CVM, in.status, in.at, in.index, in.value))
  BY <1>1, <1>2, <1>3, AgreesScaled DEF Scaled
<1>5. output2' = <<Scaled(in)>>
  BY ScaledType, SentOne
<1> QED  BY <1>4, <1>5, AgreeOne

LEMMA PlainReceived ==
  ASSUME NEW in \in M1Messages, NEW h \in [Channels -> Receivers], AllFollow(h),
         output2 = <<>>, ~refused2, Value2(in) \/ OtherControl(in)
  PROVE  AllFollow(Hears(h, in))' /\ AllAgree(output2', Means(h, in))
<1>1. in.mt = MT_M1CVM /\ in.status \in Valued /\ ~IsControl(in, Controls)
  BY DEF Value2, OtherControl, IsControl, Valued
<1>2. Hears(h, in) = h
  BY <1>1, HearsNothing DEF IsControl
<1>3. bank' = bank /\ parameter_number' = parameter_number /\ Emit2(<<Scaled(in)>>)
  BY DEF Value2, OtherControl, Send2
<1>4. AllFollow(Hears(h, in))'
  BY <1>2, <1>3 DEF AllFollow
<1>5. in.status # program_change
  BY <1>1 DEF Valued, program_change, note_off, note_on, poly_pressure, control_change,
              channel_pressure, pitch_bend
<1>6. Means(h, in) = <<Voice(MT_M2CVM, in.status, in.at, in.index, in.value)>>
  BY <1>1, <1>5, MeantByMessage DEF Means
<1> QED  BY <1>1, <1>3, <1>4, <1>6, ValueReceived

LEMMA ProgramReceived ==
  ASSUME NEW in \in M1Messages, NEW h \in [Channels -> Receivers], AllFollow(h), Typed2,
         output2 = <<>>, ~refused2, Program2(in)
  PROVE  AllFollow(Hears(h, in))' /\ AllAgree(output2', Means(h, in))
<1> DEFINE b == bank[in.at]
           m == Program(MT_M2CVM, in.at, in.index, b.msb \X b.lsb)
<1>1. /\ in.mt = MT_M1CVM /\ in.status = program_change /\ Emit2(<<m>>)
      /\ bank' = bank /\ parameter_number' = parameter_number
  BY DEF Program2, Send2
<1>2. in.at \in Channels /\ in.index \in Number7
  BY <1>1, Kinds1
<1>3. ~IsControl(in, Controls) /\ IsVoice(in)
  BY <1>1 DEF IsControl, program_change, control_change, IsVoice
<1>4. Hears(h, in) = h
  BY <1>3, HearsNothing DEF IsControl
<1>5. AllFollow(Hears(h, in))'
  BY <1>1, <1>4 DEF AllFollow
<1>6. h[in.at].bank[1] = b.msb /\ h[in.at].bank[2] = b.lsb
  BY <1>2 DEF AllFollow, Follows
<1>7. Means(h, in) = <<m>>
  BY <1>1, <1>3, <1>6, MeantByMessage DEF Means
<1>8. m \in Outputs2 /\ "value" \notin DOMAIN m
  <2>1. b.msb \X b.lsb \in Optional(Number7 \X Number7)
    BY <1>2, ContextTypes, OptionalPair DEF Typed2
  <2>2. m \in Outputs2
    BY <1>2, <2>1, Made2 DEF Outputs2
  <2>3. "value" \notin DOMAIN m
    BY DEF Program
  <2> QED  BY <2>2, <2>3
<1> HIDE DEF m
<1>9. output2' = <<m>>
  BY <1>1, <1>8, SentOne
<1> QED  BY <1>5, <1>7, <1>8, <1>9, AgreesItself, AgreeOne

LEMMA ContextReceived ==
  ASSUME NEW in \in M1Messages, NEW h \in [Channels -> Receivers], AllFollow(h), Typed2,
         IsControl(in, Controls), NEW b, NEW pn,
         bank' = [bank EXCEPT ![in.at] = b],
         parameter_number' = [parameter_number EXCEPT ![in.at] = pn],
         Follows(Told(h[in.at], in), b, pn)
  PROVE  AllFollow(Hears(h, in))'
<1> DEFINE g == Hears(h, in)
<1>1. /\ in.at \in Channels /\ g[in.at] = Told(h[in.at], in)
      /\ \A at \in Channels : at # in.at => g[at] = h[at]
  BY HearsControl
<1> HIDE DEF g
<1>2. ASSUME NEW at \in Channels
      PROVE  Follows(g[at], bank'[at], parameter_number'[at])
  <2>1. CASE at = in.at
    BY <1>1, <2>1 DEF Typed2
  <2>2. CASE at # in.at
    BY <1>1, <2>2 DEF Typed2, AllFollow
  <2> QED  BY <2>1, <2>2
<1>3. AllFollow(g)'
  BY <1>2 DEF AllFollow
<1> QED  BY <1>3 DEF g

LEMMA NothingMeant ==
  ASSUME NEW h, NEW m,
         IsControl(m, Controls \ {data_entry_lsb, reset_all_controllers})
  PROVE  Meant(h, m) = <<>>
<1>1. m.mt = MT_M1CVM /\ m.status = control_change
  BY DEF IsControl
<1>2. m.status # program_change
  BY <1>1 DEF control_change, program_change
<1>3. ~IsControl(m, {data_entry_lsb}) /\ IsControl(m, Controls \ {reset_all_controllers})
  BY DEF IsControl
<1> QED  BY <1>1, <1>2, <1>3 DEF Meant

\* The control changes that send nothing.
LEMMA ControlReceived ==
  ASSUME NEW in \in M1Messages, NEW h \in [Channels -> Receivers], AllFollow(h), Typed2,
         MayHear(h, in), output2 = <<>>,
         BankSelect(in) \/ NumberMsb(in) \/ NumberLsb(in) \/ DataMsb(in)
  PROVE  AllFollow(Hears(h, in))' /\ AllAgree(output2', Means(h, in))
<1> DEFINE k == h[in.at] b == bank[in.at] pn == parameter_number[in.at]
<1>1. IsControl(in, {bank_select, bank_select_lsb, rpn_msb, nrpn_msb, rpn_lsb, nrpn_lsb,
                     data_entry_msb})
  BY DEF BankSelect, NumberMsb, NumberLsb, DataMsb, IsControl
<1>2. IsControl(in, Controls \ {data_entry_lsb, reset_all_controllers})
  <2>1. {bank_select, bank_select_lsb, rpn_msb, nrpn_msb, rpn_lsb, nrpn_lsb, data_entry_msb}
          \intersect {data_entry_lsb, reset_all_controllers} = {}
    BY ControlNumbers, Zenon
  <2>2. {bank_select, bank_select_lsb, rpn_msb, nrpn_msb, rpn_lsb, nrpn_lsb, data_entry_msb}
          \subseteq Controls
    BY DEF Controls
  <2> QED  BY <1>1, <2>1, <2>2 DEF IsControl
<1>3. IsControl(in, Controls)
  BY <1>2 DEF IsControl
<1>4. /\ in.at \in Channels /\ in.mt = MT_M1CVM /\ in.status = control_change
      /\ Means(h, in) = Meant(k, in) /\ MaySend(k, in)
  BY <1>3, HearsControl
<1>5. AllAgree(output2', Means(h, in))
  <2>1. Means(h, in) = <<>>
    BY <1>2, <1>4, NothingMeant
  <2>2. output2' = <<>>
    BY DEF BankSelect, NumberMsb, NumberLsb, DataMsb
  <2> QED  BY <2>1, <2>2, AgreeNone
<1>6. Follows(k, b, pn)
  BY <1>4 DEF AllFollow
<1>7. /\ bank = [bank EXCEPT ![in.at] = b]
      /\ parameter_number = [parameter_number EXCEPT ![in.at] = pn]
  BY <1>4 DEF Typed2
<1> HIDE DEF k, b, pn
<1>8. \A c, n : Follows(Told(k, in), c, n) /\ bank' = [bank EXCEPT ![in.at] = c]
                 /\ parameter_number' = [parameter_number EXCEPT ![in.at] = n]
                 => AllFollow(Hears(h, in))'
  BY <1>3, ContextReceived DEF k
<1>9. CASE BankSelect(in)
  <2>1. in.index \in {bank_select, bank_select_lsb}
    BY <1>9 DEF BankSelect, IsControl
  <2>2. parameter_number' = parameter_number
    BY <1>9 DEF BankSelect
  <2>3. CASE in.index = bank_select
    <3>1. bank' = [bank EXCEPT ![in.at] = Bank({in.value}, b.lsb)]
      BY <1>9, <2>3 DEF BankSelect, b
    <3>2. Told(k, in) = Knows(<<{in.value}, k.bank[2]>>, k.parameter, k.pending, k.value_msb)
      BY <1>4, <2>3, ToldControl
    <3>3. Follows(Told(k, in), Bank({in.value}, b.lsb), pn)
      BY <1>6, <3>2, FollowsBank
    <3> QED  BY <1>5, <1>7, <1>8, <2>2, <3>1, <3>3
  <2>4. CASE in.index = bank_select_lsb
    <3>1. in.index # bank_select
      BY <2>4, ControlNumbers, Zenon
    <3>2. bank' = [bank EXCEPT ![in.at] = Bank(b.msb, {in.value})]
      BY <1>9, <3>1 DEF BankSelect, b
    <3>3. Told(k, in) = Knows(<<k.bank[1], {in.value}>>, k.parameter, k.pending, k.value_msb)
      BY <1>4, <2>4, ToldControl
    <3>4. Follows(Told(k, in), Bank(b.msb, {in.value}), pn)
      BY <1>6, <3>3, FollowsBank
    <3> QED  BY <1>5, <1>7, <1>8, <2>2, <3>2, <3>4
  <2> QED  BY <2>1, <2>3, <2>4
<1>10. CASE NumberMsb(in)
  <2> DEFINE n == ParameterNumber(in.index = rpn_msb, {in.value}, pn.lsb, pn.value_msb)
  <2>1. in.index \in {rpn_msb, nrpn_msb}
    BY <1>10 DEF NumberMsb, IsControl
  <2>2. /\ bank' = bank
        /\ parameter_number' = [parameter_number EXCEPT ![in.at] = n]
    BY <1>10 DEF NumberMsb, pn
  <2>3. Told(k, in) = Knows(k.bank, {}, {<<KindOf(in), in.value>>}, k.value_msb)
    BY <1>4, <2>1, ToldControl
  <2>4. (in.index = rpn_msb) = (KindOf(in) = rpn)
    <3>1. rpn # nrpn
      BY DEF rpn, nrpn
    <3>2. rpn_msb # nrpn_msb
      BY ControlNumbers, Zenon
    <3> QED  BY <2>1, <3>1, <3>2, KindOfControl
  <2>5. Follows(Told(k, in), b, n)
    <3> DEFINE is_rpn == in.index = rpn_msb kind == KindOf(in) v == in.value
    <3>1. is_rpn = (kind = rpn)
      BY <2>4
    <3> HIDE DEF is_rpn, kind, v
    <3>2. Follows(Knows(k.bank, {}, {<<kind, v>>}, k.value_msb), b,
                  ParameterNumber(is_rpn, {v}, pn.lsb, pn.value_msb))
      BY <1>6, <3>1, FollowsMsb
    <3> QED  BY <2>3, <3>2 DEF is_rpn, kind, v
  <2> HIDE DEF n
  <2> QED  BY <1>5, <1>7, <1>8, <2>2, <2>5
<1>11. CASE NumberLsb(in)
  <2> DEFINE n == IF IsNull(pn, in) THEN Forgotten(pn)
                  ELSE ParameterNumber(in.index = rpn_lsb, pn.msb, {in.value}, pn.value_msb)
  <2>1. in.index \in {rpn_lsb, nrpn_lsb} /\ IsControl(in, {rpn_lsb, nrpn_lsb})
    BY <1>11 DEF NumberLsb, IsControl
  <2>2. /\ bank' = bank
        /\ parameter_number' = [parameter_number EXCEPT ![in.at] = n]
    BY <1>11 DEF NumberLsb, pn
  <2> DEFINE kind == KindOf(in)
  <2>3. kind \in {rpn, nrpn}
    BY KindOfControl
  <2>4. \E msb : k.pending = {<<kind, msb>>}
    <3>1. PICK q \in k.pending : q[1] = kind
      BY <1>4, <2>1 DEF MaySend
    <3>2. k.pending \in Optional({rpn, nrpn} \X Number7)
      BY <1>4 DEF k, Receivers
    <3>3. k.pending = {q} /\ q = <<q[1], q[2]>>
      BY <3>1, <3>2 DEF Optional
    <3> QED  BY <3>1, <3>3
  <2>5. PICK msb : k.pending = {<<kind, msb>>}
    BY <2>4
  <2>6. (in.index = rpn_lsb) = (kind = rpn)
    <3>1. rpn # nrpn
      BY DEF rpn, nrpn
    <3>2. rpn_lsb # nrpn_lsb
      BY ControlNumbers, Zenon
    <3> QED  BY <2>1, <3>1, <3>2, KindOfControl
  <2> HIDE DEF kind
  <2>7. Told(k, in) = Knows(k.bank, {<<kind, <<msb, in.value>>>>} \ {NullRpn}, {}, {})
    <3>1. Told(k, in) = Knows(k.bank, {<<q[1], <<q[2], in.value>>>> : q \in k.pending}
                                        \ {NullRpn}, {}, {})
      BY <1>4, <2>1, ToldControl
    <3>2. {<<q[1], <<q[2], in.value>>>> : q \in k.pending} = {<<kind, <<msb, in.value>>>>}
      BY <2>5
    <3> QED  BY <3>1, <3>2
  <2>8. Follows(Told(k, in), b, n)
    <3>1. \A v : in.value = v =>
            Follows(Knows(k.bank, {<<kind, <<msb, v>>>>} \ {NullRpn}, {}, {}), b,
                    IF IsNull(pn, in) THEN Forgotten(pn)
                    ELSE ParameterNumber(in.index = rpn_lsb, pn.msb, {v}, pn.value_msb))
      BY <1>6, <2>3, <2>5, <2>6, FollowsLsb, Zenon
    <3> QED  BY <2>7, <3>1, Zenon
  <2> HIDE DEF n
  <2> QED  BY <1>5, <1>7, <1>8, <2>2, <2>8
<1>12. CASE DataMsb(in)
  <2> DEFINE n == ParameterNumber(pn.is_rpn, pn.msb, pn.lsb, {in.value})
  <2>1. in.index = data_entry_msb
    BY <1>12 DEF DataMsb, IsControl
  <2>2. /\ bank' = bank
        /\ parameter_number' = [parameter_number EXCEPT ![in.at] = n]
    BY <1>12 DEF DataMsb, pn
  <2>3. Told(k, in) = Knows(k.bank, k.parameter, k.pending, {in.value})
    BY <1>4, <2>1, ToldControl
  <2>4. Follows(Told(k, in), b, n)
    BY <1>6, <2>3, FollowsEntry
  <2> HIDE DEF n
  <2> QED  BY <1>5, <1>7, <1>8, <2>2, <2>4
<1> QED  BY <1>9, <1>10, <1>11, <1>12

LEMMA ResetReceived ==
  ASSUME NEW in \in M1Messages, NEW h \in [Channels -> Receivers], AllFollow(h), Typed2,
         output2 = <<>>, ~refused2, ResetControllers(in)
  PROVE  AllFollow(Hears(h, in))' /\ AllAgree(output2', Means(h, in))
<1> DEFINE k == h[in.at] b == bank[in.at] pn == parameter_number[in.at]
<1>1. IsControl(in, {reset_all_controllers}) /\ IsControl(in, Controls)
  BY DEF ResetControllers, IsControl, Controls
<1>2. /\ in.at \in Channels /\ in.mt = MT_M1CVM /\ in.status = control_change
      /\ Means(h, in) = Meant(k, in) /\ in.index = reset_all_controllers
  BY <1>1, HearsControl DEF IsControl
<1>3. Follows(k, b, pn) /\ bank = [bank EXCEPT ![in.at] = b]
  BY <1>2 DEF AllFollow, Typed2
<1>4. Told(k, in) = Knows(k.bank, {}, {}, {})
  BY <1>2, ToldControl
<1>5. Follows(Told(k, in), b, Forgotten(pn))
  BY <1>3, <1>4, FollowsReset
<1>6. /\ Emit2(<<Scaled(in)>>) /\ bank' = bank
      /\ parameter_number' = [parameter_number EXCEPT ![in.at] = Forgotten(pn)]
  BY DEF ResetControllers
<1>7. in.status \in Valued
  BY <1>2 DEF Valued
<1>8. Meant(k, in) = <<Voice(MT_M2CVM, in.status, in.at, in.index, in.value)>>
  <2>1. in.status # program_change
    BY <1>2 DEF control_change, program_change
  <2>2. reset_all_controllers # data_entry_lsb
    BY ControlNumbers, Zenon
  <2>3. ~IsControl(in, {data_entry_lsb}) /\ ~IsControl(in, Controls \ {reset_all_controllers})
    BY <1>2, <2>2 DEF IsControl
  <2> QED  BY <1>2, <2>1, <2>3 DEF Meant
<1> HIDE DEF k, b, pn
<1>9. AllFollow(Hears(h, in))'
  BY <1>1, <1>3, <1>5, <1>6, ContextReceived DEF k
<1> QED  BY <1>2, <1>6, <1>7, <1>8, <1>9, ValueReceived

\* A parameter is sent exactly when a receiver knows which one, and its value.
LEMMA EntryReceived ==
  ASSUME NEW in \in M1Messages, NEW h \in [Channels -> Receivers], AllFollow(h), Typed2,
         MayHear(h, in), output2 = <<>>, ~refused2, DataLsb(in)
  PROVE  AllFollow(Hears(h, in))' /\ AllAgree(output2', Means(h, in))
<1> DEFINE k == h[in.at] pn == parameter_number[in.at]
           known == pn.msb \X pn.lsb \X pn.value_msb
           sent == {SentFor(pn, in, j) : j \in known}
           meant == {Voice(MT_M2CVM, j[1][1], in.at, j[1][2], Joined(j[2], in.value)) :
                       j \in k.parameter \X k.value_msb}
<1>1. IsControl(in, {data_entry_lsb}) /\ IsControl(in, Controls)
      /\ in.index = data_entry_lsb
  BY DEF DataLsb, IsControl, Controls
<1>2. /\ in.at \in Channels /\ in.mt = MT_M1CVM /\ in.status = control_change
      /\ Means(h, in) = Meant(k, in) /\ MaySend(k, in) /\ in.value \in Number7
  BY <1>1, HearsControl, ControlOf
<1>3. Send2(Listed(sent)) /\ bank' = bank /\ parameter_number' = parameter_number
  BY DEF DataLsb, SentFor, Send2
<1>4. AllFollow(Hears(h, in))'
  <2>1. ~IsControl(in, Controls \ {data_entry_lsb})
    BY <1>1 DEF IsControl
  <2>2. Hears(h, in) = h
    BY <2>1, HearsNothing
  <2> QED  BY <1>3, <2>2 DEF AllFollow
<1>5. Meant(k, in) = Listed(meant)
  <2>1. in.status # program_change
    BY <1>2 DEF control_change, program_change
  <2> QED  BY <1>1, <1>2, <2>1 DEF Meant
<1>6. Follows(k, bank[in.at], pn) /\ k \in Receivers /\ pn \in ParameterNumbers
  BY <1>2 DEF AllFollow, Typed2
<1>7. k.pending = {} /\ (k.parameter = {} \/ k.value_msb # {})
  <2>1. IsControl(in, {data_entry_msb, data_entry_lsb})
    BY <1>1 DEF IsControl
  <2> QED  BY <1>1, <1>2, <2>1 DEF MaySend
<1> HIDE DEF k, pn
<1>8. CASE k.parameter = {}
  <2>1. pn.msb = {}
    BY <1>6, <1>7, <1>8 DEF Follows
  <2>2. known = {} /\ k.parameter \X k.value_msb = {}
    BY <1>8, <2>1
  <2>3. sent = {} /\ meant = {}
    BY <2>2
  <2>4. Emit2(<<>>) /\ Meant(k, in) = <<>>
    BY <1>3, <1>5, <2>3 DEF Listed, Send2
  <2>5. output2' = <<>>
    <3>1. <<>> \in Seq(Outputs2) /\ Len(<<>>) <= 1
      OBVIOUS
    <3> QED  BY <2>4, <3>1, Emitted2
  <2> QED  BY <1>2, <1>4, <2>4, <2>5, AgreeNone
<1>9. CASE k.parameter # {}
  <2>1. /\ k.parameter \in Optional({rpn, nrpn} \X (Number7 \X Number7))
        /\ k.value_msb \in Optional(Number7)
    BY <1>6 DEF Receivers
  <2>2. PICK p \in {rpn, nrpn} \X (Number7 \X Number7) : k.parameter = {p}
    BY <1>9, <2>1, OptionalValues
  <2>3. PICK v \in Number7 : k.value_msb = {v}
    BY <1>7, <1>9, <2>1, OptionalValues
  <2> DEFINE kind == p[1] msb == p[2][1] lsb == p[2][2]
             value == Joined(v, in.value)
             want == Voice(MT_M2CVM, kind, in.at, <<msb, lsb>>, value)
             got  == Voice(MT_M2CVM, kind, in.at, <<msb, lsb>>, Scale(14, 32, value))
  <2>4. /\ kind \in {rpn, nrpn} /\ msb \in Number7 /\ lsb \in Number7
        /\ p[2] = <<msb, lsb>>
    OBVIOUS
  <2>5. /\ pn.is_rpn = (kind = rpn) /\ pn.msb = {msb} /\ pn.lsb = {lsb}
        /\ pn.value_msb = {v}
    BY <1>6, <2>2, <2>3 DEF Follows
  <2>6. meant = {want}
    <3> DEFINE y == <<p, v>>
    <3>1. k.parameter \X k.value_msb = {y} /\ y[1] = p /\ y[2] = v
      BY <2>2, <2>3
    <3> HIDE DEF y, want
    <3>2. meant = {Voice(MT_M2CVM, j[1][1], in.at, j[1][2], Joined(j[2], in.value)) :
                     j \in {y}}
      BY <3>1
    <3>3. meant = {Voice(MT_M2CVM, y[1][1], in.at, y[1][2], Joined(y[2], in.value))}
      BY <3>2, Zenon
    <3> QED  BY <2>4, <3>1, <3>3 DEF want
  <2>7. sent = {got}
    <3> DEFINE y == <<msb, lsb, v>>
    <3>1. known = {y}
      BY <2>5
    <3>2. sent = {SentFor(pn, in, j) : j \in {y}}
      BY <3>1
    <3>3. sent = {SentFor(pn, in, y)}
      BY <3>2, Zenon
    <3>4. (IF pn.is_rpn THEN rpn ELSE nrpn) = kind
      BY <2>4, <2>5 DEF rpn, nrpn
    <3>5. SentFor(pn, in, y) = got
      BY <3>4 DEF SentFor
    <3> QED  BY <3>3, <3>5
  <2>8. value \in SUBSET (0 .. 14 - 1)
    <3>1. value \in SUBSET (0 .. 13)
      BY <1>2, JoinedType
    <3> QED  BY <3>1
  <2>9. Agrees(got, want)
    <3>1. 14 \in {7, 14} /\ 32 \in {16, 32} /\ 14 < 32
      OBVIOUS
    <3>2. /\ 14 = IF kind \in {rpn, nrpn} THEN 14 ELSE M1Width(kind)
          /\ 32 = IF kind \in {rpn, nrpn} THEN 32 ELSE M2Width(kind)
      BY <2>4
    <3> HIDE DEF kind, msb, lsb, value
    <3> QED  BY <2>8, <3>1, <3>2, AgreesScaled
  <2>10. got \in Outputs2
    <3>1. Scale(14, 32, value) \in SUBSET (0 .. 32 - 1)
      <4>1. 14 \in Nat \ {0} /\ 32 \in Nat \ {0}
        OBVIOUS
      <4> HIDE DEF value
      <4> QED  BY <2>8, <4>1, ScaleType, Zenon
    <3>2. Scale(14, 32, value) \in SUBSET (0 .. 31) /\ <<msb, lsb>> \in Number7 \X Number7
      BY <2>4, <3>1
    <3> QED  BY <1>2, <2>4, <3>2, Made2 DEF Outputs2
  <2> HIDE DEF sent, meant, got, want
  <2>11. Listed(sent) = <<got>> /\ Listed(meant) = <<want>>
    BY <2>6, <2>7, OnlyOne
  <2>12. output2' = <<got>>
    BY <1>3, <2>10, <2>11, SentOne DEF Send2
  <2> QED  BY <1>2, <1>4, <1>5, <2>9, <2>11, <2>12, AgreeOne
<1> QED  BY <1>8, <1>9

LEMMA OneReceived ==
  ASSUME NEW in \in M1Messages, NEW h \in [Channels -> Receivers], AllFollow(h), Typed2,
         MayHear(h, in), output2 = <<>>, ~refused2, Push2(in)
  PROVE  AllFollow(Hears(h, in))' /\ AllAgree(output2', Means(h, in))
BY PassReceived, PlainReceived, ProgramReceived, ControlReceived, ResetReceived,
   EntryReceived DEF Push2

-------------------------------------------------------------------------------
(* The messages on the link.  Between the two ends there is a trail: what a       *)
(* receiver knows before and after each message, from what the translator at the  *)
(* far end follows to what has been put on the link; and what is expected, from   *)
(* what is in the output to all that is meant.                                    *)

Trail(H, D) ==
  /\ H \in [0 .. Len(link) -> [Channels -> Receivers]]
  /\ D \in [0 .. Len(link) -> Seq(Outputs2)]
  /\ \A i \in 1 .. Len(link) :
       /\ MayHear(H[i - 1], link[i])
       /\ H[i] = Hears(H[i - 1], link[i])
       /\ D[i] = D[i - 1] \o Means(H[i - 1], link[i])
  /\ AllFollow(H[0]) /\ AllAgree(output2, D[0])
  /\ H[Len(link)] = holds /\ D[Len(link)] = expected

OnTrail == \E H, D : Trail(H, D)
FarInv == FarEndAgrees /\ OnTrail

LEMMA MeantType ==
  ASSUME NEW h \in Receivers, NEW m \in M1Messages
  PROVE  Meant(h, m) \in Seq(Outputs2)
<1>1. /\ h.bank[1] \in Optional(Number7) /\ h.bank[2] \in Optional(Number7)
      /\ h.parameter \in Optional({rpn, nrpn} \X (Number7 \X Number7))
      /\ h.value_msb \in Optional(Number7)
  BY DEF Receivers
<1>2. \A x \in Outputs2 : <<x>> \in Seq(Outputs2)
  OBVIOUS
<1>3. <<>> \in Seq(Outputs2)
  OBVIOUS
<1>4. m.mt # MT_M1CVM => m \in Outputs2
  BY Kinds1 DEF Outputs2
<1>5. ASSUME m.mt = MT_M1CVM
      PROVE  m.at \in Channels /\ m.index \in Number7
             /\ m.status \in Valued \union {program_change}
  BY <1>5, Kinds1
<1>6. m.mt = MT_M1CVM /\ m.status = program_change =>
        Program(MT_M2CVM, m.at, m.index, h.bank[1] \X h.bank[2]) \in Outputs2
  BY <1>1, <1>5, OptionalPair, Made2 DEF Outputs2
<1>7. ASSUME m.mt = MT_M1CVM, m.status # program_change
      PROVE  Voice(MT_M2CVM, m.status, m.at, m.index, m.value) \in Outputs2
  <2>1. m.value \in SUBSET (0 .. M1Width(m.status) - 1) /\ m.status \in Valued
    BY <1>5, <1>7, Kinds1
  <2>2. /\ M1Width(m.status) \in Nat /\ M2Width(m.status) \in Nat
        /\ M1Width(m.status) < M2Width(m.status)
    BY WidthsType
  <2>3. m.value \in SUBSET (0 .. M2Width(m.status) - 1)
    BY <2>1, <2>2
  <2> QED  BY <1>5, <1>7, <2>1, <2>3, Made2 DEF Outputs2
<1>8. ASSUME IsControl(m, {data_entry_lsb})
      PROVE  Listed({Voice(MT_M2CVM, k[1][1], m.at, k[1][2], Joined(k[2], m.value)) :
                       k \in h.parameter \X h.value_msb}) \in Seq(Outputs2)
  <2> DEFINE S == {Voice(MT_M2CVM, k[1][1], m.at, k[1][2], Joined(k[2], m.value)) :
                     k \in h.parameter \X h.value_msb}
  <2>1. ASSUME NEW k \in h.parameter \X h.value_msb
        PROVE  Voice(MT_M2CVM, k[1][1], m.at, k[1][2], Joined(k[2], m.value)) \in Outputs2
    <3>1. k[1][1] \in {rpn, nrpn} /\ k[1][2] \in Number7 \X Number7 /\ k[2] \in Number7
      BY <1>1 DEF Optional
    <3>2. m.at \in Channels /\ m.value \in Number7
      BY <1>8, ControlOf
    <3>3. Joined(k[2], m.value) \in SUBSET (0 .. 31)
      <4>1. Joined(k[2], m.value) \in SUBSET (0 .. 13)
        BY <3>1, <3>2, JoinedType
      <4> QED  BY <4>1
    <3> QED  BY <3>1, <3>2, <3>3, Made2 DEF Outputs2
  <2>2. S \subseteq Outputs2
    BY <2>1
  <2> HIDE DEF S
  <2>3. S # {} => Only(S) \in S
    BY DEF Only
  <2>4. Listed(S) \in Seq(Outputs2)
    BY <1>2, <1>3, <2>2, <2>3 DEF Listed
  <2> QED  BY <2>4 DEF S
<1> QED  BY <1>2, <1>3, <1>4, <1>6, <1>7, <1>8 DEF Meant

LEMMA MeansType ==
  ASSUME NEW h \in [Channels -> Receivers], NEW m \in M1Messages
  PROVE  Means(h, m) \in Seq(Outputs2)
<1>1. IsVoice(m) => m.at \in Channels
  BY Kinds1 DEF IsVoice
<1> QED  BY <1>1, MeantType, UnawareType DEF Means

LEMMA TrailSame ==
  ASSUME NEW H, NEW D, Trail(H, D),
         UNCHANGED <<link, holds, expected, bank, parameter_number, output2>>
  PROVE  Trail(H, D)'
BY DEF Trail, AllFollow

\* A message is put on the link.
LEMMA TrailCarry ==
  ASSUME NEW H, NEW D, Trail(H, D), link \in Seq(M1Messages), NEW m \in M1Messages,
         MayHear(holds, m), Carry(m), UNCHANGED <<bank, parameter_number, output2>>
  PROVE  \E G, E : Trail(G, E)'
<1> DEFINE n == Len(link)
<1>1. n \in Nat
  OBVIOUS
<1>13. PICK G : G = [i \in 0 .. n + 1 |-> IF i <= n THEN H[i] ELSE Hears(holds, m)]
  OBVIOUS
<1>14. PICK E : E = [i \in 0 .. n + 1 |-> IF i <= n THEN D[i] ELSE expected \o Means(holds, m)]
  OBVIOUS
<1>2. /\ link' = Append(link, m) /\ expected' = expected \o Means(holds, m)
      /\ holds' = Hears(holds, m)
  BY DEF Carry, MeantNow, Means, Hears
<1>3. /\ Len(link') = n + 1 /\ link'[n + 1] = m
      /\ \A i \in 1 .. n : link'[i] = link[i]
  BY <1>2, AppendProperties
<1>4. /\ H \in [0 .. n -> [Channels -> Receivers]] /\ D \in [0 .. n -> Seq(Outputs2)]
      /\ \A i \in 1 .. n : /\ MayHear(H[i - 1], link[i])
                           /\ H[i] = Hears(H[i - 1], link[i])
                           /\ D[i] = D[i - 1] \o Means(H[i - 1], link[i])
      /\ AllFollow(H[0]) /\ AllAgree(output2, D[0])
      /\ H[n] = holds /\ D[n] = expected
  BY DEF Trail
<1> HIDE DEF n
<1>5. holds \in [Channels -> Receivers] /\ expected \in Seq(Outputs2)
  <2>1. n \in 0 .. n
    BY <1>1
  <2> QED  BY <1>4, <2>1
<1>6. Hears(holds, m) \in [Channels -> Receivers]
  BY <1>5, HearsType
<1>7. expected \o Means(holds, m) \in Seq(Outputs2)
  BY <1>5, MeansType, ConcatProperties
<1>8. /\ \A i \in 0 .. n : G[i] = H[i] /\ E[i] = D[i]
      /\ G[n + 1] = Hears(holds, m) /\ E[n + 1] = expected \o Means(holds, m)
  BY <1>1, <1>13, <1>14
<1>9. G \in [0 .. n + 1 -> [Channels -> Receivers]] /\ E \in [0 .. n + 1 -> Seq(Outputs2)]
  <2>1. \A i \in 0 .. n + 1 : i <= n => i \in 0 .. n
    BY <1>1
  <2> QED  BY <1>4, <1>6, <1>7, <1>13, <1>14, <2>1
<1>10. ASSUME NEW i \in 1 .. n + 1
       PROVE  /\ MayHear(G[i - 1], link'[i])
              /\ G[i] = Hears(G[i - 1], link'[i])
              /\ E[i] = E[i - 1] \o Means(G[i - 1], link'[i])
  <2>1. CASE i \in 1 .. n
    <3>1. i \in 0 .. n /\ i - 1 \in 0 .. n
      BY <1>1, <2>1
    <3> QED  BY <1>3, <1>4, <1>8, <2>1, <3>1
  <2>2. CASE i = n + 1
    <3>1. i - 1 = n /\ n \in 0 .. n
      BY <1>1, <2>2
    <3> QED  BY <1>3, <1>4, <1>8, <2>2, <3>1
  <2>3. i \in 1 .. n \/ i = n + 1
    BY <1>1
  <2> QED  BY <2>1, <2>2, <2>3
<1>11. AllFollow(G[0])' /\ AllAgree(output2', E[0])
  <2>1. 0 \in 0 .. n
    BY <1>1
  <2>2. G[0] = H[0] /\ E[0] = D[0]
    BY <1>8, <2>1
  <2> QED  BY <1>4, <2>2 DEF AllFollow
<1>12. Trail(G, E)'
  <2>1. n + 1 \in Nat /\ Len(link') = n + 1
    BY <1>1, <1>3
  <2>2. G[n + 1] = holds' /\ E[n + 1] = expected'
    BY <1>2, <1>8
  <2> QED  BY <1>9, <1>10, <1>11, <2>1, <2>2 DEF Trail
<1> QED  BY <1>12

\* The translator at the far end takes the first message from the link.
LEMMA TrailReceive ==
  ASSUME NEW H, NEW D, Trail(H, D), TypeInv, Receive
  PROVE  \E G, E : Trail(G, E)'
<1> DEFINE n == Len(link)
<1>11. PICK in : in = link[1]
  OBVIOUS
<1>1. /\ link \in Seq(M1Messages) /\ Typed2 /\ ~refused2
  BY TypeInvParts DEF TypedLink
<1>2. /\ link # <<>> /\ output2 = <<>> /\ Push2(Head(link)) /\ link' = Tail(link)
      /\ UNCHANGED <<holds, expected>>
  BY DEF Receive
<1>3. /\ n \in Nat /\ n > 0 /\ in \in M1Messages /\ Push2(in)
      /\ Len(link') = n - 1 /\ \A i \in 1 .. n - 1 : link'[i] = link[i + 1]
  <2>1. /\ Tail(link) \in Seq(M1Messages) /\ Len(Tail(link)) = n - 1
        /\ \A i \in 1 .. Len(Tail(link)) : Tail(link)[i] = link[i + 1]
    BY <1>1, <1>2, HeadTailProperties
  <2>2. n \in Nat /\ n > 0 /\ Head(link) = link[1]
    BY <1>1, <1>2, EmptySeq
  <2>3. in \in M1Messages
    BY <1>1, <1>11, <2>2
  <2> QED  BY <1>2, <1>11, <2>1, <2>2, <2>3
<1>4. /\ H \in [0 .. n -> [Channels -> Receivers]] /\ D \in [0 .. n -> Seq(Outputs2)]
      /\ \A i \in 1 .. n : /\ MayHear(H[i - 1], link[i])
                           /\ H[i] = Hears(H[i - 1], link[i])
                           /\ D[i] = D[i - 1] \o Means(H[i - 1], link[i])
      /\ AllFollow(H[0]) /\ AllAgree(output2, D[0])
      /\ H[n] = holds /\ D[n] = expected
  BY DEF Trail
<1> HIDE DEF n
<1>5. PICK G : G = [i \in 0 .. n - 1 |-> H[i + 1]]
  OBVIOUS
<1>6. PICK E : E = [i \in 0 .. n - 1 |-> D[i + 1]]
  OBVIOUS
<1>7. 0 \in 0 .. n /\ 0 \in 0 .. n - 1 /\ 1 \in 1 .. n /\ 1 - 1 = 0 /\ 0 + 1 = 1
  BY <1>3
<1>8. /\ \A i \in 0 .. n - 1 : G[i] = H[i + 1] /\ E[i] = D[i + 1]
      /\ G \in [0 .. n - 1 -> [Channels -> Receivers]] /\ E \in [0 .. n - 1 -> Seq(Outputs2)]
  <2>1. \A i \in 0 .. n - 1 : i + 1 \in 0 .. n
    BY <1>3
  <2> QED  BY <1>4, <1>5, <1>6, <2>1
<1>9. /\ H[0] \in [Channels -> Receivers] /\ MayHear(H[0], in)
      /\ G[0] = Hears(H[0], in) /\ E[0] = Means(H[0], in)
  <2>1. D[0] = <<>>
    <3>1. Len(D[0]) = 0 /\ D[0] \in Seq(Outputs2)
      BY <1>2, <1>4, <1>7 DEF AllAgree
    <3> QED  BY <3>1, EmptySeq
  <2>2. H[0] \in [Channels -> Receivers] /\ MayHear(H[0], in)
        /\ H[1] = Hears(H[0], in) /\ D[1] = D[0] \o Means(H[0], in)
    BY <1>4, <1>7, <1>11
  <2>3. Means(H[0], in) \in Seq(Outputs2)
    BY <1>3, <2>2, MeansType
  <2>4. <<>> \o Means(H[0], in) = Means(H[0], in)
    BY <2>3, ConcatEmptySeq
  <2> QED  BY <1>7, <1>8, <2>1, <2>2, <2>4
<1>10. AllFollow(G[0])' /\ AllAgree(output2', E[0])
  <2>1. PICK h : h = H[0]
    OBVIOUS
  <2>2. h \in [Channels -> Receivers] /\ AllFollow(h) /\ MayHear(h, in)
    BY <1>4, <1>9, <2>1
  <2>3. AllFollow(Hears(h, in))' /\ AllAgree(output2', Means(h, in))
    BY <1>1, <1>2, <1>3, <2>2, OneReceived
  <2>4. G[0] = Hears(h, in)
    BY <1>9, <2>1
  <2>5. AllFollow(G[0])'
    BY <2>3, <2>4
  <2> QED  BY <1>9, <2>1, <2>3, <2>5
<1>12. ASSUME NEW i \in 1 .. n - 1
       PROVE  /\ MayHear(G[i - 1], link'[i])
              /\ G[i] = Hears(G[i - 1], link'[i])
              /\ E[i] = E[i - 1] \o Means(G[i - 1], link'[i])
  <2>1. /\ i \in 0 .. n - 1 /\ i - 1 \in 0 .. n - 1 /\ i + 1 \in 1 .. n
        /\ (i + 1) - 1 = i /\ (i - 1) + 1 = i
    BY <1>3
  <2>2. G[i - 1] = H[i] /\ E[i - 1] = D[i] /\ G[i] = H[i + 1] /\ E[i] = D[i + 1]
    BY <1>8, <2>1
  <2>3. /\ MayHear(H[i], link[i + 1]) /\ H[i + 1] = Hears(H[i], link[i + 1])
        /\ D[i + 1] = D[i] \o Means(H[i], link[i + 1])
    BY <1>4, <2>1
  <2>4. link'[i] = link[i + 1]
    BY <1>3
  <2> QED  BY <2>2, <2>3, <2>4
<1>13. G[n - 1] = holds' /\ E[n - 1] = expected'
  <2>1. n - 1 \in 0 .. n - 1 /\ (n - 1) + 1 = n
    BY <1>3
  <2> QED  BY <1>2, <1>4, <1>8, <2>1
<1>14. Trail(G, E)'
  <2>1. Len(link') = n - 1 /\ n - 1 \in Nat
    BY <1>3
  <2> QED  BY <1>8, <1>10, <1>12, <1>13, <2>1 DEF Trail
<1> QED  BY <1>14

LEMMA TailConcat ==
  ASSUME NEW S, NEW s \in Seq(S), s # <<>>, NEW r \in Seq(S)
  PROVE  s \o r # <<>> /\ Head(s \o r) = Head(s) /\ Tail(s \o r) = Tail(s) \o r
<1> DEFINE c == s \o r t == Tail(s) u == Tail(c) v == t \o r n == Len(s) k == Len(r)
<1>1. n \in Nat /\ k \in Nat /\ n # 0
  BY EmptySeq
<1>2. /\ c \in Seq(S) /\ Len(c) = n + k
      /\ \A i \in 1 .. n + k : c[i] = IF i <= n THEN s[i] ELSE r[i - n]
  BY ConcatProperties
<1>3. t \in Seq(S) /\ Len(t) = n - 1 /\ \A i \in 1 .. n - 1 : t[i] = s[i + 1]
  BY HeadTailProperties
<1> HIDE DEF c, t, n, k
<1>4. c # <<>>
  BY <1>1, <1>2, EmptySeq
<1>5. /\ u \in Seq(S) /\ Len(u) = n + k - 1
      /\ \A i \in 1 .. n + k - 1 : u[i] = c[i + 1]
  BY <1>1, <1>2, <1>4, HeadTailProperties
<1>6. /\ v \in Seq(S) /\ Len(v) = n + k - 1
      /\ \A i \in 1 .. n + k - 1 : v[i] = IF i <= n - 1 THEN t[i] ELSE r[i - (n - 1)]
  <2>1. Len(t) = n - 1 /\ Len(r) = k
    BY <1>3 DEF k
  <2>2. /\ v \in Seq(S) /\ Len(v) = Len(t) + Len(r)
        /\ \A i \in 1 .. Len(t) + Len(r) : v[i] = IF i <= Len(t) THEN t[i] ELSE r[i - Len(t)]
    BY <1>3, ConcatProperties
  <2>3. (n - 1) + k = n + k - 1
    BY <1>1
  <2> HIDE DEF v
  <2> QED  BY <2>1, <2>2, <2>3
<1> HIDE DEF u, v
<1>7. ASSUME NEW i \in 1 .. n + k - 1
      PROVE  u[i] = v[i]
  <2>1. i + 1 \in 1 .. n + k /\ i \in Nat
    BY <1>1
  <2>2. u[i] = IF i + 1 <= n THEN s[i + 1] ELSE r[(i + 1) - n]
    BY <1>2, <1>5, <2>1
  <2>3. CASE i + 1 <= n
    <3>1. i <= n - 1 /\ i \in 1 .. n - 1
      BY <1>1, <2>1, <2>3
    <3> QED  BY <1>3, <1>6, <2>2, <2>3, <3>1
  <2>4. CASE ~(i + 1 <= n)
    <3>1. ~(i <= n - 1) /\ (i + 1) - n = i - (n - 1)
      BY <1>1, <2>1, <2>4
    <3> QED  BY <1>6, <2>2, <2>4, <3>1
  <2> QED  BY <2>3, <2>4
<1>8. u = v
  BY <1>5, <1>6, <1>7, SeqEqual
<1>9. Head(c) = Head(s)
  <2>1. 1 \in 1 .. n + k /\ 1 <= n
    BY <1>1
  <2>2. c[1] = s[1]
    BY <1>2, <2>1
  <2> QED  BY <2>2
<1> QED  BY <1>4, <1>8, <1>9 DEF c, u, v, t

\* The client at the far end takes the next message from the output.
LEMMA TrailDeliver ==
  ASSUME NEW H, NEW D, Trail(H, D), TypeInv, Deliver
  PROVE  FarEndAgrees' /\ \E E : Trail(H, E)'
<1> DEFINE n == Len(link)
<1>1. link \in Seq(M1Messages) /\ output2 \in Seq(Outputs2)
  BY TypeInvParts DEF TypedLink
<1>2. /\ output2 # <<>> /\ output2' = Tail(output2)
      /\ UNCHANGED <<bank, parameter_number, link, holds>>
  BY DEF Deliver, Pop2
<1>3. /\ H \in [0 .. n -> [Channels -> Receivers]] /\ D \in [0 .. n -> Seq(Outputs2)]
      /\ \A i \in 1 .. n : /\ MayHear(H[i - 1], link[i])
                           /\ H[i] = Hears(H[i - 1], link[i])
                           /\ D[i] = D[i - 1] \o Means(H[i - 1], link[i])
      /\ AllFollow(H[0]) /\ AllAgree(output2, D[0])
      /\ H[n] = holds /\ D[n] = expected
  BY DEF Trail
<1>4. n \in Nat /\ 0 \in 0 .. n /\ n \in 0 .. n /\ \A i \in 1 .. n : link[i] \in M1Messages
  BY <1>1
<1> HIDE DEF n
<1>5. D[0] \in Seq(Outputs2) /\ D[0] # <<>> /\ Len(output2) = Len(D[0]) /\ Len(output2) # 0
      /\ Agrees(output2[1], D[0][1])
  <2>1. Len(output2) \in Nat /\ Len(output2) # 0
    BY <1>1, <1>2, EmptySeq
  <2>2. D[0] \in Seq(Outputs2) /\ Len(output2) = Len(D[0])
        /\ \A i \in 1 .. Len(output2) : Agrees(output2[i], D[0][i])
    BY <1>3, <1>4 DEF AllAgree
  <2>3. D[0] # <<>> /\ 1 \in 1 .. Len(output2)
    BY <2>1, <2>2, EmptySeq
  <2> QED  BY <2>1, <2>2, <2>3
<1>6. ASSUME NEW i \in 1 .. n, D[i - 1] # <<>>
      PROVE  /\ D[i] # <<>> /\ Head(D[i]) = Head(D[i - 1])
             /\ Tail(D[i]) = Tail(D[i - 1]) \o Means(H[i - 1], link[i])
  <2>1. i - 1 \in 0 .. n /\ link[i] \in M1Messages
    BY <1>4
  <2>2. D[i - 1] \in Seq(Outputs2) /\ H[i - 1] \in [Channels -> Receivers]
    BY <1>3, <2>1
  <2>3. Means(H[i - 1], link[i]) \in Seq(Outputs2)
    BY <2>1, <2>2, MeansType
  <2> DEFINE s == D[i - 1] r == Means(H[i - 1], link[i])
  <2>4. s \in Seq(Outputs2) /\ s # <<>> /\ r \in Seq(Outputs2) /\ D[i] = s \o r
    BY <1>3, <1>6, <2>2, <2>3
  <2> HIDE DEF s, r
  <2>5. D[i] # <<>> /\ Head(D[i]) = Head(s) /\ Tail(D[i]) = Tail(s) \o r
    BY <2>4, TailConcat
  <2> QED  BY <2>5 DEF s, r
<1> DEFINE T == {i \in Nat : i <= n => D[i] # <<>> /\ Head(D[i]) = Head(D[0])}
<1>7. T = Nat
  <2>1. 0 \in T
    BY <1>5
  <2>2. ASSUME NEW i \in T
        PROVE  i + 1 \in T
    <3>1. i \in Nat /\ i + 1 \in Nat /\ (i + 1) - 1 = i
      OBVIOUS
    <3>2. ASSUME i + 1 <= n
          PROVE  D[i + 1] # <<>> /\ Head(D[i + 1]) = Head(D[0])
      <4>1. i + 1 \in 1 .. n /\ D[i] # <<>> /\ Head(D[i]) = Head(D[0])
        BY <1>4, <3>1, <3>2
      <4>2. D[(i + 1) - 1] # <<>>
        BY <3>1, <4>1
      <4>3. D[i + 1] # <<>> /\ Head(D[i + 1]) = Head(D[(i + 1) - 1])
        BY <1>6, <4>1, <4>2
      <4> QED  BY <3>1, <4>1, <4>3
    <3> QED  BY <3>1, <3>2
  <2>3. T \in SUBSET Nat
    OBVIOUS
  <2> HIDE DEF T
  <2> QED  BY <2>1, <2>2, <2>3, AllNumbers
<1>8. \A i \in 0 .. n : D[i] # <<>> /\ Head(D[i]) = Head(D[0])
  BY <1>4, <1>7
<1> HIDE DEF T
<1>9. /\ expected # <<>> /\ Head(expected) = Head(D[0])
      /\ expected' = Tail(expected)
      /\ received' = <<Head(output2), Head(expected)>>
  <2>1. expected # <<>> /\ Head(expected) = Head(D[0])
    BY <1>3, <1>4, <1>8
  <2> QED  BY <2>1 DEF Deliver
<1>10. FarEndAgrees'
  <2>1. Head(output2) = output2[1] /\ Head(D[0]) = D[0][1]
    BY <1>1, <1>2, <1>5
  <2> DEFINE a == Head(output2) b == Head(expected)
  <2>2. Agrees(a, b)
    BY <1>5, <1>9, <2>1
  <2> HIDE DEF a, b
  <2>3. received' = <<a, b>>
    BY <1>9 DEF a, b
  <2>4. Len(received') = 2 /\ received'[1] = a /\ received'[2] = b
    BY <2>3
  <2> QED  BY <2>2, <2>4 DEF FarEndAgrees
<1>11. PICK E : E = [i \in 0 .. n |-> Tail(D[i])]
  OBVIOUS
<1>12. \A i \in 0 .. n : E[i] = Tail(D[i]) /\ E[i] \in Seq(Outputs2)
  <2>1. \A i \in 0 .. n : D[i] \in Seq(Outputs2) /\ D[i] # <<>>
    BY <1>3, <1>8
  <2>2. \A i \in 0 .. n : Tail(D[i]) \in Seq(Outputs2)
    BY <2>1, HeadTailProperties
  <2> QED  BY <1>11, <2>2
<1>13. E \in [0 .. n -> Seq(Outputs2)]
  BY <1>11, <1>12
<1>14. ASSUME NEW i \in 1 .. n
       PROVE  E[i] = E[i - 1] \o Means(H[i - 1], link[i])
  <2>1. i \in 0 .. n /\ i - 1 \in 0 .. n
    BY <1>4
  <2>2. Tail(D[i]) = Tail(D[i - 1]) \o Means(H[i - 1], link[i])
    BY <1>6, <1>8, <2>1
  <2> QED  BY <1>12, <2>1, <2>2
<1>15. AllAgree(output2', E[0])
  <2> DEFINE u == Tail(output2) v == Tail(D[0])
  <2>1. /\ Len(u) = Len(output2) - 1 /\ Len(v) = Len(D[0]) - 1
        /\ \A i \in 1 .. Len(u) : u[i] = output2[i + 1]
        /\ \A i \in 1 .. Len(v) : v[i] = D[0][i + 1]
    BY <1>1, <1>2, <1>5, HeadTailProperties
  <2>2. Len(output2) \in Nat
    BY <1>1
  <2>3. \A i \in 1 .. Len(output2) : Agrees(output2[i], D[0][i])
    BY <1>3 DEF AllAgree
  <2> HIDE DEF u, v
  <2>4. Len(u) = Len(v) /\ Len(u) \in Nat
    BY <1>5, <2>1, <2>2
  <2>5. ASSUME NEW i \in 1 .. Len(u)
        PROVE  Agrees(u[i], v[i])
    <3>1. i + 1 \in 1 .. Len(output2) /\ i \in 1 .. Len(v)
      BY <2>1, <2>2, <2>4
    <3>2. u[i] = output2[i + 1] /\ v[i] = D[0][i + 1]
      BY <2>1, <3>1
    <3> QED  BY <2>3, <3>1, <3>2
  <2>6. AllAgree(u, v)
    BY <2>4, <2>5 DEF AllAgree
  <2>7. output2' = u /\ E[0] = v
    BY <1>2, <1>4, <1>12 DEF u, v
  <2> QED  BY <2>6, <2>7
<1>16. AllFollow(H[0])'
  BY <1>2, <1>3 DEF AllFollow
<1>17. Trail(H, E)'
  <2>1. Len(link') = n /\ link' = link /\ E[n] = expected' /\ H[n] = holds'
    BY <1>2, <1>3, <1>4, <1>9, <1>12 DEF n
  <2> QED  BY <1>3, <1>13, <1>14, <1>15, <1>16, <2>1 DEF Trail
<1> QED  BY <1>10, <1>17

-------------------------------------------------------------------------------
(* The steps.                                                                    *)

\* Nobody has been told anything.
LEMMA FollowsUnaware ==
  ASSUME NEW is_rpn, NEW value_msb
  PROVE  Follows(Unaware, NoBank, ParameterNumber(is_rpn, {}, {}, value_msb))
<1> DEFINE k == Unaware
           b == NoBank
           n == ParameterNumber(is_rpn, {}, {}, value_msb)
<1>1. /\ k.bank = <<{}, {}>> /\ k.parameter = {} /\ k.pending = {} /\ k.value_msb = {}
  BY KnowsFields DEF Unaware
<1>2. b.msb = {} /\ b.lsb = {} /\ n.msb = {} /\ n.lsb = {}
  BY NumberFields DEF NoBank
<1> HIDE DEF k, b, n
<1>3. Follows(k, b, n)
  BY <1>1, <1>2 DEF Follows
<1> QED  BY <1>3 DEF k, b, n

\* With nothing on the link the trail is one state.
NothingTold ==
  /\ link = <<>> /\ output2 = <<>> /\ expected = <<>>
  /\ holds = [at \in Channels |-> Unaware]
  /\ \A at \in Channels : Follows(Unaware, bank[at], parameter_number[at])

LEMMA TrailEmpty == NothingTold => OnTrail
<1> SUFFICES ASSUME NothingTold PROVE OnTrail
  OBVIOUS
<1> USE DEF NothingTold
<1>1. PICK H : H = [i \in 0 .. 0 |-> holds]
  OBVIOUS
<1>2. PICK D : D = [i \in 0 .. 0 |-> expected]
  OBVIOUS
<1>3. holds \in [Channels -> Receivers] /\ expected \in Seq(Outputs2) /\ Len(link) = 0
  BY UnawareType
<1>4. 0 \in 0 .. 0 /\ \A i \in 1 .. 0 : FALSE
  OBVIOUS
<1>5. H[0] = holds /\ D[0] = expected
  BY <1>1, <1>2, <1>4
<1>6. AllFollow(H[0]) /\ AllAgree(output2, D[0])
  BY <1>5, AgreeNone DEF AllFollow
<1>7. H \in [0 .. 0 -> [Channels -> Receivers]] /\ D \in [0 .. 0 -> Seq(Outputs2)]
  BY <1>1, <1>2, <1>3
<1>8. Trail(H, D)
  BY <1>3, <1>4, <1>5, <1>6, <1>7 DEF Trail
<1> QED  BY <1>8 DEF OnTrail

LEMMA InitFar == Init => FarInv
<1> SUFFICES ASSUME Init PROVE FarInv
  OBVIOUS
<1>1. /\ link = <<>> /\ output2 = <<>> /\ expected = <<>> /\ received = <<>>
      /\ holds = [at \in Channels |-> Unaware]
      /\ bank = [at \in Channels |-> NoBank]
      /\ parameter_number = [at \in Channels |-> NoNumber]
  BY DEF Init, ToMidi2Init
<1>2. \A at \in Channels : Follows(Unaware, bank[at], parameter_number[at])
  BY <1>1, FollowsUnaware DEF NoNumber
<1>3. OnTrail
  BY <1>1, <1>2, TrailEmpty DEF NothingTold
<1> QED  BY <1>1, <1>3 DEF FarInv, OnTrail, FarEndAgrees

\* What to_midi1 makes of the messages may always be sent: the MSB of a number is
\* followed by its LSB, and a value is entered in two parts.
LEMMA ForwardMayBeHeard ==
  ASSUME Disciplined(Messages, Transactions), TypeInv, SenderInv, Forward
  PROVE  MayHear(holds, Head(output1))
<1>1. PICK s : Forwards(s, Head(output1))
  BY ForwardParts
<1> DEFINE x == Head(output1)
<1>2. Left(s) /\ s \in Messages /\ source = {s}
  BY <1>1 DEF Forwards, SenderInv
<1>3. ~IsControl(x, {rpn_lsb, nrpn_lsb, data_entry_msb, data_entry_lsb})
        => MayHear(holds, x)
  BY DEF MayHear, MaySend, IsControl
<1>4. {rpn_lsb, nrpn_lsb, data_entry_msb, data_entry_lsb} \subseteq Controls
  BY DEF Controls
<1>5. ~IsControl(x, Controls) => MayHear(holds, x)
  <2> HIDE DEF x
  <2> QED  BY <1>3, <1>4 DEF IsControl
<1>6. CASE /\ s \in M1Messages /\ s.mt \in {MT_SYSTEM, MT_M1CVM, MT_DATA64}
           /\ output1 = <<s>>
  <2>1. x = s
    BY <1>6
  <2>2. ~IsControl(x, Controls)
    <3>1. CASE IsVoice(s)
      BY <1>2, <2>1, <3>1, NotControls
    <3>2. CASE ~IsVoice(s)
      BY <2>1, <3>2 DEF IsVoice, IsControl
    <3> QED  BY <3>1, <3>2
  <2> QED  BY <1>5, <2>2
<1>7. CASE s \in M2Messages /\ s.status \in Valued /\ output1 = <<Narrowed(s)>>
  <2>1. x = Narrowed(s)
    BY <1>7
  <2>2. x.status = s.status /\ x.index = s.index
    BY <2>1, VoiceFields DEF Narrowed
  <2>3. IsVoice(s)
    BY <1>7, Kinds2 DEF IsVoice
  <2> HIDE DEF x
  <2>4. ~IsControl(x, Controls)
    BY <1>2, <2>2, <2>3, NotControls
  <2> QED  BY <1>5, <2>4 DEF x
<1>8. CASE /\ s \in M2Messages /\ s.status = program_change
           /\ ProgramLeft(s, holds[s.at], output1)
  <2>1. x \in {BankMsb(s), BankLsb(s), Selection(s)}
    BY <1>8 DEF ProgramLeft
  <2>2. x.status = program_change \/ x.index \in {bank_select, bank_select_lsb}
    BY <2>1, ControlFields DEF BankMsb, BankLsb, Selection, Program
  <2>3. ~IsControl(x, {rpn_lsb, nrpn_lsb, data_entry_msb, data_entry_lsb})
    <3>1. program_change # control_change
      BY DEF program_change, control_change
    <3>2. x.index \in {bank_select, bank_select_lsb} =>
            x.index \notin {rpn_lsb, nrpn_lsb, data_entry_msb, data_entry_lsb}
      BY ControlNumbers, Zenon
    <3> HIDE DEF x
    <3> QED  BY <2>2, <3>1, <3>2 DEF IsControl
  <2> QED  BY <1>3, <2>3
<1>9. CASE s \in Parameters /\ ParameterLeft(s, holds[s.at], output1)
  <2> DEFINE h == holds[s.at]
  <2>1. /\ s.status \in {rpn, nrpn}
        /\ FirstOf(s) = Control(s.at, IF s.status = rpn THEN rpn_msb ELSE nrpn_msb, s.index[1])
        /\ SecondOf(s) = Control(s.at, IF s.status = rpn THEN rpn_lsb ELSE nrpn_lsb, s.index[2])
        /\ EntryMsb(s) = Control(s.at, data_entry_msb, Hi7(Entry(s)))
        /\ EntryLsb(s) = Control(s.at, data_entry_lsb, Lo7(Entry(s)))
    BY <1>9, ParameterFields DEF FirstOf, SecondOf, EntryMsb, EntryLsb, Entry
  <2>2. CASE x = FirstOf(s)
    <3>1. x.index \in {rpn_msb, nrpn_msb}
      BY <2>1, <2>2, ControlFields
    <3>2. x.index \notin {rpn_lsb, nrpn_lsb, data_entry_msb, data_entry_lsb}
      BY <3>1, ControlNumbers, Zenon
    <3> QED  BY <1>3, <3>2 DEF IsControl
  <2>3. CASE x = SecondOf(s) /\ h.pending = {<<s.status, s.index[1]>>}
    <3>1. x.at = s.at /\ x.index = IF s.status = rpn THEN rpn_lsb ELSE nrpn_lsb
      BY <2>1, <2>3, ControlFields
    <3>2. KindOf(x) = s.status /\ x.index \in {rpn_lsb, nrpn_lsb}
      BY <2>1, <3>1, KindOfControl
    <3>3. x.index \notin {data_entry_msb, data_entry_lsb}
      BY <3>2, ControlNumbers, Zenon
    <3>4. <<s.status, s.index[1]>> \in h.pending /\ <<s.status, s.index[1]>>[1] = KindOf(x)
      BY <2>3, <3>2
    <3>5. \E q \in h.pending : q[1] = KindOf(x)
      BY <3>4, Zenon
    <3>6. ~IsControl(x, {data_entry_msb, data_entry_lsb}) /\ ~IsControl(x, {data_entry_lsb})
      BY <3>3 DEF IsControl
    <3> HIDE DEF x, h
    <3>7. h = holds[x.at]
      BY <3>1 DEF h
    <3>8. MayHear(holds, x)
      BY <3>5, <3>6, <3>7 DEF MayHear, MaySend
    <3> QED  BY <3>8 DEF x
  <2>4. ASSUME Len(output1) <= 2
        PROVE  h.pending = {}
    <3>1. Len(output1) \in Nat
      BY DEF TypeInv, TypeOK
    <3>2. ~(Len(output1) > 2)
      BY <2>4, <3>1
    <3>3. KeyOf(s) \in DOMAIN pn_cache
      BY <1>2, <1>9, ParameterFields, Kinds1, Kinds2 DEF Left, Valued, rpn, nrpn, program_change,
         note_off, note_on, poly_pressure, control_change, channel_pressure, pitch_bend
    <3>4. Settled(s)
      BY <1>9, <3>3 DEF SenderInv
    <3> QED  BY <3>2, <3>4 DEF Settled, Has
  <2>5. CASE x = EntryMsb(s) /\ Len(output1) = 2
    <3>1. x.at = s.at /\ x.index = data_entry_msb
      BY <2>1, <2>5, ControlFields
    <3>2. x.index \notin {rpn_lsb, nrpn_lsb} /\ x.index # data_entry_lsb
      BY <3>1, ControlNumbers, Zenon
    <3>3. h.pending = {}
      BY <2>4, <2>5
    <3>4. ~IsControl(x, {rpn_lsb, nrpn_lsb}) /\ ~IsControl(x, {data_entry_lsb})
      BY <3>2 DEF IsControl
    <3> HIDE DEF x, h
    <3>5. h = holds[x.at]
      BY <3>1 DEF h
    <3>6. MayHear(holds, x)
      BY <3>3, <3>4, <3>5 DEF MayHear, MaySend
    <3> QED  BY <3>6 DEF x
  <2>6. CASE x = EntryLsb(s) /\ Len(output1) = 1 /\ h.value_msb = {Hi7(Entry(s))}
    <3>1. x.at = s.at /\ x.index = data_entry_lsb
      BY <2>1, <2>6, ControlFields
    <3>2. x.index \notin {rpn_lsb, nrpn_lsb}
      BY <3>1, ControlNumbers, Zenon
    <3>3. h.pending = {} /\ h.value_msb # {}
      BY <2>4, <2>6
    <3>4. ~IsControl(x, {rpn_lsb, nrpn_lsb})
      BY <3>2 DEF IsControl
    <3> HIDE DEF x, h
    <3>5. h = holds[x.at]
      BY <3>1 DEF h
    <3>6. MayHear(holds, x)
      BY <3>3, <3>4, <3>5 DEF MayHear, MaySend
    <3> QED  BY <3>6 DEF x
  <2>7. \/ x = FirstOf(s)
        \/ x = SecondOf(s) /\ h.pending = {<<s.status, s.index[1]>>}
        \/ x = EntryMsb(s) /\ Len(output1) = 2
        \/ x = EntryLsb(s) /\ Len(output1) = 1 /\ h.value_msb = {Hi7(Entry(s))}
    <3> DEFINE a == FirstOf(s) b == SecondOf(s) c == EntryMsb(s) d == EntryLsb(s)
    <3> HIDE DEF a, b, c, d
    <3>1. \/ output1 = <<a, b, c, d>>
          \/ output1 = <<b, c, d>> /\ h.pending = {<<s.status, s.index[1]>>}
          \/ output1 = <<c, d>>
          \/ output1 = <<d>> /\ h.value_msb = {Hi7(Entry(s))}
      BY <1>9 DEF ParameterLeft, a, b, c, d
    <3>2. \/ x = a
          \/ x = b /\ h.pending = {<<s.status, s.index[1]>>}
          \/ x = c /\ Len(output1) = 2
          \/ x = d /\ Len(output1) = 1 /\ h.value_msb = {Hi7(Entry(s))}
      BY <3>1
    <3> QED  BY <3>2 DEF a, b, c, d
  <2> QED  BY <2>2, <2>3, <2>5, <2>6, <2>7
<1> QED  BY <1>2, <1>6, <1>7, <1>8, <1>9 DEF Left

\* When everything is reset nothing is under way.
LEMMA ResetFar ==
  ASSUME FarInv, TypeInv, ResetAll
  PROVE  FarInv'
<1>1. /\ link = <<>> /\ output2 = <<>> /\ UNCHANGED <<link, expected>> /\ received' = <<>>
      /\ holds' = [at \in Channels |-> Unaware] /\ output2' = <<>>
      /\ bank' = [at \in Channels |-> NoBank]
      /\ parameter_number' = [at \in Channels |-> Forgotten(parameter_number[at])]
  BY DEF ResetAll, Reset2, Quiet
<1>2. PICK H, D : Trail(H, D)
  BY DEF FarInv, OnTrail
<1>3. expected = <<>>
  <2>1. Len(link) = 0
    BY <1>1
  <2>2. D \in [0 .. 0 -> Seq(Outputs2)] /\ AllAgree(output2, D[0]) /\ D[0] = expected
    BY <1>2, <2>1 DEF Trail
  <2>3. Len(output2) = Len(expected) /\ expected \in Seq(Outputs2)
    BY <2>2 DEF AllAgree
  <2> QED  BY <1>1, <2>3
<1>4. \A at \in Channels : Follows(Unaware, bank'[at], parameter_number'[at])
  BY <1>1, FollowsUnaware DEF Forgotten
<1>5. NothingTold'
  BY <1>1, <1>3, <1>4 DEF NothingTold
<1>6. OnTrail'
  BY <1>5, TrailEmpty, PTL
<1> QED  BY <1>1, <1>6 DEF FarInv, OnTrail, FarEndAgrees

LEMMA NextFar ==
  ASSUME Disciplined(Messages, Transactions)
  PROVE  TypeInv /\ SenderInv /\ FarInv /\ [Next]_vars => FarInv'
<1> SUFFICES ASSUME TypeInv, SenderInv, FarInv, [Next]_vars PROVE FarInv'
  OBVIOUS
<1>1. PICK H, D : Trail(H, D)
  BY DEF FarInv, OnTrail
<1>2. link \in Seq(M1Messages) /\ output1 \in Seq(M1Messages) /\ script \in Seq(M1Messages)
  BY TypeInvParts DEF TypedLink, Typed1
<1>3. CASE UNCHANGED vars
  <2>1. /\ UNCHANGED <<link, holds, expected, bank, parameter_number, output2>>
        /\ UNCHANGED received
    BY <1>3 DEF vars, vars2, environment
  <2>2. Trail(H, D)'
    BY <1>1, <2>1, TrailSame
  <2>3. FarEndAgrees'
    BY <2>1 DEF FarInv, OnTrail, FarEndAgrees
  <2> QED  BY <2>2, <2>3 DEF FarInv, OnTrail
<1>4. ASSUME \/ \E m \in Messages : Push(m)
             \/ \E t \in Transactions : DeviceBegins(t)
             \/ ResetSender
      PROVE  FarInv'
  <2>1. /\ UNCHANGED <<link, holds, expected, bank, parameter_number, output2>>
        /\ received' = <<>>
    BY <1>4 DEF Push, DeviceBegins, ResetSender, Quiet, vars2
  <2>2. Trail(H, D)'
    BY <1>1, <2>1, TrailSame
  <2> QED  BY <2>1, <2>2 DEF FarInv, OnTrail, FarEndAgrees
<1>5. CASE Forward
  <2> DEFINE x == Head(output1)
  <2>1. /\ output1 # <<>> /\ Carry(x) /\ received' = <<>>
        /\ UNCHANGED <<bank, parameter_number, output2>>
    BY <1>5 DEF Forward, Pop1, vars2
  <2>2. x \in M1Messages
    BY <1>2, <2>1, TailType
  <2>3. MayHear(holds, x)
    BY <1>5, ForwardMayBeHeard
  <2> HIDE DEF x
  <2>4. \E G, E : Trail(G, E)'
    BY <1>1, <1>2, <2>1, <2>2, <2>3, TrailCarry
  <2> QED  BY <2>1, <2>4 DEF FarInv, OnTrail, FarEndAgrees
<1>6. CASE DeviceSends
  <2> DEFINE x == Head(script)
  <2>1. /\ script # <<>> /\ Carry(x) /\ MaySendNow(x) /\ received' = <<>>
        /\ UNCHANGED <<bank, parameter_number, output2>>
    BY <1>6 DEF DeviceSends, Quiet, vars2
  <2>2. x \in M1Messages
    BY <1>2, <2>1, TailType
  <2>3. MayHear(holds, x)
    BY <2>1 DEF MayHear, MaySendNow
  <2> HIDE DEF x
  <2>4. \E G, E : Trail(G, E)'
    BY <1>1, <1>2, <2>1, <2>2, <2>3, TrailCarry
  <2> QED  BY <2>1, <2>4 DEF FarInv, OnTrail, FarEndAgrees
<1>7. CASE Receive
  <2>1. \E G, E : Trail(G, E)'
    BY <1>1, <1>7, TrailReceive
  <2>2. received' = <<>>
    BY <1>7 DEF Receive, Quiet
  <2> QED  BY <2>1, <2>2 DEF FarInv, OnTrail, FarEndAgrees
<1>8. CASE Deliver
  <2>1. FarEndAgrees' /\ \E E : Trail(H, E)'
    BY <1>1, <1>8, TrailDeliver
  <2> QED  BY <2>1 DEF FarInv, OnTrail
<1>9. CASE ResetAll
  BY <1>9, ResetFar
<1> QED  BY <1>3, <1>4, <1>5, <1>6, <1>7, <1>8, <1>9 DEF Next

-------------------------------------------------------------------------------
(* What ump_to_midi2 yields at the far end is, message by message and in the     *)
(* order of the link, what a receiver of MIDI 1.0 would have understood from the  *)
(* control changes and the other messages there: the banks and the parameter      *)
(* numbers that its context collects for each channel are those that the sender   *)
(* has selected by then, whatever is still on the link, however the messages of   *)
(* the device and of the application merge, and after every reset.  The values     *)
(* that it scales up keep their bits.                                             *)
THEOREM FarEndUnderstands ==
  ASSUME Disciplined(Messages, Transactions)
  PROVE  Spec => []FarEndAgrees
<1>1. Init => TypeInv /\ SenderInv /\ FarInv
  BY InitTyped, InitSender, InitFar
<1>2. TypeInv /\ SenderInv /\ FarInv /\ [Next]_vars => (TypeInv /\ SenderInv /\ FarInv)'
  BY NextTyped, NextSender, NextFar
<1>3. FarInv => FarEndAgrees
  BY DEF FarInv, OnTrail
<1> QED  BY <1>1, <1>2, <1>3, PTL DEF Spec
===============================================================================
