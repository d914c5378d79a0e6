--------------------------- MODULE GoFramesProofs ---------------------------
(***************************************************************************)
(* Theorems about GoFrames.                                                *)
(***************************************************************************)
EXTENDS GoFrames, SequenceLemmas

-----------------------------------------------------------------------------
(* How many bytes of s are in A: with the bytes that have a bit, the        *)
(* checksum is the parity of eight such counts.                             *)
Tally(s, A) == Cardinality({i \in 1..Len(s) : s[i] \in A})

Counts(x, A) == IF x \in A THEN 1 ELSE 0

LEMMA TallyType ==
  ASSUME NEW s \in Seq(Nat), NEW A
  PROVE  Tally(s, A) \in Nat /\ Tally(s, A) % 2 \in 0..1
<1>1. Len(s) \in Nat /\ {i \in 1..Len(s) : s[i] \in A} \subseteq 1..Len(s)
  OBVIOUS
<1> QED
  BY <1>1, ParityIsBit DEF Tally

LEMMA TallyEmpty ==
  ASSUME NEW A
  PROVE  Tally(<<>>, A) = 0
<1>1. {i \in 1..Len(<<>>) : <<>>[i] \in A} = {}
  OBVIOUS
<1> QED
  BY <1>1, FS_EmptySet DEF Tally

LEMMA TallyAppend ==
  ASSUME NEW s \in Seq(Nat), NEW x \in Nat, NEW A
  PROVE  Tally(s \o <<x>>, A) = Tally(s, A) + Counts(x, A)
<1> DEFINE t == s \o <<x>>
           n == Len(s)
           C == {i \in 1..n : s[i] \in A}
           D == {i \in 1..Len(t) : t[i] \in A}
<1>1. n \in Nat /\ Len(t) = n + 1 /\ t[n + 1] = x /\ \A i \in 1..n : t[i] = s[i]
  OBVIOUS
<1>2. IsFiniteSet(C) /\ n + 1 \notin C /\ Cardinality(C) \in Nat
  <2>1. C \subseteq 1..n
    OBVIOUS
  <2>2. IsFiniteSet(1..n)
    BY <1>1, FS_Interval
  <2>3. IsFiniteSet(C)
    BY <2>1, <2>2, FS_Subset
  <2>4. n + 1 \notin C
    BY <1>1
  <2> HIDE DEF C
  <2> QED
    BY <2>3, <2>4, FS_CardinalityType
<1>3. D = IF x \in A THEN C \cup {n + 1} ELSE C
  <2> HIDE DEF t
  <2>1. 1..(n + 1) = (1..n) \cup {n + 1}
    BY <1>1
  <2> QED
    BY <1>1, <2>1
<1>4. Cardinality(C \cup {n + 1}) = Cardinality(C) + 1
  <2> HIDE DEF C
  <2> QED
    BY <1>2, FS_AddElement
<1> HIDE DEF C, D
<1>5. Cardinality(D) = Cardinality(C) + Counts(x, A)
  BY <1>2, <1>3, <1>4 DEF Counts
<1> QED
  BY <1>5 DEF Tally, C, D, t, n

(* The last element, and those before it.                                   *)
LEMMA PrefixStep ==
  ASSUME NEW T, NEW s \in Seq(T), NEW k \in Nat, k + 1 <= Len(s)
  PROVE  /\ SubSeq(s, 1, k) \in Seq(T) /\ s[k + 1] \in T
         /\ SubSeq(s, 1, k + 1) = SubSeq(s, 1, k) \o <<s[k + 1]>>
<1>1. PICK a : a = SubSeq(s, 1, k)
  OBVIOUS
<1>2. PICK b : b = SubSeq(s, 1, k + 1)
  OBVIOUS
<1>3. k \in 0..Len(s) /\ k + 1 \in 0..Len(s) /\ k + 1 \in 1..Len(s)
  OBVIOUS
<1>4. a \in Seq(T) /\ Len(a) = k /\ \A i \in 1..k : a[i] = s[i]
  BY <1>1, <1>3, Prefix
<1>5. b \in Seq(T) /\ Len(b) = k + 1 /\ \A i \in 1..(k + 1) : b[i] = s[i]
  BY <1>2, <1>3, Prefix
<1>6. PICK c : c = a \o <<s[k + 1]>>
  OBVIOUS
<1>7. s[k + 1] \in T
  BY <1>3
<1>8. <<s[k + 1]>> \in Seq(T) /\ Len(<<s[k + 1]>>) = 1
  BY <1>7
<1>9. c \in Seq(T) /\ Len(c) = k + 1 /\ (\A i \in 1..k : c[i] = a[i]) /\ c[k + 1] = s[k + 1]
  BY <1>4, <1>6, <1>8, SMTT(20)
<1>10. \A i \in 1..(k + 1) : b[i] = c[i]
  BY <1>4, <1>5, <1>9
<1>11. b = c
  BY ONLY <1>5, <1>9, <1>10, SeqEqual
<1> QED
  BY <1>1, <1>2, <1>4, <1>6, <1>7, <1>11

LEMMA TallyConcat ==
  ASSUME NEW s \in Seq(Nat), NEW t \in Seq(Nat), NEW A
  PROVE  Tally(s \o t, A) = Tally(s, A) + Tally(t, A)
<1> DEFINE S == {k \in Nat : k <= Len(t) =>
                   Tally(s \o SubSeq(t, 1, k), A) = Tally(s, A) + Tally(SubSeq(t, 1, k), A)}
<1>1. 0 \in S
  <2>1. SubSeq(t, 1, 0) = <<>> /\ s \o <<>> = s
    OBVIOUS
  <2>2. Tally(s, A) \in Nat /\ Tally(<<>>, A) = 0
    BY TallyEmpty, TallyType
  <2>3. Tally(s, A) = Tally(s, A) + Tally(<<>>, A)
    BY ONLY <2>2
  <2> QED
    BY <2>1, <2>3
<1>2. ASSUME NEW k \in Nat, k \in S
      PROVE  k + 1 \in S
  <2> SUFFICES ASSUME k + 1 <= Len(t)
               PROVE  Tally(s \o SubSeq(t, 1, k + 1), A)
                        = Tally(s, A) + Tally(SubSeq(t, 1, k + 1), A)
    OBVIOUS
  <2>1. PICK u : u = SubSeq(t, 1, k)
    OBVIOUS
  <2>2. PICK x : x = t[k + 1]
    OBVIOUS
  <2>3. PICK v : v = SubSeq(t, 1, k + 1)
    OBVIOUS
  <2>4. u \in Seq(Nat) /\ x \in Nat /\ v = u \o <<x>>
    BY <2>1, <2>2, <2>3, PrefixStep
  <2>5. Tally(s \o u, A) = Tally(s, A) + Tally(u, A)
    BY <1>2, <2>1
  <2>6. PICK w : w = s \o u
    OBVIOUS
  <2>7. <<x>> \in Seq(Nat) /\ w \in Seq(Nat)
    BY <2>4, <2>6
  <2>8. s \o v = w \o <<x>>
    BY ONLY <2>4, <2>6, <2>7, s \in Seq(Nat), Grouped
  <2>9. Tally(w \o <<x>>, A) = Tally(w, A) + Counts(x, A)
    BY ONLY <2>4, <2>7, TallyAppend
  <2>10. Tally(v, A) = Tally(u, A) + Counts(x, A)
    BY ONLY <2>4, TallyAppend
  <2>11. Tally(s, A) \in Nat /\ Tally(u, A) \in Nat /\ Counts(x, A) \in Nat
    BY <2>4, TallyType DEF Counts
  <2>12. Tally(s \o v, A) = Tally(s, A) + Tally(v, A)
    BY ONLY <2>5, <2>6, <2>8, <2>9, <2>10, <2>11
  <2> QED
    BY <2>3, <2>12
<1>3. Tally(s \o SubSeq(t, 1, Len(t)), A) = Tally(s, A) + Tally(SubSeq(t, 1, Len(t)), A)
  <2>1. Len(t) \in Nat
    OBVIOUS
  <2>2. Nat \subseteq S
    <3> HIDE DEF S
    <3> QED
      BY <1>1, <1>2, SetInduction
  <2> QED
    BY <2>1, <2>2
<1>4. SubSeq(t, 1, Len(t)) = t
  OBVIOUS
<1> QED
  BY <1>3, <1>4

(* The bits the checksum adds up: each says whether the bytes with a one    *)
(* in its place are odd in number.                                          *)
Weights == {1, 2, 4, 8, 16, 32, 64, 128}
Bit(w)  == {x \in Nat : (x \div w) % 2 = 1}
Odd(s, w) == Tally(s, Bit(w)) % 2

LEMMA OddType ==
  ASSUME NEW s \in Seq(Nat), NEW w
  PROVE  Odd(s, w) \in 0..1
BY TallyType DEF Odd

LEMMA ChecksumIs ==
  ASSUME NEW s \in Seq(Nat)
  PROVE  JTT808UtilsCalculateChecksum(s) =
           Odd(s, 1) + 2 * Odd(s, 2) + 4 * Odd(s, 4) + 8 * Odd(s, 8) + 16 * Odd(s, 16)
             + 32 * Odd(s, 32) + 64 * Odd(s, 64) + 128 * Odd(s, 128)
<1> DEFINE C(w) == Cardinality({i \in DOMAIN s : (s[i] \div w) % 2 = 1}) % 2
<1>1. ASSUME NEW w
      PROVE  C(w) = Odd(s, w)
  <2>1. DOMAIN s = 1..Len(s) /\ \A i \in 1..Len(s) : s[i] \in Nat
    OBVIOUS
  <2>2. {i \in DOMAIN s : (s[i] \div w) % 2 = 1} = {i \in 1..Len(s) : s[i] \in Bit(w)}
    BY <2>1 DEF Bit
  <2> QED
    BY <2>2 DEF Odd, Tally
<1>2. JTT808UtilsCalculateChecksum(s) =
        1 * C(1) + 2 * C(2) + 4 * C(4) + 8 * C(8) + 16 * C(16) + 32 * C(32)
          + 64 * C(64) + 128 * C(128)
  BY Zenon DEF JTT808UtilsCalculateChecksum
<1> HIDE DEF C
<1>3. Odd(s, 1) \in 0..1
  BY OddType
<1>4. 1 * Odd(s, 1) = Odd(s, 1)
  BY <1>3
<1>5. JTT808UtilsCalculateChecksum(s) =
        1 * Odd(s, 1) + 2 * Odd(s, 2) + 4 * Odd(s, 4) + 8 * Odd(s, 8) + 16 * Odd(s, 16)
          + 32 * Odd(s, 32) + 64 * Odd(s, 64) + 128 * Odd(s, 128)
  BY ONLY <1>1, <1>2
<1> QED
  BY ONLY <1>4, <1>5

LEMMA ChecksumBits ==
  ASSUME NEW s \in Seq(Nat), NEW x, x = JTT808UtilsCalculateChecksum(s)
  PROVE  /\ x \in 0..255
         /\ x = 0 <=> \A w \in Weights : Odd(s, w) = 0
         /\ \A w \in Weights : Counts(x, Bit(w)) = Odd(s, w)
<1>1. PICK a, b, c, d, e, f, g, h :
        /\ a = Odd(s, 1) /\ b = Odd(s, 2) /\ c = Odd(s, 4) /\ d = Odd(s, 8)
        /\ e = Odd(s, 16) /\ f = Odd(s, 32) /\ g = Odd(s, 64) /\ h = Odd(s, 128)
  OBVIOUS
<1>2. /\ a \in 0..1 /\ b \in 0..1 /\ c \in 0..1 /\ d \in 0..1
      /\ e \in 0..1 /\ f \in 0..1 /\ g \in 0..1 /\ h \in 0..1
  BY <1>1, OddType
<1>3. x = a + 2 * b + 4 * c + 8 * d + 16 * e + 32 * f + 64 * g + 128 * h
  BY <1>1, ChecksumIs
<1>4. x \in 0..255
  BY ONLY <1>2, <1>3
<1>5. x = 0 <=> a = 0 /\ b = 0 /\ c = 0 /\ d = 0 /\ e = 0 /\ f = 0 /\ g = 0 /\ h = 0
  BY ONLY <1>2, <1>3
<1>6. x = 0 <=> \A w \in Weights : Odd(s, w) = 0
  <2>1. \A w \in Weights : \/ w = 1 \/ w = 2 \/ w = 4 \/ w = 8
                           \/ w = 16 \/ w = 32 \/ w = 64 \/ w = 128
    BY DEF Weights
  <2>2. {1, 2, 4, 8, 16, 32, 64, 128} \subseteq Weights
    BY DEF Weights
  <2>3. (a = 0 /\ b = 0 /\ c = 0 /\ d = 0 /\ e = 0 /\ f = 0 /\ g = 0 /\ h = 0)
          <=> \A w \in Weights : Odd(s, w) = 0
    BY ONLY <1>1, <2>1, <2>2
  <2> QED
    BY ONLY <1>5, <2>3
<1>7. ASSUME NEW w, NEW v \in 0..1, (x \div w) % 2 = v
      PROVE  Counts(x, Bit(w)) = v
  <2>1. x \in Nat
    BY ONLY <1>4
  <2> QED
    BY ONLY <1>7, <2>1 DEF Counts, Bit
<1>8. Counts(x, Bit(1)) = a
  <2>1. x \div 1 = a + 2 * (b + 2 * c + 4 * d + 8 * e + 16 * f + 32 * g + 64 * h)
    BY ONLY <1>2, <1>3
  <2>2. (x \div 1) % 2 = a
    BY ONLY <1>2, <2>1
  <2> QED
    BY ONLY <1>2, <1>7, <2>2
<1>9. Counts(x, Bit(2)) = b
  <2>1. x \div 2 = b + 2 * (c + 2 * d + 4 * e + 8 * f + 16 * g + 32 * h)
    BY ONLY <1>2, <1>3
  <2>2. (x \div 2) % 2 = b
    BY ONLY <1>2, <2>1
  <2> QED
    BY ONLY <1>2, <1>7, <2>2
<1>10. Counts(x, Bit(4)) = c
  <2>1. x \div 4 = c + 2 * (d + 2 * e + 4 * f + 8 * g + 16 * h)
    BY ONLY <1>2, <1>3
  <2>2. (x \div 4) % 2 = c
    BY ONLY <1>2, <2>1
  <2> QED
    BY ONLY <1>2, <1>7, <2>2
<1>11. Counts(x, Bit(8)) = d
  <2>1. x \div 8 = d + 2 * (e + 2 * f + 4 * g + 8 * h)
    BY ONLY <1>2, <1>3
  <2>2. (x \div 8) % 2 = d
    BY ONLY <1>2, <2>1
  <2> QED
    BY ONLY <1>2, <1>7, <2>2
<1>12. Counts(x, Bit(16)) = e
  <2>1. x \div 16 = e + 2 * (f + 2 * g + 4 * h)
    BY ONLY <1>2, <1>3
  <2>2. (x \div 16) % 2 = e
    BY ONLY <1>2, <2>1
  <2> QED
    BY ONLY <1>2, <1>7, <2>2
<1>13. Counts(x, Bit(32)) = f
  <2>1. x \div 32 = f + 2 * (g + 2 * h)
    BY ONLY <1>2, <1>3
  <2>2. (x \div 32) % 2 = f
    BY ONLY <1>2, <2>1
  <2> QED
    BY ONLY <1>2, <1>7, <2>2
<1>14. Counts(x, Bit(64)) = g
  <2>1. x \div 64 = g + 2 * (h)
    BY ONLY <1>2, <1>3
  <2>2. (x \div 64) % 2 = g
    BY ONLY <1>2, <2>1
  <2> QED
    BY ONLY <1>2, <1>7, <2>2
<1>15. Counts(x, Bit(128)) = h
  <2>1. x \div 128 = h
    BY ONLY <1>2, <1>3
  <2>2. (x \div 128) % 2 = h
    BY ONLY <1>2, <2>1
  <2> QED
    BY ONLY <1>2, <1>7, <2>2
<1>16. ASSUME NEW w \in Weights
       PROVE  Counts(x, Bit(w)) = Odd(s, w)
  <2>1. CASE w = 1
    BY ONLY <1>1, <1>8, <2>1
  <2>2. CASE w = 2
    BY ONLY <1>1, <1>9, <2>2
  <2>3. CASE w = 4
    BY ONLY <1>1, <1>10, <2>3
  <2>4. CASE w = 8
    BY ONLY <1>1, <1>11, <2>4
  <2>5. CASE w = 16
    BY ONLY <1>1, <1>12, <2>5
  <2>6. CASE w = 32
    BY ONLY <1>1, <1>13, <2>6
  <2>7. CASE w = 64
    BY ONLY <1>1, <1>14, <2>7
  <2>8. CASE w = 128
    BY ONLY <1>1, <1>15, <2>8
  <2> QED
    BY ONLY w \in Weights, <2>1, <2>2, <2>3, <2>4, <2>5, <2>6, <2>7, <2>8 DEF Weights
<1> QED
  BY ONLY <1>4, <1>6, <1>16

(* With its checksum behind it a message has an even number of each bit.    *)
LEMMA SummedUp ==
  ASSUME NEW s \in Seq(Nat), NEW w \in Weights
  PROVE  Odd(s \o <<JTT808UtilsCalculateChecksum(s)>>, w) = 0
<1>1. PICK x : x = JTT808UtilsCalculateChecksum(s)
  OBVIOUS
<1>2. x \in Nat /\ Counts(x, Bit(w)) = Odd(s, w)
  <2>1. x \in 0..255 /\ \A v \in Weights : Counts(x, Bit(v)) = Odd(s, v)
    BY ONLY s \in Seq(Nat), <1>1, ChecksumBits
  <2> QED
    BY <2>1
<1>3. Tally(s \o <<x>>, Bit(w)) = Tally(s, Bit(w)) + Odd(s, w)
  BY <1>2, TallyAppend
<1>4. Tally(s, Bit(w)) \in Nat
  BY TallyType
<1>5. \A n \in Nat : (n + (n % 2)) % 2 = 0
  OBVIOUS
<1> QED
  BY <1>1, <1>3, <1>4, <1>5 DEF Odd

-----------------------------------------------------------------------------
(* Escaping.                                                                *)
LEMMA StuffedFacts ==
  ASSUME NEW b \in Nat
  PROVE  /\ Stuffed(b) \in Seq(Nat)
         /\ \A j \in 1..Len(Stuffed(b)) : Stuffed(b)[j] # MARK
         /\ \/ b = MARK /\ Stuffed(b) = <<ESC, 2>>
            \/ b = ESC /\ Stuffed(b) = <<ESC, 1>>
            \/ b # MARK /\ b # ESC /\ Stuffed(b) = <<b>>
<1>1. CASE b = MARK
  <2>1. Stuffed(b) = <<ESC, 2>>
    BY <1>1 DEF Stuffed, MARK, ESC
  <2>2. PICK s : s = <<ESC, 2>>
    OBVIOUS
  <2>3. s \in Seq(Nat) /\ Len(s) = 2 /\ s[1] = ESC /\ s[2] = 2
    BY <2>2 DEF ESC
  <2>4. \A j \in 1..Len(s) : s[j] # MARK
    BY <2>3 DEF MARK, ESC
  <2> QED
    BY <1>1, <2>1, <2>2, <2>3, <2>4
<1>2. CASE b = ESC
  <2>1. Stuffed(b) = <<ESC, 1>>
    BY <1>2 DEF Stuffed, MARK, ESC
  <2>2. PICK s : s = <<ESC, 1>>
    OBVIOUS
  <2>3. s \in Seq(Nat) /\ Len(s) = 2 /\ s[1] = ESC /\ s[2] = 1
    BY <2>2 DEF ESC
  <2>4. \A j \in 1..Len(s) : s[j] # MARK
    BY <2>3 DEF MARK, ESC
  <2> QED
    BY <1>2, <2>1, <2>2, <2>3, <2>4
<1>3. CASE b # MARK /\ b # ESC
  <2>1. Stuffed(b) = <<b>>
    BY <1>3 DEF Stuffed
  <2>2. PICK s : s = <<b>>
    OBVIOUS
  <2>3. s \in Seq(Nat) /\ Len(s) = 1 /\ s[1] = b
    BY <2>2
  <2> QED
    BY <1>3, <2>1, <2>2, <2>3
<1> QED
  BY <1>1, <1>2, <1>3

Stuffing(data) == [i \in 1..Len(data) |-> Stuffed(data[i])]

LEMMA StuffingType ==
  ASSUME NEW data \in Seq(Nat)
  PROVE  /\ Stuffing(data) \in Seq(Seq(Nat)) /\ Len(Stuffing(data)) = Len(data)
         /\ \A i \in 1..Len(data) : data[i] \in Nat /\ Stuffing(data)[i] = Stuffed(data[i])
         /\ JTT808UtilsEscape(data) = FlattenSeq(Stuffing(data))
<1>1. Len(data) \in Nat /\ \A i \in 1..Len(data) : data[i] \in Nat
  OBVIOUS
<1>2. Stuffing(data) \in [1..Len(data) -> Seq(Nat)]
  BY <1>1, StuffedFacts DEF Stuffing
<1>3. Stuffing(data) \in Seq(Seq(Nat)) /\ Len(Stuffing(data)) = Len(data)
  BY ONLY <1>1, <1>2
<1>4. JTT808UtilsEscape(data) = FlattenSeq(Stuffing(data))
  <2>1. DOMAIN data = 1..Len(data)
    OBVIOUS
  <2> QED
    BY <2>1 DEF JTT808UtilsEscape, Stuffing
<1>5. \A i \in 1..Len(data) : Stuffing(data)[i] = Stuffed(data[i])
  BY DEF Stuffing
<1> QED
  BY <1>1, <1>3, <1>4, <1>5

LEMMA EscapeType ==
  ASSUME NEW data \in Seq(Nat)
  PROVE  JTT808UtilsEscape(data) \in Seq(Nat)
BY StuffingType, FlattenType

LEMMA EscapePlaces ==
  ASSUME NEW data \in Seq(Nat)
  PROVE  \E at : Places(at, Stuffing(data), JTT808UtilsEscape(data))
BY StuffingType, FlattenPlaces

LEMMA NoMarkEscaped ==
  ASSUME NEW data \in Seq(Nat), NEW k \in 1..Len(JTT808UtilsEscape(data))
  PROVE  JTT808UtilsEscape(data)[k] # MARK
<1>1. PICK at : Places(at, Stuffing(data), JTT808UtilsEscape(data))
  BY EscapePlaces
<1>2. PICK i \in 1..Len(Stuffing(data)) : \E j \in 1..Len(Stuffing(data)[i]) : k = at[i - 1] + j
  <2>1. PICK ss \in Seq(Seq(Nat)) : ss = Stuffing(data)
    BY StuffingType
  <2>2. PICK w \in Seq(Nat) : w = JTT808UtilsEscape(data)
    BY EscapeType
  <2>3. Places(at, ss, w) /\ k \in 1..Len(w)
    BY <1>1, <2>1, <2>2
  <2>4. Within(k, at, ss)
    BY ONLY <2>3, ss \in Seq(Seq(Nat)), w \in Seq(Nat), Inside
  <2> QED
    BY <2>1, <2>4 DEF Within
<1>3. PICK j \in 1..Len(Stuffing(data)[i]) : k = at[i - 1] + j
  BY <1>2
<1>4. i \in 1..Len(data) /\ Stuffing(data)[i] = Stuffed(data[i]) /\ data[i] \in Nat
  <2>1. /\ Len(Stuffing(data)) = Len(data)
        /\ \A x \in 1..Len(data) : data[x] \in Nat /\ Stuffing(data)[x] = Stuffed(data[x])
    BY StuffingType
  <2> QED
    BY <2>1
<1>5. JTT808UtilsEscape(data)[k] = Stuffing(data)[i][j]
  BY <1>1, <1>3 DEF Places
<1> QED
  <2>1. \A x \in 1..Len(Stuffed(data[i])) : Stuffed(data[i])[x] # MARK
    BY <1>4, StuffedFacts
  <2>2. j \in 1..Len(Stuffed(data[i]))
    BY <1>3, <1>4
  <2> QED
    BY <1>4, <1>5, <2>1, <2>2

-----------------------------------------------------------------------------
(* What escaping does to the checksum: each escape flips its lowest bit.    *)
Flips(w) == IF w = 1 THEN {ESC} ELSE {}

LEMMA TallyOne ==
  ASSUME NEW x \in Nat, NEW A
  PROVE  Tally(<<x>>, A) = Counts(x, A)
<1>1. <<>> \in Seq(Nat) /\ <<>> \o <<x>> = <<x>>
  OBVIOUS
<1>2. Tally(<<>>, A) = 0 /\ Counts(x, A) \in Nat
  BY TallyEmpty DEF Counts
<1>3. Tally(<<>> \o <<x>>, A) = Tally(<<>>, A) + Counts(x, A)
  BY ONLY <1>1, x \in Nat, TallyAppend
<1> QED
  BY <1>1, <1>2, <1>3

LEMMA TallyTwo ==
  ASSUME NEW x \in Nat, NEW y \in Nat, NEW A
  PROVE  Tally(<<x, y>>, A) = Counts(x, A) + Counts(y, A)
<1>1. <<x>> \in Seq(Nat) /\ <<x>> \o <<y>> = <<x, y>>
  <2>1. PICK u : u = <<x>> \o <<y>>
    OBVIOUS
  <2>2. <<x>> \in Seq(Nat) /\ <<y>> \in Seq(Nat) /\ <<x, y>> \in Seq(Nat)
    OBVIOUS
  <2>3. u \in Seq(Nat) /\ Len(u) = 2 /\ u[1] = x /\ u[2] = y
    BY <2>1, <2>2, SMTT(20)
  <2>4. u = <<x, y>>
    BY <2>2, <2>3, SMTT(20)
  <2> QED
    BY <2>1, <2>2, <2>4
<1>2. Tally(<<x>> \o <<y>>, A) = Tally(<<x>>, A) + Counts(y, A)
  BY ONLY <1>1, y \in Nat, TallyAppend
<1> QED
  BY <1>1, <1>2, TallyOne

(* 126 is 125 and 2 but for the lowest bit, and so is 125 of 125 and 1.     *)
LEMMA StuffedParity ==
  ASSUME NEW b \in Nat, NEW w \in Weights
  PROVE  (Tally(Stuffed(b), Bit(w)) + Counts(b, Bit(w)) + Tally(Stuffed(b), Flips(w))) % 2 = 0
<1> DEFINE s == Stuffed(b)
<1>1. CASE b = MARK
  <2>1. s = <<125, 2>> /\ b = 126
    BY <1>1, StuffedFacts DEF MARK, ESC
  <2>2. /\ Tally(s, Bit(w)) = Counts(125, Bit(w)) + Counts(2, Bit(w))
        /\ Tally(s, Flips(w)) = Counts(125, Flips(w)) + Counts(2, Flips(w))
    BY <2>1, TallyTwo
  <2>3. Counts(125, Flips(w)) = (IF w = 1 THEN 1 ELSE 0) /\ Counts(2, Flips(w)) = 0
    BY DEF Flips, Counts, ESC
  <2>4. /\ Counts(125, Bit(w)) = (IF w \in {1, 4, 8, 16, 32, 64} THEN 1 ELSE 0)
        /\ Counts(2, Bit(w)) = (IF w = 2 THEN 1 ELSE 0)
        /\ Counts(126, Bit(w)) = (IF w \in {2, 4, 8, 16, 32, 64} THEN 1 ELSE 0)
    BY DEF Counts, Bit, Weights
  <2> HIDE DEF s
  <2> QED
    BY <2>1, <2>2, <2>3, <2>4 DEF Weights, s
<1>2. CASE b = ESC
  <2>1. s = <<125, 1>> /\ b = 125
    BY <1>2, StuffedFacts DEF MARK, ESC
  <2>2. /\ Tally(s, Bit(w)) = Counts(125, Bit(w)) + Counts(1, Bit(w))
        /\ Tally(s, Flips(w)) = Counts(125, Flips(w)) + Counts(1, Flips(w))
    BY <2>1, TallyTwo
  <2>3. Counts(125, Flips(w)) = (IF w = 1 THEN 1 ELSE 0) /\ Counts(1, Flips(w)) = 0
    BY DEF Flips, Counts, ESC
  <2>4. /\ Counts(125, Bit(w)) = (IF w \in {1, 4, 8, 16, 32, 64} THEN 1 ELSE 0)
        /\ Counts(1, Bit(w)) = (IF w = 1 THEN 1 ELSE 0)
    BY DEF Counts, Bit, Weights
  <2> HIDE DEF s
  <2> QED
    BY <2>1, <2>2, <2>3, <2>4 DEF Weights, s
<1>3. CASE b # MARK /\ b # ESC
  <2>1. s = <<b>>
    BY <1>3, StuffedFacts
  <2>2. Tally(s, Bit(w)) = Counts(b, Bit(w)) /\ Tally(s, Flips(w)) = Counts(b, Flips(w))
    BY <2>1, TallyOne
  <2>3. Counts(b, Flips(w)) = 0 /\ Counts(b, Bit(w)) \in {0, 1}
    BY <1>3 DEF Flips, Counts
  <2> QED
    BY ONLY <2>2, <2>3
<1> QED
  BY <1>1, <1>2, <1>3

LEMMA EvenSum ==
  ASSUME NEW a1 \in Nat, NEW a2 \in Nat, NEW a3 \in Nat,
         NEW b1 \in Nat, NEW b2 \in Nat, NEW b3 \in Nat,
         (a1 + a2 + a3) % 2 = 0, (b1 + b2 + b3) % 2 = 0
  PROVE  ((a1 + b1) + (a2 + b2) + (a3 + b3)) % 2 = 0
OBVIOUS

LEMMA EscapedParity ==
  ASSUME NEW data \in Seq(Nat), NEW w \in Weights
  PROVE  (Tally(JTT808UtilsEscape(data), Bit(w)) + Tally(data, Bit(w))
            + Tally(JTT808UtilsEscape(data), Flips(w))) % 2 = 0
<1>1. PICK ss \in Seq(Seq(Nat)) :
        /\ ss = Stuffing(data) /\ Len(ss) = Len(data)
        /\ \A i \in 1..Len(data) : data[i] \in Nat /\ ss[i] = Stuffed(data[i])
  BY StuffingType
<1>2. JTT808UtilsEscape(data) = FlattenSeq(ss)
  BY <1>1, StuffingType
<1> DEFINE Even(e, d) == (Tally(e, Bit(w)) + Tally(d, Bit(w)) + Tally(e, Flips(w))) % 2 = 0
           S == {k \in Nat : k <= Len(data) =>
                   Even(FlattenSeq(SubSeq(ss, 1, k)), SubSeq(data, 1, k))}
<1>3. Len(data) \in Nat
  OBVIOUS
<1>4. 0 \in S
  <2>1. SubSeq(ss, 1, 0) = <<>> /\ SubSeq(data, 1, 0) = <<>>
    OBVIOUS
  <2>2. Even(<<>>, <<>>)
    <3>1. Tally(<<>>, Bit(w)) = 0 /\ Tally(<<>>, Flips(w)) = 0
      BY TallyEmpty
    <3> QED
      BY ONLY <3>1
  <2>3. Even(FlattenSeq(SubSeq(ss, 1, 0)), SubSeq(data, 1, 0))
    <3> HIDE DEF Even
    <3> QED
      BY <2>1, <2>2, FlattenEmpty
  <2> QED
    BY <2>3
<1>5. ASSUME NEW k \in Nat, k \in S
      PROVE  k + 1 \in S
  <2> SUFFICES ASSUME k + 1 <= Len(data)
               PROVE  Even(FlattenSeq(SubSeq(ss, 1, k + 1)), SubSeq(data, 1, k + 1))
    OBVIOUS
  <2>1. PICK x : x = data[k + 1]
    OBVIOUS
  <2>2. PICK d : d = SubSeq(data, 1, k)
    OBVIOUS
  <2>3. PICK e : e = FlattenSeq(SubSeq(ss, 1, k))
    OBVIOUS
  <2>4. d \in Seq(Nat) /\ x \in Nat /\ SubSeq(data, 1, k + 1) = d \o <<x>>
    BY <1>3, <2>1, <2>2, PrefixStep
  <2>5. k + 1 \in 1..Len(ss) /\ k + 1 - 1 = k
    BY <1>1
  <2>6. FlattenSeq(SubSeq(ss, 1, k + 1)) = e \o ss[k + 1]
    <3>1. PICK i : i = k + 1
      OBVIOUS
    <3>2. i \in 1..Len(ss) /\ i - 1 = k
      BY <2>5, <3>1
    <3>3. FlattenSeq(SubSeq(ss, 1, i)) = FlattenSeq(SubSeq(ss, 1, i - 1)) \o ss[i]
      BY ONLY ss \in Seq(Seq(Nat)), <3>2, FlattenStep
    <3> QED
      BY ONLY <2>3, <3>1, <3>2, <3>3
  <2>7. ss[k + 1] = Stuffed(x)
    BY <1>1, <2>1, <2>5
  <2>8. PICK f : f = Stuffed(x)
    OBVIOUS
  <2>9. e \in Seq(Nat)
    <3>1. SubSeq(ss, 1, k) \in Seq(Seq(Nat))
      <4>1. k \in 0..Len(ss)
        BY <2>5
      <4> QED
        BY <4>1, Prefix
    <3> QED
      BY <2>3, <3>1, FlattenType
  <2>10. f \in Seq(Nat)
    BY <2>4, <2>8, StuffedFacts
  <2>11. Even(e, d)
    <3> HIDE DEF Even
    <3>1. k <= Len(data)
      BY <1>3
    <3> QED
      BY <1>5, <2>2, <2>3, <3>1
  <2>12. \A A : Tally(e \o f, A) = Tally(e, A) + Tally(f, A)
    BY ONLY <2>9, <2>10, TallyConcat
  <2>13. Tally(d \o <<x>>, Bit(w)) = Tally(d, Bit(w)) + Counts(x, Bit(w))
    BY ONLY <2>4, TallyAppend
  <2>14. (Tally(f, Bit(w)) + Counts(x, Bit(w)) + Tally(f, Flips(w))) % 2 = 0
    BY ONLY <2>4, <2>8, w \in Weights, StuffedParity
  <2>15. /\ Tally(e, Bit(w)) \in Nat /\ Tally(e, Flips(w)) \in Nat /\ Tally(d, Bit(w)) \in Nat
         /\ Tally(f, Bit(w)) \in Nat /\ Tally(f, Flips(w)) \in Nat
         /\ Counts(x, Bit(w)) \in Nat
    BY <2>4, <2>9, <2>10, TallyType DEF Counts
  <2>16. (Tally(e \o f, Bit(w)) + Tally(d \o <<x>>, Bit(w)) + Tally(e \o f, Flips(w))) % 2 = 0
    <3>1. (Tally(e, Bit(w)) + Tally(d, Bit(w)) + Tally(e, Flips(w))) % 2 = 0
      BY ONLY <2>11
    <3>2. /\ Tally(e \o f, Bit(w)) = Tally(e, Bit(w)) + Tally(f, Bit(w))
          /\ Tally(e \o f, Flips(w)) = Tally(e, Flips(w)) + Tally(f, Flips(w))
      BY ONLY <2>12
    <3> HIDE DEF Even
    <3>3. ((Tally(e, Bit(w)) + Tally(f, Bit(w))) + (Tally(d, Bit(w)) + Counts(x, Bit(w)))
             + (Tally(e, Flips(w)) + Tally(f, Flips(w)))) % 2 = 0
      <4>1. PICK a1 \in Nat, a2 \in Nat, a3 \in Nat, b1 \in Nat, b2 \in Nat, b3 \in Nat :
              /\ a1 = Tally(e, Bit(w)) /\ a2 = Tally(d, Bit(w)) /\ a3 = Tally(e, Flips(w))
              /\ b1 = Tally(f, Bit(w)) /\ b2 = Counts(x, Bit(w)) /\ b3 = Tally(f, Flips(w))
        BY ONLY <2>15
      <4>2. (a1 + a2 + a3) % 2 = 0 /\ (b1 + b2 + b3) % 2 = 0
        BY ONLY <2>14, <3>1, <4>1
      <4>3. ((a1 + b1) + (a2 + b2) + (a3 + b3)) % 2 = 0
        BY ONLY <4>2, EvenSum
      <4> QED
        BY ONLY <4>1, <4>3
    <3> QED
      BY ONLY <2>13, <3>2, <3>3
  <2> QED
    BY <2>4, <2>6, <2>7, <2>8, <2>16
<1>6. Even(FlattenSeq(SubSeq(ss, 1, Len(data))), SubSeq(data, 1, Len(data)))
  <2> HIDE DEF Even
  <2>1. Nat \subseteq S
    <3> HIDE DEF S
    <3> QED
      BY <1>4, <1>5, SetInduction
  <2> QED
    BY <1>3, <2>1
<1>7. SubSeq(ss, 1, Len(data)) = ss /\ SubSeq(data, 1, Len(data)) = data
  BY <1>1
<1> QED
  BY <1>2, <1>6, <1>7

-----------------------------------------------------------------------------
(* Unescape.                                                                *)
LEMMA SliceStep ==
  ASSUME NEW T, NEW s \in Seq(T), NEW a \in Nat, NEW k \in Nat, a + k + 1 <= Len(s)
  PROVE  SubSeq(s, a + 1, a + k + 1) = Append(SubSeq(s, a + 1, a + k), s[a + k + 1])
<1>1. PICK u : u = SubSeq(s, a + 1, a + k)
  OBVIOUS
<1>2. PICK v : v = SubSeq(s, a + 1, a + (k + 1))
  OBVIOUS
<1>3. a + k <= Len(s) /\ a + (k + 1) <= Len(s) /\ k + 1 \in Nat
  OBVIOUS
<1>4. u \in Seq(T) /\ Len(u) = k /\ \A i \in 1..k : u[i] = s[a + i]
  BY <1>1, <1>3, Slice
<1>5. v \in Seq(T) /\ Len(v) = k + 1 /\ \A i \in 1..(k + 1) : v[i] = s[a + i]
  <2>1. PICK n : n = k + 1
    OBVIOUS
  <2>2. n \in Nat /\ a + n <= Len(s) /\ v = SubSeq(s, a + 1, a + n)
    BY <1>2, <1>3, <2>1
  <2>3. v \in Seq(T) /\ Len(v) = n /\ \A i \in 1..n : v[i] = s[a + i]
    BY ONLY s \in Seq(T), a \in Nat, <2>2, Slice
  <2> QED
    BY ONLY <2>1, <2>3
<1>6. a + k + 1 \in 1..Len(s) /\ a + k + 1 = a + (k + 1)
  BY <1>3
<1>7. PICK x \in T : x = s[a + k + 1]
  BY <1>6
<1>8. PICK w : w = Append(u, x)
  OBVIOUS
<1>9. w \in Seq(T) /\ Len(w) = k + 1 /\ (\A i \in 1..k : w[i] = u[i]) /\ w[k + 1] = x
  BY <1>4, <1>8
<1>10. \A i \in 1..(k + 1) : v[i] = w[i]
  <2> SUFFICES ASSUME NEW i \in 1..(k + 1)
               PROVE  v[i] = w[i]
    OBVIOUS
  <2>1. CASE i = k + 1
    BY <1>5, <1>6, <1>7, <1>9, <2>1
  <2>2. CASE i # k + 1
    <3>1. i \in 1..k
      BY <2>2
    <3> QED
      BY <1>4, <1>5, <1>9, <3>1
  <2> QED
    BY <2>1, <2>2
<1>11. v = w
  BY ONLY <1>5, <1>9, <1>10, SeqEqual
<1> QED
  BY <1>1, <1>2, <1>6, <1>7, <1>8, <1>11

(* One byte more.                                                           *)
OneMore(b, s, maxPos) ==
  IF ~s.ok THEN [ok |-> FALSE]
  ELSE IF s.at > maxPos THEN [ok |-> FALSE]
  ELSE IF b[s.at] # ESC
  THEN [ok |-> TRUE, out |-> Append(s.out, b[s.at]), at |-> s.at + 1]
  ELSE IF s.at + 1 > maxPos THEN [ok |-> FALSE]
  ELSE IF b[s.at + 1] \notin {1, 2} THEN [ok |-> FALSE]
  ELSE [ok |-> TRUE, at |-> s.at + 2,
        out |-> Append(s.out, IF b[s.at + 1] = 1 THEN ESC ELSE MARK)]

Unescapes(f, b, at, n, maxPos) ==
  f = [k \in 0..n |-> IF k = 0 THEN [ok |-> TRUE, out |-> <<>>, at |-> at]
                      ELSE OneMore(b, f[k - 1], maxPos)]

LEMMA UnescapeDef ==
  ASSUME NEW b, NEW at, NEW n, NEW maxPos,
         \E f : Unescapes(f, b, at, n, maxPos)
  PROVE  \E f : Unescapes(f, b, at, n, maxPos) /\ Unescape(b, at, n, maxPos) = f[n]
BY Zenon DEF Unescape, Unescapes, OneMore

(* E, escaped of Z, lies behind s in b; pl says where in E the bytes of Z   *)
(* are.                                                                     *)
Lies(Z, pl, b, s) ==
  /\ Places(pl, Stuffing(Z), JTT808UtilsEscape(Z))
  /\ \A k \in 1..Len(JTT808UtilsEscape(Z)) : b[s + k] = JTT808UtilsEscape(Z)[k]

(* What there is after k bytes of those behind q.                           *)
Seen(Z, pl, s, q, k) ==
  [ok |-> TRUE, out |-> SubSeq(Z, q + 1, q + k), at |-> s + 1 + pl[q + k]]

LEMMA OneMoreOf ==
  ASSUME NEW Z \in Seq(Nat), NEW pl, NEW b, NEW s \in Nat, Lies(Z, pl, b, s),
         NEW maxPos \in Nat, s + Len(JTT808UtilsEscape(Z)) <= maxPos,
         NEW q \in Nat, NEW k \in Nat, q + k + 1 <= Len(Z)
  PROVE  OneMore(b, Seen(Z, pl, s, q, k), maxPos) = Seen(Z, pl, s, q, k + 1)
<1>1. PICK E \in Seq(Nat) : E = JTT808UtilsEscape(Z)
  BY EscapeType
<1>2. PICK i : i = q + k + 1
  OBVIOUS
<1>3. i \in 1..Len(Z) /\ i - 1 = q + k /\ q + k \in Nat
  BY <1>2
<1>4. PICK f : f = Stuffed(Z[i])
  OBVIOUS
<1>5. Len(Stuffing(Z)) = Len(Z) /\ Stuffing(Z)[i] = f /\ Z[i] \in Nat
  <2>1. /\ Len(Stuffing(Z)) = Len(Z)
        /\ \A j \in 1..Len(Z) : Z[j] \in Nat /\ Stuffing(Z)[j] = Stuffed(Z[j])
    BY StuffingType
  <2> QED
    BY <1>3, <1>4, <2>1
<1>6. PICK A \in Nat, B \in Nat : A = pl[i - 1] /\ B = pl[i] /\ B <= Len(E)
        /\ B = A + Len(f) /\ \A j \in 1..Len(f) : E[A + j] = f[j]
  <2>1. /\ pl \in [0..Len(Stuffing(Z)) -> 0..Len(E)]
        /\ \A x \in 1..Len(Stuffing(Z)) :
             /\ pl[x] = pl[x - 1] + Len(Stuffing(Z)[x])
             /\ \A j \in 1..Len(Stuffing(Z)[x]) : E[pl[x - 1] + j] = Stuffing(Z)[x][j]
    BY <1>1 DEF Lies, Places
  <2>2. i \in 0..Len(Stuffing(Z)) /\ i - 1 \in 0..Len(Stuffing(Z)) /\ i \in 1..Len(Stuffing(Z))
    BY <1>3, <1>5
  <2>3. pl[i - 1] \in 0..Len(E) /\ pl[i] \in 0..Len(E)
    BY <2>1, <2>2
  <2>4. pl[i] = pl[i - 1] + Len(f) /\ \A j \in 1..Len(f) : E[pl[i - 1] + j] = f[j]
    BY <1>5, <2>1, <2>2
  <2>5. Len(E) \in Nat
    OBVIOUS
  <2>6. pl[i - 1] \in Nat /\ pl[i] \in Nat /\ pl[i] <= Len(E)
    BY ONLY <2>3, <2>5
  <2> QED
    BY ONLY <2>4, <2>6
<1>7. PICK x : x = s + 1 + pl[q + k]
  OBVIOUS
<1>8. pl[q + k] = A /\ pl[q + k + 1] = B
  BY <1>2, <1>3, <1>6
<1>9. x \in Nat /\ x = s + 1 + A
  BY ONLY <1>7, <1>8, A \in Nat, s \in Nat
<1>10. Len(f) \in Nat /\ \A j \in 1..Len(f) : b[s + A + j] = f[j] /\ s + A + j <= maxPos
  <2>1. Len(f) \in Nat /\ Len(E) \in Nat
    BY <1>1, <1>4, <1>5, StuffedFacts
  <2> SUFFICES ASSUME NEW j \in 1..Len(f)
               PROVE  b[s + A + j] = f[j] /\ s + A + j <= maxPos
    BY <2>1
  <2>2. A + j \in 1..Len(E) /\ s + (A + j) = s + A + j
    <3>1. B <= Len(E) /\ B = A + Len(f)
      BY <1>6
    <3> QED
      BY ONLY <3>1, <2>1, A \in Nat, B \in Nat, s \in Nat, j \in 1..Len(f)
  <2>3. b[s + (A + j)] = E[A + j]
    BY <1>1, <2>2 DEF Lies
  <2>4. s + A + j <= maxPos
    <3>1. s + Len(E) <= maxPos
      BY <1>1
    <3> QED
      BY ONLY <2>1, <2>2, <3>1, A \in Nat, s \in Nat, j \in 1..Len(f), maxPos \in Nat
  <2> QED
    BY <1>6, <2>2, <2>3, <2>4
<1>11. PICK o : o = SubSeq(Z, q + 1, q + k)
  OBVIOUS
<1>12. SubSeq(Z, q + 1, q + k + 1) = Append(o, Z[i])
  BY <1>2, <1>11, SliceStep
<1>13. PICK r : r = [ok |-> TRUE, out |-> o, at |-> x]
  OBVIOUS
<1>14. r.ok = TRUE /\ r.out = o /\ r.at = x
  BY <1>13
<1>15. OneMore(b, r, maxPos) = [ok |-> TRUE, out |-> Append(o, Z[i]), at |-> s + 1 + B]
  <2>1. CASE f = <<Z[i]>> /\ Z[i] # ESC
    <3>1. Len(f) = 1 /\ f[1] = Z[i]
      BY <2>1
    <3>2. b[x] = Z[i] /\ x <= maxPos
      <4>1. 1 \in 1..Len(f) /\ s + A + 1 = x
        BY ONLY <1>9, <3>1, A \in Nat, s \in Nat
      <4> QED
        BY <1>10, <3>1, <4>1
    <3>3. s + 1 + B = x + 1
      BY ONLY <1>6, <1>9, <3>1, A \in Nat, B \in Nat, s \in Nat
    <3>4. ~(x > maxPos)
      BY <1>9, <3>2
    <3> QED
      BY ONLY <1>14, <2>1, <3>2, <3>3, <3>4 DEF OneMore
  <2>2. ASSUME NEW y \in {1, 2}, f = <<ESC, y>>, Z[i] = IF y = 1 THEN ESC ELSE MARK
        PROVE  OneMore(b, r, maxPos) = [ok |-> TRUE, out |-> Append(o, Z[i]), at |-> s + 1 + B]
    <3>1. Len(f) = 2 /\ f[1] = ESC /\ f[2] = y
      BY <2>2
    <3>2. b[x] = ESC /\ x <= maxPos /\ b[x + 1] = y /\ x + 1 <= maxPos
      <4>1. 1 \in 1..Len(f) /\ 2 \in 1..Len(f)
        BY <3>1
      <4>2. s + A + 1 = x /\ s + A + 2 = x + 1
        BY ONLY <1>9, A \in Nat, s \in Nat
      <4> QED
        BY <1>10, <3>1, <4>1, <4>2
    <3>3. s + 1 + B = x + 2
      BY ONLY <1>6, <1>9, <3>1, A \in Nat, B \in Nat, s \in Nat
    <3>4. ~(x > maxPos) /\ ~(x + 1 > maxPos) /\ ~(y \notin {1, 2})
      BY <1>9, <3>2
    <3> QED
      BY ONLY <1>14, <2>2, <3>2, <3>3, <3>4 DEF OneMore
  <2>3. \/ f = <<ESC, 2>> /\ Z[i] = MARK
        \/ f = <<ESC, 1>> /\ Z[i] = ESC
        \/ f = <<Z[i]>> /\ Z[i] # ESC
    BY <1>4, <1>5, StuffedFacts
  <2> QED
    BY <2>1, <2>2, <2>3
<1>16. Seen(Z, pl, s, q, k) = r
  BY <1>7, <1>11, <1>13 DEF Seen
<1>17. Seen(Z, pl, s, q, k + 1) = [ok |-> TRUE, out |-> Append(o, Z[i]), at |-> s + 1 + B]
  <2>1. q + (k + 1) = q + k + 1
    OBVIOUS
  <2> QED
    BY <1>8, <1>12, <2>1 DEF Seen
<1> QED
  BY <1>15, <1>16, <1>17

LEMMA UnescapeRun ==
  ASSUME NEW Z \in Seq(Nat), NEW pl, NEW b, NEW s \in Nat, Lies(Z, pl, b, s),
         NEW maxPos \in Nat, s + Len(JTT808UtilsEscape(Z)) <= maxPos,
         NEW q \in Nat, NEW n \in Nat, q + n <= Len(Z)
  PROVE  Unescape(b, s + 1 + pl[q], n, maxPos)
           = Seen(Z, pl, s, q, n)
<1> DEFINE R(k) == Seen(Z, pl, s, q, k)
           f == [k \in 0..n |-> R(k)]
<1>1. R(0) = [ok |-> TRUE, out |-> <<>>, at |-> s + 1 + pl[q]]
  <2>1. q + 0 = q
    OBVIOUS
  <2>2. SubSeq(Z, q + 1, q + 0) = <<>>
    <3>1. q + 0 <= Len(Z)
      OBVIOUS
    <3>2. SubSeq(Z, q + 1, q + 0) \in Seq(Nat) /\ Len(SubSeq(Z, q + 1, q + 0)) = 0
      BY <3>1, Slice
    <3> QED
      BY <3>2
  <2> QED
    BY <2>1, <2>2 DEF Seen
<1>2. ASSUME NEW k \in 1..n
      PROVE  OneMore(b, R(k - 1), maxPos) = R(k)
  <2>1. PICK j : j = k - 1
    OBVIOUS
  <2>2. j \in Nat /\ q + j + 1 <= Len(Z) /\ j + 1 = k
    BY <2>1
  <2>3. OneMore(b, Seen(Z, pl, s, q, j), maxPos) = Seen(Z, pl, s, q, j + 1)
    BY ONLY <2>2, Z \in Seq(Nat), s \in Nat, Lies(Z, pl, b, s), maxPos \in Nat,
            s + Len(JTT808UtilsEscape(Z)) <= maxPos, q \in Nat, OneMoreOf
  <2> QED
    BY <2>1, <2>2, <2>3
<1> HIDE DEF R
<1>3. Unescapes(f, b, s + 1 + pl[q], n, maxPos)
  <2>1. \A k \in 0..n :
          R(k) = IF k = 0 THEN [ok |-> TRUE, out |-> <<>>, at |-> s + 1 + pl[q]]
                 ELSE OneMore(b, f[k - 1], maxPos)
    <3> SUFFICES ASSUME NEW k \in 0..n, k # 0
                 PROVE  R(k) = OneMore(b, f[k - 1], maxPos)
      BY <1>1
    <3>1. k \in 1..n /\ k - 1 \in 0..n
      OBVIOUS
    <3>2. f[k - 1] = R(k - 1)
      BY <3>1
    <3> QED
      BY <1>2, <3>1, <3>2
  <2> QED
    BY <2>1 DEF Unescapes
<1>4. PICK g : /\ Unescapes(g, b, s + 1 + pl[q], n, maxPos)
               /\ Unescape(b, s + 1 + pl[q], n, maxPos) = g[n]
  <2>1. \E h : Unescapes(h, b, s + 1 + pl[q], n, maxPos)
    BY <1>3
  <2> QED
    BY ONLY <2>1, UnescapeDef
<1> DEFINE S == {k \in Nat : k <= n => g[k] = R(k)}
<1>5. \A k \in 0..n : g[k] = IF k = 0 THEN [ok |-> TRUE, out |-> <<>>, at |-> s + 1 + pl[q]]
                              ELSE OneMore(b, g[k - 1], maxPos)
  BY <1>4, Zenon DEF Unescapes
<1>6. 0 \in S
  <2>1. 0 \in 0..n
    OBVIOUS
  <2> QED
    BY <1>1, <1>5, <2>1
<1>7. ASSUME NEW k \in Nat, k \in S
      PROVE  k + 1 \in S
  <2> SUFFICES ASSUME k + 1 <= n
               PROVE  g[k + 1] = R(k + 1)
    OBVIOUS
  <2>1. g[k] = R(k)
    BY <1>7
  <2>2. k + 1 \in 0..n /\ k + 1 \in 1..n /\ k + 1 # 0 /\ k + 1 - 1 = k
    OBVIOUS
  <2>3. g[k + 1] = OneMore(b, g[k], maxPos)
    BY <1>5, <2>2
  <2>4. OneMore(b, R(k), maxPos) = R(k + 1)
    BY <1>2, <2>2
  <2> QED
    BY <2>1, <2>3, <2>4
<1>8. g[n] = R(n)
  <2>1. Nat \subseteq S
    <3> HIDE DEF S
    <3> QED
      BY <1>6, <1>7, SetInduction
  <2> QED
    BY <2>1
<1> QED
  BY <1>4, <1>8 DEF R

-----------------------------------------------------------------------------
(* The frame of a message.                                                  *)
Body(m)  == Write(m.id, m.n, m.base)
Good(m)  == m \in Message /\ Body(m) \in Seq(Byte) /\ Len(Body(m)) < 1024
Props(m) == <<64 + (IF m.packaged THEN 32 ELSE 0) + Len(Body(m)) \div 256, Len(Body(m)) % 256>>
Numbers(m) == IF m.packaged THEN <<0, 2, 0, 1>> ELSE <<>>
Raw(m)   == U16(m.id) \o Props(m) \o <<1>> \o Phone \o m.serial \o Numbers(m) \o Body(m)
Summed(m) == Raw(m) \o <<JTT808UtilsCalculateChecksum(Raw(m))>>
Inner(m) == JTT808UtilsEscape(Summed(m))
HeaderLen(m) == IF m.packaged THEN 21 ELSE 17

LEMMA FrameIs ==
  ASSUME NEW m
  PROVE  FrameOf(m) = <<MARK>> \o Inner(m) \o <<MARK>>
BY Zenon DEF FrameOf, Inner, Summed, Raw, Numbers, Props, Body

LEMMA WordsAreNumbers == \A n \in Word : n \in Nat /\ n <= 65535
BY SMT DEF Word

LEMMA BytesAreNumbers ==
  ASSUME NEW s \in Seq(Byte)
  PROVE  s \in Seq(Nat)
<1>1. Len(s) \in Nat /\ s = [i \in 1..Len(s) |-> s[i]] /\ \A i \in 1..Len(s) : s[i] \in Byte
  OBVIOUS
<1>2. \A x \in Byte : x \in Nat
  BY DEF Byte
<1>3. \A i \in 1..Len(s) : s[i] \in Nat
  BY ONLY <1>1, <1>2
<1>4. [i \in 1..Len(s) |-> s[i]] \in [1..Len(s) -> Nat]
  BY ONLY <1>3
<1>5. [i \in 1..Len(s) |-> s[i]] \in Seq(Nat)
  BY ONLY <1>1, <1>4
<1> QED
  BY <1>1, <1>5

LEMMA PutBehind ==
  ASSUME NEW s \in Seq(Byte), NEW t \in Seq(Byte), NEW u, u = s \o t
  PROVE  /\ u \in Seq(Byte) /\ Len(u) = Len(s) + Len(t)
         /\ \A i \in 1..Len(s) : u[i] = s[i]
         /\ \A i \in 1..Len(t) : u[Len(s) + i] = t[i]
OBVIOUS

LEMMA PutBehindOne ==
  ASSUME NEW s \in Seq(Byte), NEW x \in Byte, NEW u, u = s \o <<x>>
  PROVE  /\ u \in Seq(Byte) /\ Len(u) = Len(s) + 1
         /\ \A i \in 1..Len(s) : u[i] = s[i]
         /\ u[Len(s) + 1] = x
<1>1. PICK t : t = <<x>>
  OBVIOUS
<1>2. t \in Seq(Byte)
  BY ONLY <1>1, x \in Byte
<1>3. Len(t) = 1 /\ t[1] = x
  BY ONLY <1>1, x \in Byte
<1>4. u = s \o t
  BY <1>1
<1>5. /\ u \in Seq(Byte) /\ Len(u) = Len(s) + Len(t)
      /\ \A i \in 1..Len(s) : u[i] = s[i]
      /\ \A i \in 1..Len(t) : u[Len(s) + i] = t[i]
  BY ONLY <1>2, <1>4, s \in Seq(Byte), PutBehind
<1> QED
  BY ONLY <1>3, <1>5

LEMMA PropsFacts ==
  ASSUME NEW m, Good(m), NEW L, L = Len(Body(m)), NEW a, a = Props(m)[1], NEW b, b = Props(m)[2]
  PROVE  /\ L \in Nat /\ Props(m) = <<a, b>> /\ a \in Byte /\ b \in Byte
         /\ Packaged(<<a, b>>) <=> m.packaged
         /\ BodyLength(<<a, b>>) = L
<1>1. L \in Nat /\ L < 1024
  BY SMT DEF Good
<1>2. PICK p \in {0, 32} : p = IF m.packaged THEN 32 ELSE 0
  OBVIOUS
<1>3. a = 64 + p + L \div 256 /\ b = L % 256 /\ Props(m) = <<a, b>>
  BY <1>2 DEF Props
<1>4. a \in Byte /\ b \in Byte
  BY ONLY <1>1, <1>3, p \in {0, 32} DEF Byte
<1>5. <<a, b>>[1] = a /\ <<a, b>>[2] = b
  OBVIOUS
<1>6. (a \div 32) % 2 = 1 <=> p = 32
  <2>1. CASE p = 32
    <3>1. a \div 32 = 3
      BY ONLY <1>1, <1>3, <2>1
    <3> QED
      BY <2>1, <3>1
  <2>2. CASE p = 0
    <3>1. a \div 32 = 2
      BY ONLY <1>1, <1>3, <2>2
    <3> QED
      BY <2>2, <3>1
  <2> QED
    BY <2>1, <2>2
<1>7. Packaged(<<a, b>>) <=> m.packaged
  <2>1. Packaged(<<a, b>>) <=> (a \div 32) % 2 = 1
    BY <1>5 DEF Packaged
  <2>2. p = 32 <=> m.packaged
    BY <1>2
  <2> QED
    BY <1>6, <2>1, <2>2
<1>8. (a % 4) * 256 + b = L
  <2>1. CASE p = 32
    <3>1. a % 4 = L \div 256
      BY ONLY <1>1, <1>3, <2>1
    <3> QED
      BY ONLY <1>1, <1>3, <3>1
  <2>2. CASE p = 0
    <3>1. a % 4 = L \div 256
      BY ONLY <1>1, <1>3, <2>2
    <3> QED
      BY ONLY <1>1, <1>3, <3>1
  <2> QED
    BY <2>1, <2>2
<1>9. BodyLength(<<a, b>>) = L
  BY <1>5, <1>8 DEF BodyLength, Number
<1> QED
  BY <1>1, <1>3, <1>4, <1>7, <1>9

LEMMA RawFacts ==
  ASSUME NEW m, Good(m)
  PROVE  /\ Raw(m) \in Seq(Byte) /\ Len(Raw(m)) = HeaderLen(m) + Len(Body(m))
         /\ Raw(m)[1] = m.id \div 256 /\ Raw(m)[2] = m.id % 256
         /\ Raw(m)[3] = Props(m)[1] /\ Raw(m)[4] = Props(m)[2]
         /\ \A i \in 1..10 : Raw(m)[5 + i] = Phone[i]
         /\ Raw(m)[16] = m.serial[1] /\ Raw(m)[17] = m.serial[2]
         /\ \A i \in 1..Len(Body(m)) : Raw(m)[HeaderLen(m) + i] = Body(m)[i]
<1>1. PICK x, y : x = m.id \div 256 /\ y = m.id % 256
  OBVIOUS
<1>2. m \in Message /\ m.id \in Word /\ m.serial \in Byte \X Byte
  <2>1. m \in Message
    BY SMT DEF Good
  <2> QED
    BY ONLY <2>1 DEF Message
<1>3. x \in Byte /\ y \in Byte
  <2>1. PICK n \in Nat : n = m.id /\ n <= 65535
    BY ONLY <1>2, WordsAreNumbers, SMT
  <2>2. n \div 256 \in Nat /\ n \div 256 <= 255 /\ n % 256 \in Nat /\ n % 256 <= 255
    BY ONLY <2>1, n \in Nat, SMT
  <2>3. \A k \in Nat : k <= 255 => k \in Byte
    BY ONLY SMT DEF Byte
  <2> QED
    BY ONLY <1>1, <2>1, <2>2, <2>3
<1>4. PICK a, b : a = Props(m)[1] /\ b = Props(m)[2]
  OBVIOUS
<1>5. a \in Byte /\ b \in Byte /\ Props(m) = <<a, b>>
  BY <1>4, PropsFacts
<1>6. PICK c \in Byte, d \in Byte : m.serial = <<c, d>>
  BY ONLY <1>2
<1>7. PICK t1 : t1 = <<x, y>>
  OBVIOUS
<1>8. PICK t2 : t2 = t1 \o <<a, b>>
  OBVIOUS
<1>9. PICK t3 : t3 = t2 \o <<1>>
  OBVIOUS
<1>10. PICK t4 : t4 = t3 \o Phone
  OBVIOUS
<1>11. PICK t5 : t5 = t4 \o <<c, d>>
  OBVIOUS
<1>12. PICK t6 : t6 = t5 \o Numbers(m)
  OBVIOUS
<1>13. PICK t7 : t7 = t6 \o Body(m)
  OBVIOUS
<1>14. Raw(m) = t7
  BY <1>1, <1>5, <1>6, <1>7, <1>8, <1>9, <1>10, <1>11, <1>12, <1>13 DEF Raw, U16
<1>15. t1 \in Seq(Byte) /\ Len(t1) = 2 /\ t1[1] = x /\ t1[2] = y
  BY ONLY <1>3, <1>7
<1>16. t2 \in Seq(Byte) /\ Len(t2) = 4 /\ t2[1] = x /\ t2[2] = y /\ t2[3] = a /\ t2[4] = b
  <2>1. PICK u : u = <<a, b>>
    OBVIOUS
  <2>2. u \in Seq(Byte) /\ Len(u) = 2 /\ u[1] = a /\ u[2] = b
    BY ONLY <1>5, <2>1
  <2>3. t2 = t1 \o u
    BY <1>8, <2>1
  <2>4. /\ t2 \in Seq(Byte) /\ Len(t2) = 2 + 2
        /\ \A i \in 1..2 : t2[i] = t1[i]
        /\ \A i \in 1..2 : t2[2 + i] = u[i]
    <3>1. /\ t2 \in Seq(Byte) /\ Len(t2) = Len(t1) + Len(u)
          /\ \A i \in 1..Len(t1) : t2[i] = t1[i]
          /\ \A i \in 1..Len(u) : t2[Len(t1) + i] = u[i]
      <4>1. t1 \in Seq(Byte) /\ u \in Seq(Byte) /\ t2 = t1 \o u
        BY ONLY <1>15, <2>2, <2>3
      <4> QED
        BY ONLY <4>1, PutBehind
    <3> QED
      BY ONLY <1>15, <2>2, <3>1
  <2>5. t2[2 + 1] = u[1] /\ t2[2 + 2] = u[2] /\ t2[1] = t1[1] /\ t2[2] = t1[2]
    BY ONLY <2>4
  <2> QED
    BY ONLY <1>15, <2>2, <2>4, <2>5
<1>17. t3 \in Seq(Byte) /\ Len(t3) = 5 /\ t3[1] = x /\ t3[2] = y /\ t3[3] = a /\ t3[4] = b
  <2>1. 1 \in Byte
    BY DEF Byte
  <2>2. t3 \in Seq(Byte) /\ Len(t3) = 4 + 1 /\ \A i \in 1..4 : t3[i] = t2[i]
    <3>1. t3 \in Seq(Byte) /\ Len(t3) = Len(t2) + 1 /\ \A i \in 1..Len(t2) : t3[i] = t2[i]
      <4>1. t2 \in Seq(Byte) /\ 1 \in Byte /\ t3 = t2 \o <<1>>
        BY ONLY <1>9, <1>16, <2>1
      <4> QED
        BY ONLY <4>1, PutBehindOne
    <3> QED
      BY ONLY <1>16, <3>1
  <2> QED
    BY ONLY <1>16, <2>2
<1>18. Phone \in Seq(Byte) /\ Len(Phone) = 10
  BY SMT, FramesAssumption
<1>19. /\ t4 \in Seq(Byte) /\ Len(t4) = 15 /\ t4[1] = x /\ t4[2] = y /\ t4[3] = a /\ t4[4] = b
       /\ \A i \in 1..10 : t4[5 + i] = Phone[i]
  <2>1. /\ t4 \in Seq(Byte) /\ Len(t4) = 5 + 10
        /\ \A i \in 1..5 : t4[i] = t3[i]
        /\ \A i \in 1..10 : t4[5 + i] = Phone[i]
    <3>1. /\ t4 \in Seq(Byte) /\ Len(t4) = Len(t3) + Len(Phone)
          /\ \A i \in 1..Len(t3) : t4[i] = t3[i]
          /\ \A i \in 1..Len(Phone) : t4[Len(t3) + i] = Phone[i]
      <4>1. t3 \in Seq(Byte) /\ Phone \in Seq(Byte) /\ t4 = t3 \o Phone
        BY ONLY <1>10, <1>17, <1>18
      <4> QED
        BY ONLY <4>1, PutBehind
    <3> QED
      BY ONLY <1>17, <1>18, <3>1
  <2> QED
    BY ONLY <1>17, <2>1
<1>20. /\ t5 \in Seq(Byte) /\ Len(t5) = 17 /\ t5[1] = x /\ t5[2] = y /\ t5[3] = a /\ t5[4] = b
       /\ \A i \in 1..10 : t5[5 + i] = Phone[i]
       /\ t5[16] = c /\ t5[17] = d
  <2>1. PICK u : u = <<c, d>>
    OBVIOUS
  <2>2. u \in Seq(Byte) /\ Len(u) = 2 /\ u[1] = c /\ u[2] = d
    BY ONLY <2>1, c \in Byte, d \in Byte
  <2>3. t5 = t4 \o u
    BY <1>11, <2>1
  <2>4. /\ t5 \in Seq(Byte) /\ Len(t5) = 15 + 2
        /\ \A i \in 1..15 : t5[i] = t4[i]
        /\ \A i \in 1..2 : t5[15 + i] = u[i]
    <3>1. /\ t5 \in Seq(Byte) /\ Len(t5) = Len(t4) + Len(u)
          /\ \A i \in 1..Len(t4) : t5[i] = t4[i]
          /\ \A i \in 1..Len(u) : t5[Len(t4) + i] = u[i]
      <4>1. t4 \in Seq(Byte) /\ u \in Seq(Byte) /\ t5 = t4 \o u
        BY ONLY <1>19, <2>2, <2>3
      <4> QED
        BY ONLY <4>1, PutBehind
    <3> QED
      BY ONLY <1>19, <2>2, <3>1
  <2>5. t5[15 + 1] = u[1] /\ t5[15 + 2] = u[2]
    BY ONLY <2>4
  <2>6. \A i \in 1..10 : t5[5 + i] = Phone[i]
    <3>1. \A i \in 1..10 : 5 + i \in 1..15
      OBVIOUS
    <3> QED
      BY ONLY <1>19, <2>4, <3>1
  <2> QED
    BY ONLY <1>19, <2>2, <2>4, <2>5, <2>6
<1>21. PICK h : h = HeaderLen(m)
  OBVIOUS
<1>22. PICK g : g = Numbers(m)
  OBVIOUS
<1>23. g \in Seq(Byte) /\ h = 17 + Len(g) /\ h \in {17, 21}
  <2>1. CASE m.packaged
    <3>1. g = <<0, 2, 0, 1>> /\ h = 21
      BY <1>21, <1>22, <2>1 DEF Numbers, HeaderLen
    <3>2. 0 \in Byte /\ 1 \in Byte /\ 2 \in Byte
      BY DEF Byte
    <3> QED
      BY ONLY <3>1, <3>2
  <2>2. CASE ~m.packaged
    <3>1. g = <<>> /\ h = 17
      BY <1>21, <1>22, <2>2 DEF Numbers, HeaderLen
    <3> QED
      BY ONLY <3>1
  <2> QED
    BY <2>1, <2>2
<1>24. t6 \in Seq(Byte) /\ Len(t6) = h /\ \A i \in 1..17 : t6[i] = t5[i]
  <2>1. t6 = t5 \o g
    BY <1>12, <1>22
  <2>2. PICK n \in Nat : n = Len(g)
    BY ONLY <1>23
  <2>3. t6 \in Seq(Byte) /\ Len(t6) = 17 + n /\ \A i \in 1..17 : t6[i] = t5[i]
    <3>1. /\ t6 \in Seq(Byte) /\ Len(t6) = Len(t5) + Len(g)
          /\ \A i \in 1..Len(t5) : t6[i] = t5[i]
      <4>1. t5 \in Seq(Byte) /\ g \in Seq(Byte) /\ t6 = t5 \o g
        BY ONLY <1>20, <1>23, <2>1
      <4> QED
        BY ONLY <4>1, PutBehind
    <3> QED
      BY ONLY <1>20, <2>2, <3>1
  <2> QED
    BY ONLY <1>23, <2>2, <2>3
<1>25. PICK w \in Seq(Byte) : w = Body(m)
  BY SMT DEF Good
<1>26. /\ t7 \in Seq(Byte) /\ Len(t7) = h + Len(w) /\ \A i \in 1..h : t7[i] = t6[i]
       /\ \A i \in 1..Len(w) : t7[h + i] = w[i]
  <2>1. t7 = t6 \o w /\ h \in Nat /\ Len(w) \in Nat
    BY <1>13, <1>23, <1>25
  <2> QED
    <3>1. /\ t7 \in Seq(Byte) /\ Len(t7) = Len(t6) + Len(w)
          /\ \A i \in 1..Len(t6) : t7[i] = t6[i]
          /\ \A i \in 1..Len(w) : t7[Len(t6) + i] = w[i]
      <4>1. t6 \in Seq(Byte) /\ w \in Seq(Byte) /\ t7 = t6 \o w
        BY ONLY <1>24, <2>1, w \in Seq(Byte)
      <4> QED
        BY ONLY <4>1, PutBehind
    <3> QED
      BY ONLY <1>24, <2>1, <3>1
<1>27. \A i \in 1..17 : t7[i] = t5[i]
  <2>1. \A i \in 1..17 : i \in 1..h
    BY ONLY <1>23
  <2> QED
    BY ONLY <1>24, <1>26, <2>1
<1>28. /\ t7[1] = x /\ t7[2] = y /\ t7[3] = a /\ t7[4] = b /\ t7[16] = c /\ t7[17] = d
       /\ \A i \in 1..10 : t7[5 + i] = Phone[i]
  <2>1. \A i \in 1..10 : 5 + i \in 1..17
    OBVIOUS
  <2>2. \A i \in 1..10 : t7[5 + i] = Phone[i]
    BY ONLY <1>20, <1>27, <2>1
  <2> QED
    BY ONLY <1>20, <1>27, <2>2
<1>29. m.serial[1] = c /\ m.serial[2] = d
  BY <1>6
<1> QED
  BY ONLY <1>1, <1>4, <1>14, <1>21, <1>25, <1>26, <1>28, <1>29

LEMMA SummedFacts ==
  ASSUME NEW m, Good(m)
  PROVE  /\ Summed(m) \in Seq(Nat) /\ Len(Summed(m)) = HeaderLen(m) + Len(Body(m)) + 1
         /\ HeaderLen(m) \in {17, 21} /\ (m.packaged <=> HeaderLen(m) = 21) /\ Len(Body(m)) \in Nat
         /\ \A w \in Weights : Odd(Summed(m), w) = 0
         /\ Summed(m)[1] = m.id \div 256 /\ Summed(m)[2] = m.id % 256
         /\ Summed(m)[3] = Props(m)[1] /\ Summed(m)[4] = Props(m)[2]
         /\ \A i \in 1..10 : Summed(m)[5 + i] = Phone[i]
         /\ Summed(m)[16] = m.serial[1] /\ Summed(m)[17] = m.serial[2]
         /\ \A i \in 1..Len(Body(m)) : Summed(m)[HeaderLen(m) + i] = Body(m)[i]
<1>a. PICK h, L : h = HeaderLen(m) /\ L = Len(Body(m))
  OBVIOUS
<1>1. PICK raw : raw = Raw(m)
  OBVIOUS
<1>2. /\ raw \in Seq(Byte) /\ Len(raw) = h + L
      /\ raw[1] = m.id \div 256 /\ raw[2] = m.id % 256
      /\ raw[3] = Props(m)[1] /\ raw[4] = Props(m)[2]
      /\ \A i \in 1..10 : raw[5 + i] = Phone[i]
      /\ raw[16] = m.serial[1] /\ raw[17] = m.serial[2]
      /\ \A i \in 1..L : raw[h + i] = Body(m)[i]
  <2>1. /\ Raw(m) \in Seq(Byte) /\ Len(Raw(m)) = HeaderLen(m) + Len(Body(m))
        /\ Raw(m)[1] = m.id \div 256 /\ Raw(m)[2] = m.id % 256
        /\ Raw(m)[3] = Props(m)[1] /\ Raw(m)[4] = Props(m)[2]
        /\ \A i \in 1..10 : Raw(m)[5 + i] = Phone[i]
        /\ Raw(m)[16] = m.serial[1] /\ Raw(m)[17] = m.serial[2]
        /\ \A i \in 1..Len(Body(m)) : Raw(m)[HeaderLen(m) + i] = Body(m)[i]
    BY ONLY Good(m), RawFacts
  <2> QED
    BY ONLY <1>1, <1>a, <2>1
<1>3. h \in {17, 21} /\ (m.packaged <=> h = 21)
  BY <1>a DEF HeaderLen
<1>4. L \in Nat
  <2>1. PICK a, c : a = Props(m)[1] /\ c = Props(m)[2]
    OBVIOUS
  <2> QED
    BY <1>a, <2>1, PropsFacts
<1>5. raw \in Seq(Nat)
  BY <1>2, BytesAreNumbers
<1>6. PICK x : x = JTT808UtilsCalculateChecksum(raw)
  OBVIOUS
<1>7. x \in Nat
  <2>1. x \in 0..255
    BY ONLY <1>5, <1>6, ChecksumBits
  <2> QED
    BY ONLY <2>1, SMT
<1>8. PICK z : z = raw \o <<x>>
  OBVIOUS
<1>9. Summed(m) = z
  BY <1>1, <1>6, <1>8 DEF Summed
<1>10. z \in Seq(Nat) /\ Len(z) = h + L + 1 /\ \A i \in 1..(h + L) : z[i] = raw[i]
  <2>1. PICK t : t = <<x>>
    OBVIOUS
  <2>2. t \in Seq(Nat)
    BY ONLY <1>7, <2>1
  <2>3. Len(t) = 1
    BY ONLY <1>7, <2>1
  <2>4. z = raw \o t
    BY <1>8, <2>1
  <2>5. /\ z \in Seq(Nat) /\ Len(z) = Len(raw) + Len(t)
        /\ \A k \in 1..Len(raw) : z[k] = raw[k]
        /\ \A k \in 1..Len(t) : z[Len(raw) + k] = t[k]
    BY ONLY <1>5, <2>2, <2>4, AppendedBytes
  <2> QED
    BY <1>2, <2>3, <2>5
<1>11. \A w \in Weights : Odd(z, w) = 0
  BY ONLY <1>5, <1>6, <1>8, SummedUp
<1>12. \A i \in 1..17 : z[i] = raw[i]
  <2>1. \A i \in 1..17 : i \in 1..(h + L)
    BY ONLY <1>3, <1>4, SMT
  <2> QED
    BY ONLY <1>10, <2>1
<1>13. \A i \in 1..L : z[h + i] = Body(m)[i]
  <2>1. \A i \in 1..L : h + i \in 1..(h + L)
    BY ONLY <1>3, <1>4, SMT
  <2> QED
    BY ONLY <1>2, <1>10, <2>1
<1>14. \A i \in 1..10 : z[5 + i] = Phone[i]
  <2>1. \A i \in 1..10 : 5 + i \in 1..17
    OBVIOUS
  <2> QED
    BY ONLY <1>2, <1>12, <2>1
<1>15. /\ z[1] = raw[1] /\ z[2] = raw[2] /\ z[3] = raw[3] /\ z[4] = raw[4]
       /\ z[16] = raw[16] /\ z[17] = raw[17]
  BY ONLY <1>12, SMT
<1>16. /\ z[1] = m.id \div 256 /\ z[2] = m.id % 256
       /\ z[3] = Props(m)[1] /\ z[4] = Props(m)[2]
       /\ z[16] = m.serial[1] /\ z[17] = m.serial[2]
  BY ONLY <1>2, <1>15
<1> QED
  BY ONLY <1>a, <1>3, <1>4, <1>9, <1>10, <1>11, <1>13, <1>14, <1>16

(* What is escaped grows by a byte at least with each byte.                 *)
LEMMA PlacesGrow ==
  ASSUME NEW Z \in Seq(Nat), NEW pl, Places(pl, Stuffing(Z), JTT808UtilsEscape(Z)),
         NEW q \in Nat, NEW n \in Nat, q + n <= Len(Z)
  PROVE  pl[q] \in Nat /\ pl[q + n] \in Nat /\ pl[q] + n <= pl[q + n]
<1> DEFINE S == {k \in Nat : k <= n => pl[q + k] \in Nat /\ pl[q] + k <= pl[q + k]}
<1>1. /\ Len(Stuffing(Z)) = Len(Z) /\ Len(Z) \in Nat
      /\ \A i \in 1..Len(Z) : Stuffing(Z)[i] = Stuffed(Z[i]) /\ Z[i] \in Nat
  BY StuffingType
<1>2. /\ \A i \in 0..Len(Z) : pl[i] \in Nat
      /\ \A i \in 1..Len(Z) : pl[i] = pl[i - 1] + Len(Stuffed(Z[i]))
  <2>1. Len(JTT808UtilsEscape(Z)) \in Nat
    BY EscapeType
  <2>2. /\ pl \in [0..Len(Z) -> 0..Len(JTT808UtilsEscape(Z))]
        /\ \A i \in 1..Len(Z) : pl[i] = pl[i - 1] + Len(Stuffing(Z)[i])
    BY <1>1 DEF Places
  <2>3. \A i \in 0..Len(Z) : pl[i] \in 0..Len(JTT808UtilsEscape(Z))
    BY ONLY <2>2
  <2>4. \A i \in 0..Len(Z) : pl[i] \in Nat
    BY ONLY <2>1, <2>3
  <2> QED
    BY <1>1, <2>2, <2>4
<1>3. \A x \in Nat : Len(Stuffed(x)) \in {1, 2}
  <2> SUFFICES ASSUME NEW x \in Nat
               PROVE  Len(Stuffed(x)) \in {1, 2}
    OBVIOUS
  <2>1. Stuffed(x) \in {<<ESC, 2>>, <<ESC, 1>>, <<x>>}
    BY StuffedFacts
  <2> QED
    BY <2>1
<1>4. pl[q] \in Nat
  <2>1. q \in 0..Len(Z)
    BY <1>1
  <2> QED
    BY <1>2, <2>1
<1>5. 0 \in S
  <2>1. q + 0 = q /\ pl[q] + 0 = pl[q]
    BY <1>4
  <2> QED
    BY <1>4, <2>1
<1>6. ASSUME NEW k \in Nat, k \in S
      PROVE  k + 1 \in S
  <2> SUFFICES ASSUME k + 1 <= n
               PROVE  pl[q + (k + 1)] \in Nat /\ pl[q] + (k + 1) <= pl[q + (k + 1)]
    OBVIOUS
  <2>1. PICK i : i = q + (k + 1)
    OBVIOUS
  <2>2. i \in 1..Len(Z) /\ i \in 0..Len(Z) /\ i - 1 = q + k
    BY <1>1, <2>1
  <2>3. pl[q + k] \in Nat /\ pl[q] + k <= pl[q + k]
    BY <1>6
  <2>4. pl[i] = pl[i - 1] + Len(Stuffed(Z[i])) /\ pl[i] \in Nat
    BY <1>2, <2>2
  <2>5. Len(Stuffed(Z[i])) \in {1, 2}
    BY <1>1, <1>3, <2>2
  <2>6. pl[i - 1] \in Nat /\ pl[q] + k <= pl[i - 1]
    BY <2>2, <2>3
  <2>7. pl[q] + (k + 1) <= pl[i]
    <3>1. PICK A, B, c : A = pl[i - 1] /\ B = pl[q] /\ c = Len(Stuffed(Z[i]))
      OBVIOUS
    <3>2. A \in Nat /\ B \in Nat /\ c \in {1, 2} /\ pl[i] = A + c /\ B + k <= A
      BY ONLY <1>4, <2>4, <2>5, <2>6, <3>1
    <3>3. B + (k + 1) <= A + c
      BY ONLY <3>2, k \in Nat
    <3> QED
      BY ONLY <3>1, <3>2, <3>3
  <2> QED
    BY ONLY <2>1, <2>4, <2>7
<1>7. n \in S
  <2>1. Nat \subseteq S
    <3> HIDE DEF S
    <3> QED
      BY <1>5, <1>6, SetInduction
  <2> QED
    BY <2>1
<1> QED
  BY <1>4, <1>7

LEMMA TwoSlices ==
  ASSUME NEW s \in Seq(Nat), NEW k \in Nat, NEW n \in Nat, k + n <= Len(s)
  PROVE  SubSeq(s, 1, k) \o SubSeq(s, k + 1, k + n) = SubSeq(s, 1, k + n)
<1>1. PICK u : u = SubSeq(s, 1, k)
  OBVIOUS
<1>2. PICK v : v = SubSeq(s, k + 1, k + n)
  OBVIOUS
<1>3. PICK w : w = SubSeq(s, 1, k + n)
  OBVIOUS
<1>4. k \in 0..Len(s) /\ k + n \in 0..Len(s)
  OBVIOUS
<1>5. u \in Seq(Nat) /\ Len(u) = k /\ \A i \in 1..k : u[i] = s[i]
  BY <1>1, <1>4, Prefix
<1>6. v \in Seq(Nat) /\ Len(v) = n /\ \A i \in 1..n : v[i] = s[k + i]
  BY <1>2, Slice
<1>7. w \in Seq(Nat) /\ Len(w) = k + n /\ \A i \in 1..(k + n) : w[i] = s[i]
  BY <1>3, <1>4, Prefix
<1>8. PICK x : x = u \o v
  OBVIOUS
<1>9. u \in Seq(Nat) /\ v \in Seq(Nat)
  BY ONLY <1>5, <1>6
<1>10. /\ x \in Seq(Nat) /\ Len(x) = Len(u) + Len(v)
       /\ \A i \in 1..Len(u) : x[i] = u[i]
       /\ \A i \in 1..Len(v) : x[Len(u) + i] = v[i]
  <2>1. /\ x \in Seq(Nat) /\ Len(x) = Len(u) + Len(v)
        /\ \A j \in 1..Len(u) : x[j] = u[j]
        /\ \A j \in 1..Len(v) : x[Len(u) + j] = v[j]
    BY ONLY <1>8, <1>9, AppendedBytes
  <2> QED
    BY ONLY <2>1
<1>11. \A i \in 1..(k + n) : x[i] = w[i]
  <2> SUFFICES ASSUME NEW i \in 1..(k + n)
               PROVE  x[i] = w[i]
    OBVIOUS
  <2>1. CASE i <= k
    <3>1. i \in 1..k
      BY <2>1
    <3> QED
      BY ONLY <1>5, <1>7, <1>10, <3>1, i \in 1..(k + n)
  <2>2. CASE i > k
    <3>1. PICK j : j = i - k
      OBVIOUS
    <3>2. j \in 1..n /\ k + j = i
      BY <2>2, <3>1
    <3>3. x[k + j] = v[j]
      BY ONLY <1>5, <1>6, <1>10, <3>2
    <3>4. v[j] = s[k + j]
      BY ONLY <1>6, <3>2
    <3> QED
      BY ONLY <1>7, <3>2, <3>3, <3>4, i \in 1..(k + n)
  <2> QED
    BY <2>1, <2>2
<1>12. Len(x) = k + n
  BY ONLY <1>5, <1>6, <1>10
<1>13. x = w
  BY ONLY <1>7, <1>10, <1>11, <1>12, SeqEqual
<1> QED
  BY <1>1, <1>2, <1>3, <1>8, <1>13

(* Bytes with a header of h bytes, a body of L and one more, escaped in b   *)
(* behind start: header and body are taken out of it.                       *)
Parts(Z, h, L) ==
  /\ Z \in Seq(Nat) /\ Len(Z) = h + L + 1 /\ h \in {17, 21} /\ L \in Nat
  /\ Packaged(<<Z[3], Z[4]>>) <=> h = 21
  /\ BodyLength(<<Z[3], Z[4]>>) = L

Taken(Z, h, L) == [header |-> SubSeq(Z, 1, h), body |-> SubSeq(Z, h + 1, h + L)]

Behind(b, start, E) == \A k \in 1..Len(E) : b[start + k] = E[k]

LEMMA Extracted ==
  ASSUME NEW Z, NEW h, NEW L, Parts(Z, h, L), NEW b, NEW start \in Nat,
         NEW E, E = JTT808UtilsEscape(Z), Behind(b, start, E)
  PROVE  extractJTT808Msg(b, start, start + Len(E) + 1) = <<Taken(Z, h, L)>>
<1>4. /\ Z \in Seq(Nat) /\ Len(Z) = h + L + 1 /\ h \in {17, 21} /\ L \in Nat
      /\ Packaged(<<Z[3], Z[4]>>) <=> h = 21
      /\ BodyLength(<<Z[3], Z[4]>>) = L
  BY ONLY Parts(Z, h, L) DEF Parts
<1>5. E = JTT808UtilsEscape(Z)
  OBVIOUS
<1>6. E \in Seq(Nat) /\ Len(E) \in Nat
  BY <1>4, EscapeType
<1>7. PICK pl : Places(pl, Stuffing(Z), E)
  BY <1>4, <1>5, EscapePlaces
<1>8. Lies(Z, pl, b, start)
  BY <1>7 DEF Lies, Behind
<1>9. PICK maxPos : maxPos = start + Len(E) + 1 + 1
  OBVIOUS
<1>10. maxPos \in Nat /\ start + Len(E) <= maxPos
  BY ONLY <1>6, <1>9, start \in Nat
<1>11. ASSUME NEW q \in Nat, NEW n \in Nat, q + n <= h + L + 1
       PROVE  Unescape(b, start + 1 + pl[q], n, maxPos) = Seen(Z, pl, start, q, n)
  <2>1. q + n <= Len(Z) /\ start + Len(JTT808UtilsEscape(Z)) <= maxPos
    BY <1>4, <1>5, <1>10, <1>11
  <2> QED
    BY ONLY <1>4, <1>8, <1>10, <2>1, start \in Nat, q \in Nat, n \in Nat, UnescapeRun
<1>12. pl[0] = 0
  BY <1>7 DEF Places
<1>13. PICK first : first = Unescape(b, start + 1, 17, maxPos)
  OBVIOUS
<1>14. first = Seen(Z, pl, start, 0, 17)
  <2>1. start + 1 + pl[0] = start + 1
    BY ONLY <1>12, start \in Nat
  <2>2. 0 \in Nat /\ 17 \in Nat /\ 0 + 17 <= h + L + 1
    BY ONLY <1>4, SMT
  <2>3. Unescape(b, start + 1 + pl[0], 17, maxPos) = Seen(Z, pl, start, 0, 17)
    BY <1>11, <2>2
  <2> QED
    BY <1>13, <2>1, <2>3
<1>15. first.ok = TRUE /\ first.out = SubSeq(Z, 1, 17) /\ first.at = start + 1 + pl[17]
  BY <1>14 DEF Seen
<1>16. PICK props : props = SubSeq(first.out, 3, 4)
  OBVIOUS
<1>17. (Packaged(props) <=> h = 21) /\ BodyLength(props) = L
  <2>1. PICK u : u = SubSeq(Z, 1, 17)
    OBVIOUS
  <2>2. 17 \in 0..Len(Z)
    BY ONLY <1>4, SMT
  <2>3. u \in Seq(Nat) /\ Len(u) = 17 /\ \A i \in 1..17 : u[i] = Z[i]
    <3>1. PICK n : n = 17
      OBVIOUS
    <3>2. n \in 0..Len(Z)
      BY <2>2, <3>1
    <3>3. SubSeq(Z, 1, n) \in Seq(Nat) /\ Len(SubSeq(Z, 1, n)) = n
            /\ \A i \in 1..n : SubSeq(Z, 1, n)[i] = Z[i]
      BY ONLY <1>4, <3>2, Prefix
    <3> QED
      BY ONLY <2>1, <3>1, <3>3
  <2>4. PICK a, c : a = Z[3] /\ c = Z[4]
    OBVIOUS
  <2>5. u[3] = a /\ u[4] = c
    BY ONLY <2>3, <2>4, SMT
  <2>6. SubSeq(u, 3, 4) = <<a, c>>
    <3>1. PICK v : v = SubSeq(u, 2 + 1, 2 + 2)
      OBVIOUS
    <3>2. v \in Seq(Nat) /\ Len(v) = 2 /\ \A i \in 1..2 : v[i] = u[2 + i]
      <4>1. PICK n : n = 2
        OBVIOUS
      <4>2. n \in Nat /\ n + n <= Len(u)
        BY ONLY <2>3, <4>1, SMT
      <4>3. /\ SubSeq(u, n + 1, n + n) \in Seq(Nat) /\ Len(SubSeq(u, n + 1, n + n)) = n
            /\ \A i \in 1..n : SubSeq(u, n + 1, n + n)[i] = u[n + i]
        <5>1. u \in Seq(Nat)
          BY ONLY <2>3
        <5> QED
          BY ONLY <4>2, <5>1, Slice
      <4> QED
        BY ONLY <3>1, <4>1, <4>3
    <3>3. v[1] = a /\ v[2] = c
      BY ONLY <2>5, <3>2, SMT
    <3>4. v = <<v[1], v[2]>>
      BY ONLY <3>2, SMT
    <3> QED
      BY ONLY <3>1, <3>3, <3>4, SMT
  <2>7. props = <<a, c>>
    BY <1>15, <1>16, <2>1, <2>6
  <2> QED
    BY ONLY <1>4, <2>4, <2>7
<1>18. PICK n : n = IF Packaged(props) THEN 4 ELSE 0
  OBVIOUS
<1>19. n \in Nat /\ 17 + n = h
  <2>1. CASE h = 21
    BY <1>4, <1>17, <1>18, <2>1, SMT
  <2>2. CASE h # 21
    BY <1>4, <1>17, <1>18, <2>2, SMT
  <2> QED
    BY <2>1, <2>2
<1>20. PICK more : more = Unescape(b, first.at, n, maxPos)
  OBVIOUS
<1>21. more = Seen(Z, pl, start, 17, n)
  <2>1. 17 \in Nat /\ 17 + n <= h + L + 1
    BY ONLY <1>4, <1>19, SMT
  <2> QED
    BY <1>11, <1>15, <1>19, <1>20, <2>1
<1>22. more.ok = TRUE /\ more.out = SubSeq(Z, 18, h) /\ more.at = start + 1 + pl[h]
  <2>1. more = [ok |-> TRUE, out |-> SubSeq(Z, 17 + 1, 17 + n), at |-> start + 1 + pl[17 + n]]
    BY ONLY <1>21 DEF Seen
  <2>2. 17 + 1 = 18
    BY SMT
  <2> QED
    BY ONLY <1>19, <2>1, <2>2
<1>23. PICK body : body = Unescape(b, more.at, L, maxPos)
  OBVIOUS
<1>24. body = Seen(Z, pl, start, h, L)
  <2>1. h \in Nat /\ h + L <= h + L + 1
    BY ONLY <1>4, SMT
  <2> QED
    BY <1>4, <1>11, <1>22, <1>23, <2>1
<1>25. body.ok = TRUE /\ body.out = SubSeq(Z, h + 1, h + L)
  BY ONLY <1>24 DEF Seen
<1>26. ~(more.at + L > maxPos)
  <2>1. h \in Nat /\ h + L <= Len(Z)
    BY ONLY <1>4, SMT
  <2>2. pl[h] \in Nat /\ pl[h + L] \in Nat /\ pl[h] + L <= pl[h + L]
    BY <1>4, <1>5, <1>7, <2>1, PlacesGrow
  <2>3. pl[h + L] <= Len(E)
    <3>1. Len(Stuffing(Z)) = Len(Z)
      BY <1>4, StuffingType
    <3>2. pl \in [0..Len(Z) -> 0..Len(E)]
      BY <1>7, <3>1 DEF Places
    <3>3. h + L \in 0..Len(Z)
      BY ONLY <1>4, SMT
    <3>4. pl[h + L] \in 0..Len(E)
      BY ONLY <3>2, <3>3
    <3> QED
      BY ONLY <1>6, <3>4
  <2>4. PICK A, B, e : A = pl[h] /\ B = pl[h + L] /\ e = Len(E)
    OBVIOUS
  <2>5. A \in Nat /\ B \in Nat /\ e \in Nat /\ A + L <= B /\ B <= e
    BY ONLY <1>6, <2>2, <2>3, <2>4
  <2>6. L \in Nat
    BY ONLY <1>4
  <2>7. maxPos = start + e + 1 + 1 /\ more.at = start + 1 + A
    BY ONLY <1>9, <1>22, <2>4
  <2> QED
    BY ONLY <2>5, <2>6, <2>7, start \in Nat
<1>27. SubSeq(Z, 1, 17) \o SubSeq(Z, 18, h) = SubSeq(Z, 1, h)
  <2>1. PICK k : k = 17
    OBVIOUS
  <2>2. k \in Nat /\ n \in Nat /\ k + n = h /\ k + 1 = 18 /\ k + n <= Len(Z)
    BY ONLY <1>4, <1>19, <2>1, SMT
  <2>3. SubSeq(Z, 1, k) \o SubSeq(Z, k + 1, k + n) = SubSeq(Z, 1, k + n)
    BY ONLY <1>4, <2>2, TwoSlices
  <2> QED
    BY ONLY <2>1, <2>2, <2>3
<1>28. extractJTT808Msg(b, start, start + Len(E) + 1) =
         IF ~first.ok \/ ~more.ok \/ more.at + L > maxPos \/ ~body.ok
         THEN <<>>
         ELSE <<[header |-> first.out \o more.out, body |-> body.out]>>
  <2>1. PICK end : end = start + Len(E) + 1
    OBVIOUS
  <2>2. maxPos = end + 1
    BY ONLY <1>9, <2>1
  <2>3. first = Unescape(b, start + 1, 17, end + 1)
    BY ONLY <1>13, <2>2
  <2>4. more = Unescape(b, first.at, IF Packaged(props) THEN 4 ELSE 0, end + 1)
    BY ONLY <1>18, <1>20, <2>2
  <2>5. PICK m : m = BodyLength(props)
    OBVIOUS
  <2>6. m = L
    BY ONLY <1>17, <2>5
  <2>7. body = Unescape(b, more.at, m, end + 1)
    BY ONLY <1>23, <2>2, <2>6
  <2>8. extractJTT808Msg(b, start, end) =
          IF ~first.ok \/ ~more.ok \/ more.at + m > end + 1 \/ ~body.ok
          THEN <<>>
          ELSE <<[header |-> first.out \o more.out, body |-> body.out]>>
    BY ONLY <1>16, <2>3, <2>4, <2>5, <2>7, ZenonT(40) DEF extractJTT808Msg
  <2> QED
    BY ONLY <2>1, <2>2, <2>6, <2>8
<1> QED
  BY <1>15, <1>22, <1>25, <1>26, <1>27, <1>28 DEF Taken

(* What the parser makes of the frame of a message.                         *)
Got(m) == [header |-> SubSeq(Summed(m), 1, HeaderLen(m)), body |-> Body(m)]

LEMMA ExtractFrame ==
  ASSUME NEW m, Good(m), NEW b, NEW start \in Nat,
         \A k \in 1..Len(Inner(m)) : b[start + k] = Inner(m)[k]
  PROVE  extractJTT808Msg(b, start, start + Len(Inner(m)) + 1) = <<Got(m)>>
<1>1. PICK Z, E : Z = Summed(m) /\ E = Inner(m)
  OBVIOUS
<1>2. PICK h : h = HeaderLen(m)
  OBVIOUS
<1>3. PICK L : L = Len(Body(m))
  OBVIOUS
<1>4. /\ Z \in Seq(Nat) /\ Len(Z) = h + L + 1 /\ h \in {17, 21}
      /\ (m.packaged <=> h = 21) /\ L \in Nat
      /\ Z[3] = Props(m)[1] /\ Z[4] = Props(m)[2]
      /\ \A i \in 1..L : Z[h + i] = Body(m)[i]
  <2>1. /\ Summed(m) \in Seq(Nat) /\ Len(Summed(m)) = HeaderLen(m) + Len(Body(m)) + 1
        /\ HeaderLen(m) \in {17, 21} /\ (m.packaged <=> HeaderLen(m) = 21)
        /\ Len(Body(m)) \in Nat
        /\ Summed(m)[3] = Props(m)[1] /\ Summed(m)[4] = Props(m)[2]
        /\ \A i \in 1..Len(Body(m)) : Summed(m)[HeaderLen(m) + i] = Body(m)[i]
    BY ONLY Good(m), SummedFacts
  <2> QED
    BY ONLY <1>1, <1>2, <1>3, <2>1
<1>5. Parts(Z, h, L)
  <2>1. PICK a, c : a = Props(m)[1] /\ c = Props(m)[2]
    OBVIOUS
  <2>2. (Packaged(<<a, c>>) <=> m.packaged) /\ BodyLength(<<a, c>>) = L
    BY <1>3, <2>1, PropsFacts
  <2>3. Z[3] = a /\ Z[4] = c
    BY ONLY <1>4, <2>1
  <2> QED
    BY ONLY <1>4, <2>2, <2>3 DEF Parts
<1>6. E = JTT808UtilsEscape(Z)
  BY <1>1 DEF Inner
<1>7. extractJTT808Msg(b, start, start + Len(E) + 1) = <<Taken(Z, h, L)>>
  <2>1. Behind(b, start, E)
    BY <1>1 DEF Behind
  <2> QED
    BY ONLY <1>5, <1>6, <2>1, start \in Nat, Extracted
<1>8. SubSeq(Z, h + 1, h + L) = Body(m)
  <2>1. PICK w \in Seq(Byte) : w = Body(m)
    BY SMT DEF Good
  <2>2. w \in Seq(Nat)
    BY BytesAreNumbers
  <2>3. PICK v : v = SubSeq(Z, h + 1, h + L)
    OBVIOUS
  <2>4. h \in Nat /\ h + L <= Len(Z)
    BY ONLY <1>4, SMT
  <2>5. v \in Seq(Nat) /\ Len(v) = L /\ \A i \in 1..L : v[i] = Z[h + i]
    <3>1. Z \in Seq(Nat) /\ L \in Nat
      BY ONLY <1>4
    <3>2. /\ SubSeq(Z, h + 1, h + L) \in Seq(Nat) /\ Len(SubSeq(Z, h + 1, h + L)) = L
          /\ \A i \in 1..L : SubSeq(Z, h + 1, h + L)[i] = Z[h + i]
      BY ONLY <2>4, <3>1, Slice
    <3> QED
      BY ONLY <2>3, <3>2
  <2>6. \A i \in 1..L : v[i] = w[i]
    BY ONLY <1>4, <2>1, <2>5
  <2>7. v = w
    BY ONLY <1>3, <2>1, <2>2, <2>5, <2>6, SeqEqual
  <2> QED
    BY <2>1, <2>3, <2>7
<1> QED
  BY ONLY <1>1, <1>2, <1>7, <1>8 DEF Got, Taken

-----------------------------------------------------------------------------
(* Looking for a marker.                                                    *)
LEMMA MinIs ==
  ASSUME NEW S, S \subseteq Nat, S # {}
  PROVE  Min(S) \in S /\ \A y \in S : Min(S) <= y
<1>1. \E x \in S : \A y \in S : x <= y
  BY LeastElement
<1> QED
  BY <1>1 DEF Min

LEMMA SkipNone ==
  ASSUME NEW b, NEW p, \A i \in p..Len(b) : b[i] # MARK
  PROVE  skipTillValidMsg(b, p) = 0
BY DEF skipTillValidMsg

LEMMA SkipIs ==
  ASSUME NEW b, NEW p \in Nat, Len(b) \in Nat, NEW x \in p..Len(b), b[x] = MARK,
         \A i \in p..Len(b) : i < x => b[i] # MARK
  PROVE  skipTillValidMsg(b, p) = x
<1> DEFINE marks == {i \in p..Len(b) : b[i] = MARK}
<1>1. marks \subseteq Nat /\ marks # {} /\ x \in marks
  OBVIOUS
<1>2. \A i \in marks : i \in Nat /\ x <= i
  OBVIOUS
<1>3. skipTillValidMsg(b, p) = Min(marks)
  BY <1>1 DEF skipTillValidMsg
<1> HIDE DEF marks
<1>4. Min(marks) \in marks /\ Min(marks) <= x
  BY <1>1, MinIs
<1>5. x <= Min(marks) /\ Min(marks) \in Nat
  BY <1>2, <1>4
<1> QED
  BY <1>3, <1>4, <1>5

LEMMA SkipRange ==
  ASSUME NEW b, NEW p \in Nat, Len(b) \in Nat, skipTillValidMsg(b, p) # 0
  PROVE  skipTillValidMsg(b, p) \in p..Len(b)
<1> DEFINE marks == {i \in p..Len(b) : b[i] = MARK}
<1>1. marks # {} /\ skipTillValidMsg(b, p) = Min(marks)
  BY DEF skipTillValidMsg
<1>2. marks \subseteq Nat /\ marks \subseteq p..Len(b)
  OBVIOUS
<1> HIDE DEF marks
<1> QED
  BY <1>1, <1>2, MinIs

-----------------------------------------------------------------------------
(* GetNextJTT808Msg, from one marker to the next.                           *)
Ends(b, s)  == skipTillValidMsg(b, s + 2)
Sum(b, s)   == JTT808UtilsCalculateChecksum(SubSeq(b, s + 1, Ends(b, s) - 1))
Found(b, s) == IF Sum(b, s) = 0 THEN extractJTT808Msg(b, s, Ends(b, s)) ELSE <<>>
Halts(b, s) == s = 0 \/ s + 15 > Len(b) \/ Ends(b, s) = 0 \/ Found(b, s) # <<>>

Yield(b, s) ==
  IF s = 0 THEN [drop |-> Len(b), msg |-> <<>>]
  ELSE IF s + 15 > Len(b) THEN [drop |-> s - 1, msg |-> <<>>]
  ELSE IF Ends(b, s) = 0 THEN [drop |-> s - 1, msg |-> <<>>]
  ELSE [drop |-> Ends(b, s), msg |-> Found(b, s)]

Tries(f, b) ==
  f = [p \in 1..(Len(b) + 2) |->
         LET s == skipTillValidMsg(b, p)
         IN  IF s = 0 THEN [drop |-> Len(b), msg |-> <<>>]
             ELSE IF s + 15 > Len(b) THEN [drop |-> s - 1, msg |-> <<>>]
             ELSE IF Ends(b, s) = 0 THEN [drop |-> s - 1, msg |-> <<>>]
             ELSE IF Found(b, s) # <<>> THEN [drop |-> Ends(b, s), msg |-> Found(b, s)]
             ELSE f[s + 1]]

LEMMA GetNextDef ==
  ASSUME NEW b, \E f : Tries(f, b)
  PROVE  \E f : Tries(f, b) /\ GetNextJTT808Msg(b) = f[1]
BY Zenon DEF GetNextJTT808Msg, Tries, Ends, Found, Sum

GoesOn(f, b) ==
  \A p \in 1..(Len(b) + 2) :
    LET s == skipTillValidMsg(b, p)
    IN  f[p] = IF Halts(b, s) THEN Yield(b, s) ELSE f[s + 1]

LEMMA GetNextSolves ==
  ASSUME NEW b, Len(b) \in Nat
  PROVE  \E f : GoesOn(f, b) /\ GetNextJTT808Msg(b) = f[1]
<1> DEFINE N == Len(b) + 2
           skip(p) == skipTillValidMsg(b, p)
           stop == {p \in 1..N : Halts(b, skip(p))}
           nxt == [p \in 1..N |-> skip(p) + 1]
           out == [p \in 1..N |-> Yield(b, skip(p))]
           Turn(f, s) == IF s = 0 THEN [drop |-> Len(b), msg |-> <<>>]
             ELSE IF s + 15 > Len(b) THEN [drop |-> s - 1, msg |-> <<>>]
             ELSE IF Ends(b, s) = 0 THEN [drop |-> s - 1, msg |-> <<>>]
             ELSE IF Found(b, s) # <<>> THEN [drop |-> Ends(b, s), msg |-> Found(b, s)]
             ELSE f[s + 1]
<1>1. N \in Nat
  OBVIOUS
<1>2. \A p \in 1..N : p \notin stop => nxt[p] \in (p + 1)..N
  <2> SUFFICES ASSUME NEW p \in 1..N, p \notin stop
               PROVE  nxt[p] \in (p + 1)..N
    OBVIOUS
  <2>1. skip(p) # 0
    BY DEF Halts
  <2>2. skip(p) \in p..Len(b)
    BY <2>1, SkipRange
  <2> QED
    BY <2>2
<1>3. PICK f : Jumps(f, N, stop, nxt, out)
  <2> HIDE DEF N, stop, nxt, out
  <2> QED
    BY <1>1, <1>2, JumpRecursion
<1>4. ASSUME NEW g, NEW s
      PROVE  Turn(g, s) = IF Halts(b, s) THEN Yield(b, s) ELSE g[s + 1]
  BY DEF Halts, Yield
<1>5. \A p \in 1..N : f[p] = Turn(f, skip(p))
  <2> SUFFICES ASSUME NEW p \in 1..N
               PROVE  f[p] = Turn(f, skip(p))
    OBVIOUS
  <2>1. f[p] = IF p \in stop THEN out[p] ELSE f[nxt[p]]
    <3> HIDE DEF N, stop, nxt, out
    <3> QED
      BY <1>3 DEF Jumps
  <2>2. (p \in stop <=> Halts(b, skip(p))) /\ out[p] = Yield(b, skip(p)) /\ nxt[p] = skip(p) + 1
    OBVIOUS
  <2> HIDE DEF stop, nxt, out, Turn, skip
  <2> QED
    BY <1>4, <2>1, <2>2
<1>6. f = [p \in 1..N |-> Turn(f, skip(p))]
  <2>1. f = [p \in 1..N |-> f[p]]
    <3>1. f = [p \in 1..N |-> IF p \in stop THEN out[p] ELSE f[nxt[p]]]
      <4> HIDE DEF N, stop, nxt, out
      <4> QED
        BY <1>3 DEF Jumps
    <3> HIDE DEF N, stop, nxt, out
    <3> QED
      BY <3>1
  <2> HIDE DEF Turn, N, skip
  <2> QED
    BY <1>5, <2>1
<1>7. Tries(f, b)
  BY <1>6, Zenon DEF Tries
<1>8. PICK g : Tries(g, b) /\ GetNextJTT808Msg(b) = g[1]
  BY <1>7, GetNextDef
<1>9. \A p \in 1..N : g[p] = Turn(g, skip(p))
  <2>1. g = [p \in 1..N |-> Turn(g, skip(p))]
    BY <1>8, Zenon DEF Tries
  <2> HIDE DEF Turn, N, skip
  <2> QED
    BY <2>1
<1>10. GoesOn(g, b)
  <2> HIDE DEF Turn
  <2>1. \A p \in 1..N : g[p] = IF Halts(b, skip(p)) THEN Yield(b, skip(p)) ELSE g[skip(p) + 1]
    BY <1>4, <1>9
  <2> QED
    BY <2>1 DEF GoesOn
<1> QED
  BY <1>8, <1>10

(* No more is dropped than there is.                                        *)
LEMMA YieldType ==
  ASSUME NEW b, Len(b) \in Nat, NEW s, s = 0 \/ s \in 1..Len(b)
  PROVE  Yield(b, s).drop \in 0..Len(b)
<1>1. CASE s = 0
  BY <1>1 DEF Yield
<1>2. CASE s \in 1..Len(b) /\ (s + 15 > Len(b) \/ Ends(b, s) = 0)
  <2>1. Yield(b, s) = [drop |-> s - 1, msg |-> <<>>]
    BY <1>2 DEF Yield
  <2> QED
    BY <1>2, <2>1
<1>3. CASE s \in 1..Len(b) /\ ~(s + 15 > Len(b)) /\ Ends(b, s) # 0
  <2>1. Yield(b, s) = [drop |-> Ends(b, s), msg |-> Found(b, s)]
    BY <1>3 DEF Yield
  <2>2. s + 2 \in Nat
    BY <1>3
  <2>3. Ends(b, s) \in (s + 2)..Len(b)
    BY <1>3, <2>2, SkipRange DEF Ends
  <2>4. Ends(b, s) \in 0..Len(b)
    BY <1>3, <2>3
  <2> QED
    BY <2>1, <2>4
<1> QED
  BY <1>1, <1>2, <1>3

LEMMA DropType ==
  ASSUME NEW b, Len(b) \in Nat
  PROVE  GetNextJTT808Msg(b).drop \in 0..Len(b)
<1>1. PICK f : GoesOn(f, b) /\ GetNextJTT808Msg(b) = f[1]
  BY GetNextSolves
<1> DEFINE N == Len(b) + 2
           S == {d \in Nat : d < N => f[N - d].drop \in 0..Len(b)}
<1>2. N \in Nat /\ N > 1
  OBVIOUS
<1> DEFINE T == {d \in Nat : \A e \in 0..d : e < N => f[N - e].drop \in 0..Len(b)}
<1>3. ASSUME NEW p \in 1..N, \A q \in (p + 1)..N : f[q].drop \in 0..Len(b)
      PROVE  f[p].drop \in 0..Len(b)
  <2>1. PICK s : s = skipTillValidMsg(b, p)
    OBVIOUS
  <2>2. s = 0 \/ s \in p..Len(b)
    BY <2>1, SkipRange
  <2>3. f[p] = IF Halts(b, s) THEN Yield(b, s) ELSE f[s + 1]
    BY <1>1, <2>1 DEF GoesOn
  <2>4. CASE Halts(b, s)
    <3>1. s = 0 \/ s \in 1..Len(b)
      BY <2>2
    <3> QED
      BY <2>3, <2>4, <3>1, YieldType
  <2>5. CASE ~Halts(b, s)
    <3>1. s # 0
      BY <2>5 DEF Halts
    <3>2. s + 1 \in (p + 1)..N
      BY <2>2, <3>1
    <3> QED
      BY <1>3, <2>3, <2>5, <3>2
  <2> QED
    BY <2>4, <2>5
<1>4. 0 \in T
  <2>1. \A q \in (N + 1)..N : f[q].drop \in 0..Len(b)
    OBVIOUS
  <2>2. f[N].drop \in 0..Len(b)
    BY <1>2, <1>3, <2>1
  <2>3. \A e \in 0..0 : N - e = N
    OBVIOUS
  <2> QED
    BY <2>2, <2>3
<1>5. ASSUME NEW d \in Nat, d \in T
      PROVE  d + 1 \in T
  <2> SUFFICES ASSUME d + 1 < N
               PROVE  f[N - (d + 1)].drop \in 0..Len(b)
    <3>1. \A e \in 0..(d + 1) : e \in 0..d \/ e = d + 1
      OBVIOUS
    <3> QED
      BY <1>5, <3>1
  <2>1. PICK p : p = N - (d + 1)
    OBVIOUS
  <2>2. p \in 1..N
    BY <2>1
  <2>3. \A q \in (p + 1)..N : f[q].drop \in 0..Len(b)
    <3> SUFFICES ASSUME NEW q \in (p + 1)..N
                 PROVE  f[q].drop \in 0..Len(b)
      OBVIOUS
    <3>1. PICK e : e = N - q
      OBVIOUS
    <3>2. e \in 0..d /\ e < N /\ N - e = q
      BY <2>1, <3>1
    <3> QED
      BY <1>5, <3>2
  <2> QED
    BY <1>3, <2>1, <2>2, <2>3
<1>6. Nat \subseteq T
  <2> HIDE DEF T
  <2> QED
    BY <1>4, <1>5, SetInduction
<1>7. N - 1 \in Nat /\ N - 1 \in 0..(N - 1) /\ N - 1 < N /\ N - (N - 1) = 1
  BY <1>2
<1>8. f[1].drop \in 0..Len(b)
  BY <1>6, <1>7
<1> QED
  BY <1>1, <1>8

-----------------------------------------------------------------------------
(* The loop of RunRX.                                                       *)
SortTurn(f, b, n) ==
  LET rest == SubSeq(b, Len(b) - n + 1, Len(b))
      next == GetNextJTT808Msg(rest)
  IN  IF n = 0 \/ next.drop = 0 THEN [left |-> rest, msgs |-> next.msg]
      ELSE [left |-> f[n - next.drop].left, msgs |-> next.msg \o f[n - next.drop].msgs]

Sorts(f, b) == f = [n \in 0..Len(b) |-> SortTurn(f, b, n)]

LEMMA SortedDef ==
  ASSUME NEW b, \E f : Sorts(f, b)
  PROVE  \E f : Sorts(f, b) /\ Sorted(b) = f[Len(b)]
BY Zenon DEF Sorted, Sorts, SortTurn

(* The last n bytes.                                                        *)
LEMMA Tails ==
  ASSUME NEW b \in Seq(Nat), NEW n \in 0..Len(b)
  PROVE  LET rest == SubSeq(b, Len(b) - n + 1, Len(b))
         IN  rest \in Seq(Nat) /\ Len(rest) = n /\ GetNextJTT808Msg(rest).drop \in 0..n
<1> DEFINE rest == SubSeq(b, Len(b) - n + 1, Len(b))
<1>1. PICK p : p = Len(b) - n
  OBVIOUS
<1>2. p \in 0..Len(b) /\ Len(b) - p = n /\ n \in Nat
  BY <1>1
<1>3. rest = SubSeq(b, p + 1, Len(b))
  BY <1>1
<1>4. rest \in Seq(Nat) /\ Len(rest) = n
  <2> HIDE DEF rest
  <2>1. /\ SubSeq(b, p + 1, Len(b)) \in Seq(Nat)
        /\ Len(SubSeq(b, p + 1, Len(b))) = Len(b) - p
    BY ONLY <1>2, b \in Seq(Nat), Dropped
  <2> QED
    BY <1>2, <1>3, <2>1
<1>5. GetNextJTT808Msg(rest).drop \in 0..n
  <2> HIDE DEF rest
  <2> QED
    BY <1>2, <1>4, DropType
<1> QED
  BY <1>4, <1>5

(* A turn looks at the function for shorter ends only.                      *)
LEMMA SortTurnOf ==
  ASSUME NEW b \in Seq(Nat), NEW n \in 0..Len(b), NEW f, NEW g,
         \A k \in 0..(n - 1) : f[k] = g[k]
  PROVE  SortTurn(f, b, n) = SortTurn(g, b, n)
<1>1. PICK rest : rest = SubSeq(b, Len(b) - n + 1, Len(b))
  OBVIOUS
<1>2. PICK d : d = GetNextJTT808Msg(rest).drop
  OBVIOUS
<1>3. d \in 0..n
  BY <1>1, <1>2, Tails
<1>4. CASE n = 0 \/ d = 0
  BY <1>1, <1>2, <1>4 DEF SortTurn
<1>5. CASE n # 0 /\ d # 0
  <2>1. n - d \in 0..(n - 1)
    BY <1>3, <1>5
  <2>2. f[n - d] = g[n - d]
    BY <2>1
  <2> QED
    BY <1>1, <1>2, <1>5, <2>2 DEF SortTurn
<1> QED
  BY <1>4, <1>5

LEMMA SortsExists ==
  ASSUME NEW b \in Seq(Nat)
  PROVE  \E f : Sorts(f, b)
<1> DEFINE Upto(f, k) == f = [n \in 0..k |-> SortTurn(f, b, n)]
           S == {k \in Nat : k <= Len(b) => \E f : Upto(f, k)}
<1>1. Len(b) \in Nat
  OBVIOUS
<1>2. 0 \in S
  <2> DEFINE f == [n \in 0..0 |-> SortTurn(<<>>, b, n)]
  <2>1. \A n \in 0..0 : f[n] = SortTurn(f, b, n)
    <3> SUFFICES ASSUME NEW n \in 0..0
                 PROVE  f[n] = SortTurn(f, b, n)
      OBVIOUS
    <3>1. f[n] = SortTurn(<<>>, b, n)
      OBVIOUS
    <3>2. \A k \in 0..(n - 1) : <<>>[k] = f[k]
      OBVIOUS
    <3>3. n \in 0..Len(b)
      BY <1>1
    <3> HIDE DEF f
    <3> QED
      BY <3>1, <3>2, <3>3, SortTurnOf
  <2>2. f = [n \in 0..0 |-> f[n]]
    OBVIOUS
  <2>3. Upto(f, 0)
    <3> HIDE DEF f
    <3> QED
      BY <2>1, <2>2
  <2> HIDE DEF Upto, f
  <2> QED
    BY <2>3
<1>3. ASSUME NEW k \in Nat, k \in S
      PROVE  k + 1 \in S
  <2> HIDE DEF Upto
  <2> SUFFICES ASSUME k + 1 <= Len(b)
               PROVE  \E f : Upto(f, k + 1)
    OBVIOUS
  <2>1. PICK f : Upto(f, k)
    BY <1>1, <1>3
  <2> DEFINE g == [n \in 0..(k + 1) |-> SortTurn(f, b, n)]
  <2>2. \A n \in 0..k : g[n] = f[n]
    <3> SUFFICES ASSUME NEW n \in 0..k
                 PROVE  g[n] = f[n]
      OBVIOUS
    <3>1. n \in 0..(k + 1)
      OBVIOUS
    <3>2. g[n] = SortTurn(f, b, n)
      BY <3>1
    <3>3. f[n] = SortTurn(f, b, n)
      <4> HIDE DEF g
      <4> QED
        BY <2>1 DEF Upto
    <3> QED
      BY <3>2, <3>3
  <2>3. \A n \in 0..(k + 1) : g[n] = SortTurn(g, b, n)
    <3> SUFFICES ASSUME NEW n \in 0..(k + 1)
                 PROVE  g[n] = SortTurn(g, b, n)
      OBVIOUS
    <3>1. g[n] = SortTurn(f, b, n)
      OBVIOUS
    <3> HIDE DEF g
    <3>2. \A i \in 0..(n - 1) : f[i] = g[i]
      BY <2>2
    <3>3. n \in 0..Len(b)
      BY <1>1
    <3> QED
      BY <3>1, <3>2, <3>3, SortTurnOf
  <2>4. g = [n \in 0..(k + 1) |-> g[n]]
    OBVIOUS
  <2>5. Upto(g, k + 1)
    <3> HIDE DEF g
    <3> QED
      BY <2>3, <2>4 DEF Upto
  <2> QED
    BY <2>5
<1>4. PICK f : Upto(f, Len(b))
  <2> HIDE DEF Upto
  <2>1. Nat \subseteq S
    <3> HIDE DEF S
    <3> QED
      BY <1>2, <1>3, SetInduction
  <2> QED
    BY <1>1, <2>1
<1> QED
  BY <1>4 DEF Sorts

LEMMA SortedSolves ==
  ASSUME NEW b \in Seq(Nat)
  PROVE  \E f : (\A n \in 0..Len(b) : f[n] = SortTurn(f, b, n)) /\ Sorted(b) = f[Len(b)]
<1>1. PICK f : Sorts(f, b) /\ Sorted(b) = f[Len(b)]
  BY SortsExists, SortedDef
<1>2. \A n \in 0..Len(b) : f[n] = SortTurn(f, b, n)
  BY <1>1 DEF Sorts
<1> QED
  BY <1>1, <1>2

(* One message, or some bytes nobody wants, and what Sorted makes of the    *)
(* rest.                                                                    *)
LEMMA SortedStep ==
  ASSUME NEW b \in Seq(Nat), NEW next, next = GetNextJTT808Msg(b)
  PROVE  /\ next.drop \in 0..Len(b)
         /\ Len(b) = 0 \/ next.drop = 0 => Sorted(b) = [left |-> b, msgs |-> next.msg]
         /\ Len(b) # 0 /\ next.drop # 0 =>
              LET more == Sorted(SubSeq(b, next.drop + 1, Len(b)))
              IN  Sorted(b) = [left |-> more.left, msgs |-> next.msg \o more.msgs]
<1>1. PICK f : (\A n \in 0..Len(b) : f[n] = SortTurn(f, b, n)) /\ Sorted(b) = f[Len(b)]
  BY SortedSolves
<1>2. PICK d : d = next.drop
  OBVIOUS
<1>3. Len(b) \in Nat /\ SubSeq(b, Len(b) - Len(b) + 1, Len(b)) = b
  OBVIOUS
<1>4. d \in 0..Len(b)
  BY <1>2, <1>3, DropType
<1>5. Sorted(b) = SortTurn(f, b, Len(b))
  BY <1>1, <1>3
<1>6. SortTurn(f, b, Len(b)) =
        IF Len(b) = 0 \/ d = 0 THEN [left |-> b, msgs |-> next.msg]
        ELSE [left |-> f[Len(b) - d].left, msgs |-> next.msg \o f[Len(b) - d].msgs]
  BY <1>2, <1>3 DEF SortTurn
<1>7. ASSUME Len(b) # 0, d # 0
      PROVE  Sorted(SubSeq(b, d + 1, Len(b))) = f[Len(b) - d]
  <2>1. PICK c : c = SubSeq(b, d + 1, Len(b))
    OBVIOUS
  <2>2. /\ c \in Seq(Nat) /\ Len(c) = Len(b) - d
        /\ \A a \in 1..(Len(c) + 1) : SubSeq(c, a, Len(c)) = SubSeq(b, d + a, Len(b))
    BY ONLY <1>4, <2>1, b \in Seq(Nat), Dropped
  <2>3. PICK g : (\A n \in 0..Len(c) : g[n] = SortTurn(g, c, n)) /\ Sorted(c) = g[Len(c)]
    BY <2>2, SortedSolves
  <2>4. ASSUME NEW h, NEW n \in 0..Len(c)
        PROVE  SortTurn(h, c, n) = SortTurn(h, b, n)
    <3>1. PICK a : a = Len(c) - n + 1
      OBVIOUS
    <3>2. a \in 1..(Len(c) + 1) /\ d + a = Len(b) - n + 1
      BY <1>3, <1>4, <2>2, <3>1
    <3>3. SubSeq(c, Len(c) - n + 1, Len(c)) = SubSeq(b, Len(b) - n + 1, Len(b))
      BY <2>2, <3>1, <3>2
    <3> QED
      BY <3>3 DEF SortTurn
  <2> DEFINE S == {k \in Nat : \A n \in 0..k : n <= Len(c) => g[n] = f[n]}
  <2>5. ASSUME NEW n \in 0..Len(c), \A k \in 0..(n - 1) : g[k] = f[k]
        PROVE  g[n] = f[n]
    <3>1. n \in 0..Len(b)
      BY <1>3, <1>4, <2>2
    <3>2. SortTurn(g, b, n) = SortTurn(f, b, n)
      BY <2>5, <3>1, SortTurnOf
    <3> QED
      BY <1>1, <2>3, <2>4, <3>1, <3>2
  <2>6. 0 \in S
    <3>1. 0 \in 0..Len(c)
      BY <2>2
    <3>2. g[0] = f[0]
      BY <2>5, <3>1
    <3> QED
      BY <3>2
  <2>7. ASSUME NEW k \in Nat, k \in S
        PROVE  k + 1 \in S
    <3> SUFFICES ASSUME k + 1 <= Len(c)
                 PROVE  g[k + 1] = f[k + 1]
      <4>1. \A n \in 0..(k + 1) : n \in 0..k \/ n = k + 1
        OBVIOUS
      <4> QED
        BY <2>7, <4>1
    <3>1. k + 1 \in 0..Len(c)
      BY <2>2
    <3>2. \A n \in 0..(k + 1 - 1) : g[n] = f[n]
      <4>1. \A n \in 0..(k + 1 - 1) : n \in 0..k /\ n <= Len(c)
        BY <2>2
      <4> QED
        BY <2>7, <4>1
    <3> QED
      BY <2>5, <3>1, <3>2
  <2>8. g[Len(c)] = f[Len(c)]
    <3>1. Nat \subseteq S
      <4> HIDE DEF S
      <4> QED
        BY <2>6, <2>7, SetInduction
    <3>2. Len(c) \in Nat /\ Len(c) \in 0..Len(c) /\ Len(c) <= Len(c)
      BY <2>2
    <3>3. Len(c) \in S
      <4> HIDE DEF S
      <4> QED
        BY <3>1, <3>2
    <3>4. \A n \in 0..Len(c) : n <= Len(c) => g[n] = f[n]
      BY <3>3
    <3> QED
      BY <3>2, <3>4
  <2> QED
    BY <2>1, <2>2, <2>3, <2>8
<1> QED
  BY <1>2, <1>4, <1>5, <1>6, <1>7

-----------------------------------------------------------------------------
(* A frame among the bytes.                                                 *)
EvenEscapes(m) == Escapes(FrameOf(m)) % 2 = 0

(* F is E between two markers, and no other marker.                         *)
Framing(F, E) ==
  /\ E \in Seq(Nat) /\ F \in Seq(Nat) /\ Len(E) \in Nat /\ Len(E) >= 18
  /\ Len(F) = Len(E) + 2 /\ F[1] = MARK /\ F[Len(E) + 2] = MARK
  /\ \A k \in 1..Len(E) : F[k + 1] = E[k] /\ E[k] # MARK
  /\ F = <<MARK>> \o E \o <<MARK>>

LEMMA FrameShape ==
  ASSUME NEW m, Good(m), NEW F, F = FrameOf(m), NEW E, E = Inner(m)
  PROVE  Framing(F, E)
<1>1. PICK Z : Z = Summed(m)
  OBVIOUS
<1>2. Z \in Seq(Nat) /\ Len(Z) >= 18
  <2>1. /\ Summed(m) \in Seq(Nat) /\ Len(Summed(m)) = HeaderLen(m) + Len(Body(m)) + 1
        /\ HeaderLen(m) \in {17, 21} /\ Len(Body(m)) \in Nat
    BY ONLY Good(m), SummedFacts
  <2> QED
    BY ONLY <1>1, <2>1, SMT
<1>3. E = JTT808UtilsEscape(Z)
  BY <1>1 DEF Inner
<1>4. E \in Seq(Nat) /\ Len(E) \in Nat /\ \A k \in 1..Len(E) : E[k] # MARK
  BY <1>2, <1>3, EscapeType, NoMarkEscaped
<1>5. Len(E) >= 18
  <2>1. PICK pl : Places(pl, Stuffing(Z), E)
    BY <1>2, <1>3, EscapePlaces
  <2>2. PICK n : n = Len(Z)
    OBVIOUS
  <2>3. 0 \in Nat /\ n \in Nat /\ 0 + n <= Len(Z) /\ n >= 18
    BY ONLY <1>2, <2>2
  <2>4. pl[0] \in Nat /\ pl[0 + n] \in Nat /\ pl[0] + n <= pl[0 + n]
    BY ONLY <1>2, <1>3, <2>1, <2>3, PlacesGrow
  <2>5. pl[0] = 0 /\ pl[n] = Len(E)
    <3>1. Len(Stuffing(Z)) = n
      BY <1>2, <2>2, StuffingType
    <3> QED
      BY <2>1, <3>1 DEF Places
  <2> QED
    BY ONLY <1>4, <2>3, <2>4, <2>5
<1>6. PICK u : u = <<MARK>>
  OBVIOUS
<1>7. u \in Seq(Nat) /\ Len(u) = 1 /\ u[1] = MARK
  BY ONLY <1>6 DEF MARK
<1>8. PICK v : v = u \o E
  OBVIOUS
<1>9. /\ v \in Seq(Nat) /\ Len(v) = 1 + Len(E) /\ v[1] = MARK
      /\ \A k \in 1..Len(E) : v[k + 1] = E[k]
  <2>1. u \in Seq(Nat) /\ E \in Seq(Nat)
    BY ONLY <1>4, <1>7
  <2>2. /\ v \in Seq(Nat) /\ Len(v) = Len(u) + Len(E)
        /\ \A k \in 1..Len(u) : v[k] = u[k]
        /\ \A k \in 1..Len(E) : v[Len(u) + k] = E[k]
    BY ONLY <1>8, <2>1, AppendedBytes
  <2>3. \A k \in 1..Len(E) : Len(u) + k = k + 1
    BY ONLY <1>7, <1>4
  <2> QED
    BY ONLY <1>7, <2>2, <2>3
<1>10. F = v \o u
  BY <1>6, <1>8, FrameIs
<1>11. /\ F \in Seq(Nat) /\ Len(F) = Len(E) + 2 /\ F[Len(E) + 2] = MARK
       /\ \A k \in 1..(Len(E) + 1) : F[k] = v[k]
  <2>1. u \in Seq(Nat) /\ v \in Seq(Nat)
    BY ONLY <1>7, <1>9
  <2>2. /\ F \in Seq(Nat) /\ Len(F) = Len(v) + Len(u)
        /\ \A k \in 1..Len(v) : F[k] = v[k]
        /\ \A k \in 1..Len(u) : F[Len(v) + k] = u[k]
    BY ONLY <1>10, <2>1, AppendedBytes
  <2>3. F[Len(v) + 1] = MARK
    BY ONLY <1>7, <2>2
  <2>4. Len(v) + 1 = Len(E) + 2 /\ Len(v) = Len(E) + 1
    BY ONLY <1>4, <1>9
  <2> QED
    BY ONLY <1>4, <1>7, <2>2, <2>3, <2>4
<1>12. F[1] = MARK /\ \A k \in 1..Len(E) : F[k + 1] = E[k]
  <2>1. 1 \in 1..(Len(E) + 1) /\ \A k \in 1..Len(E) : k + 1 \in 1..(Len(E) + 1)
    BY ONLY <1>4
  <2> QED
    BY ONLY <1>9, <1>11, <2>1
<1>13. F = <<MARK>> \o E \o <<MARK>>
  BY FrameIs
<1> QED
  BY ONLY <1>4, <1>5, <1>11, <1>12, <1>13 DEF Framing

LEMMA EscapesOf ==
  ASSUME NEW m, Good(m)
  PROVE  EvenEscapes(m) <=> Tally(Inner(m), {ESC}) % 2 = 0
<1>1. PICK E, F : E = Inner(m) /\ F = FrameOf(m)
  OBVIOUS
<1>2. E \in Seq(Nat) /\ F \in Seq(Nat) /\ F = <<MARK>> \o E \o <<MARK>>
  <2>1. Framing(F, E)
    BY ONLY Good(m), <1>1, FrameShape
  <2> QED
    BY ONLY <2>1 DEF Framing
<1>3. PICK u : u = <<MARK>>
  OBVIOUS
<1>4. MARK \in Nat /\ MARK \notin {ESC}
  BY DEF MARK, ESC
<1>5. u \in Seq(Nat) /\ Tally(u, {ESC}) = 0
  <2>1. Tally(u, {ESC}) = Counts(MARK, {ESC})
    BY ONLY <1>3, <1>4, TallyOne
  <2> QED
    BY ONLY <1>3, <1>4, <2>1 DEF Counts
<1>6. PICK v : v = u \o E
  OBVIOUS
<1>7. v \in Seq(Nat)
  BY ONLY <1>2, <1>5, <1>6
<1>8. Tally(u \o E, {ESC}) = Tally(u, {ESC}) + Tally(E, {ESC})
  BY ONLY <1>2, <1>5, TallyConcat
<1>9. Tally(v \o u, {ESC}) = Tally(v, {ESC}) + Tally(u, {ESC})
  BY ONLY <1>5, <1>7, TallyConcat
<1>10. Tally(E, {ESC}) \in Nat
  BY ONLY <1>2, TallyType
<1>11. Tally(F, {ESC}) = Tally(E, {ESC})
  BY ONLY <1>2, <1>3, <1>5, <1>6, <1>8, <1>9, <1>10
<1>12. Escapes(F) = Tally(F, {ESC})
  <2>1. DOMAIN F = 1..Len(F)
    BY ONLY <1>2
  <2>2. {i \in DOMAIN F : F[i] = ESC} = {i \in 1..Len(F) : F[i] \in {ESC}}
    BY ONLY <2>1
  <2> QED
    BY ONLY <2>2 DEF Escapes, Tally
<1> QED
  BY <1>1, <1>11, <1>12 DEF EvenEscapes

(* The checksum of a frame, as the parser computes it, is nothing if the    *)
(* escapes are even in number; with the marker before it it never is.       *)
LEMMA FrameSum ==
  ASSUME NEW m, Good(m)
  PROVE  /\ JTT808UtilsCalculateChecksum(Inner(m)) = 0 <=> EvenEscapes(m)
         /\ JTT808UtilsCalculateChecksum(<<MARK>> \o Inner(m)) # 0
<1>1. PICK Z : Z = Summed(m)
  OBVIOUS
<1>2. Z \in Seq(Nat) /\ \A w \in Weights : Odd(Z, w) = 0
  <2>1. Summed(m) \in Seq(Nat) /\ \A w \in Weights : Odd(Summed(m), w) = 0
    BY ONLY Good(m), SummedFacts
  <2> QED
    BY ONLY <1>1, <2>1
<1>3. PICK E : E = JTT808UtilsEscape(Z)
  OBVIOUS
<1>4. E \in Seq(Nat) /\ Inner(m) = E
  BY <1>1, <1>2, <1>3, EscapeType DEF Inner
<1>5. ASSUME NEW w \in Weights
      PROVE  Odd(E, w) = Tally(E, Flips(w)) % 2
  <2>1. (Tally(E, Bit(w)) + Tally(Z, Bit(w)) + Tally(E, Flips(w))) % 2 = 0
    BY ONLY <1>2, <1>3, w \in Weights, EscapedParity
  <2>2. PICK a, b, c : a = Tally(E, Bit(w)) /\ b = Tally(Z, Bit(w)) /\ c = Tally(E, Flips(w))
    OBVIOUS
  <2>3. a \in Nat /\ b \in Nat /\ c \in Nat
    BY ONLY <1>2, <1>4, <2>2, TallyType
  <2>4. (a + b + c) % 2 = 0
    BY ONLY <2>1, <2>2
  <2>5. b % 2 = 0
    BY <1>2, <2>2 DEF Odd
  <2>6. a % 2 = c % 2
    BY ONLY <2>3, <2>4, <2>5
  <2> QED
    BY ONLY <2>2, <2>6 DEF Odd
<1>6. \A w \in Weights : w # 1 => Odd(E, w) = 0
  <2> SUFFICES ASSUME NEW w \in Weights, w # 1
               PROVE  Odd(E, w) = 0
    OBVIOUS
  <2>1. {i \in 1..Len(E) : E[i] \in {}} = {}
    OBVIOUS
  <2>2. Tally(E, {}) = 0
    BY ONLY <2>1, FS_EmptySet DEF Tally
  <2>3. Flips(w) = {}
    BY DEF Flips
  <2> QED
    BY <1>5, <2>2, <2>3
<1>7. 1 \in Weights /\ 2 \in Weights
  BY DEF Weights
<1>8. Odd(E, 1) = Tally(E, {ESC}) % 2
  BY <1>5, <1>7 DEF Flips
<1>9. EvenEscapes(m) <=> Odd(E, 1) = 0
  BY <1>4, <1>8, EscapesOf
<1>10. JTT808UtilsCalculateChecksum(E) = 0 <=> \A w \in Weights : Odd(E, w) = 0
  <2>1. PICK x : x = JTT808UtilsCalculateChecksum(E)
    OBVIOUS
  <2>2. x = 0 <=> \A w \in Weights : Odd(E, w) = 0
    BY ONLY <1>4, <2>1, ChecksumBits
  <2> QED
    BY <2>1, <2>2
<1>11. JTT808UtilsCalculateChecksum(E) = 0 <=> EvenEscapes(m)
  BY <1>6, <1>7, <1>9, <1>10
<1>12. JTT808UtilsCalculateChecksum(<<MARK>> \o E) # 0
  <2>1. PICK u : u = <<MARK>>
    OBVIOUS
  <2>2. MARK \in Nat /\ MARK \in Bit(2)
    BY DEF MARK, Bit
  <2>3. u \in Seq(Nat)
    BY ONLY <2>1, <2>2
  <2>4. PICK v : v = u \o E
    OBVIOUS
  <2>5. v \in Seq(Nat)
    BY ONLY <1>4, <2>3, <2>4
  <2>6. Tally(u, Bit(2)) = 1
    BY ONLY <2>1, <2>2, TallyOne DEF Counts
  <2>7. Tally(u \o E, Bit(2)) = Tally(u, Bit(2)) + Tally(E, Bit(2))
    BY ONLY <1>4, <2>3, TallyConcat
  <2>8. Tally(E, Bit(2)) \in Nat /\ Tally(E, Bit(2)) % 2 = 0
    <3>1. Odd(E, 2) = 0
      BY <1>6, <1>7
    <3>2. Tally(E, Bit(2)) \in Nat
      BY ONLY <1>4, TallyType
    <3> QED
      BY ONLY <3>1, <3>2 DEF Odd
  <2>9. Odd(v, 2) = 1
    <3>1. PICK n \in Nat : n = Tally(E, Bit(2))
      BY ONLY <2>8
    <3>2. (1 + n) % 2 = 1
      BY ONLY <2>8, <3>1, n \in Nat
    <3> QED
      BY ONLY <2>4, <2>6, <2>7, <3>1, <3>2 DEF Odd
  <2>10. PICK x : x = JTT808UtilsCalculateChecksum(v)
    OBVIOUS
  <2>11. x = 0 <=> \A w \in Weights : Odd(v, w) = 0
    BY ONLY <2>5, <2>10, ChecksumBits
  <2>12. x # 0
    BY ONLY <1>7, <2>9, <2>11, SMT
  <2> QED
    BY <2>1, <2>4, <2>10, <2>12
<1> QED
  BY ONLY <1>4, <1>11, <1>12

FrameAt(b, o, m) ==
  /\ o + Len(FrameOf(m)) <= Len(b)
  /\ \A k \in 1..Len(FrameOf(m)) : b[o + k] = FrameOf(m)[k]

(* The frame from o + 1 to e.                                               *)
Framed(b, o, m, e) ==
  /\ e \in Nat /\ e >= o + 20 /\ e <= Len(b) /\ e = o + Len(Inner(m)) + 2
  /\ b[o + 1] = MARK /\ b[e] = MARK
  /\ \A i \in (o + 2)..(e - 1) : b[i] # MARK
  /\ \A k \in 1..Len(Inner(m)) : b[o + 1 + k] = Inner(m)[k]

LEMMA FrameMarks ==
  ASSUME NEW b \in Seq(Nat), NEW o \in Nat, NEW m, Good(m), FrameAt(b, o, m),
         NEW e, e = o + Len(FrameOf(m))
  PROVE  Framed(b, o, m, e)
<1>1. PICK E, F : E = Inner(m) /\ F = FrameOf(m)
  OBVIOUS
<1>2. /\ Len(E) \in Nat /\ Len(E) >= 18
      /\ Len(F) = Len(E) + 2 /\ F[1] = MARK /\ F[Len(E) + 2] = MARK
      /\ \A k \in 1..Len(E) : F[k + 1] = E[k] /\ E[k] # MARK
  <2>1. Framing(F, E)
    BY ONLY Good(m), <1>1, FrameShape
  <2> QED
    BY ONLY <2>1 DEF Framing
<1>3. o + Len(F) <= Len(b) /\ \A k \in 1..Len(F) : b[o + k] = F[k]
  BY <1>1 DEF FrameAt
<1>4. PICK n \in Nat : n = Len(E)
  BY <1>2
<1>5. e = o + n + 2 /\ n >= 18 /\ o + n + 2 <= Len(b)
  <2>1. PICK l : l = Len(F)
    OBVIOUS
  <2>2. l = n + 2 /\ n >= 18 /\ o + l <= Len(b) /\ e = o + l
    BY <1>1, <1>2, <1>3, <1>4, <2>1
  <2>3. Len(b) \in Nat
    OBVIOUS
  <2> QED
    BY ONLY <2>2, <2>3, o \in Nat, n \in Nat
<1>6. b[o + 1] = MARK /\ b[e] = MARK
  <2>1. Len(F) = n + 2 /\ F[1] = MARK /\ F[n + 2] = MARK
    BY ONLY <1>2, <1>4
  <2>2. 1 \in 1..Len(F) /\ n + 2 \in 1..Len(F) /\ e = o + (n + 2)
    BY ONLY <1>5, <2>1, o \in Nat, n \in Nat
  <2>3. b[o + 1] = F[1] /\ b[o + (n + 2)] = F[n + 2]
    BY ONLY <1>3, <2>2
  <2> QED
    BY ONLY <2>1, <2>2, <2>3
<1>7. \A k \in 1..n : b[o + 1 + k] = E[k] /\ E[k] # MARK
  <2> SUFFICES ASSUME NEW k \in 1..n
               PROVE  b[o + 1 + k] = E[k] /\ E[k] # MARK
    OBVIOUS
  <2>1. k + 1 \in 1..Len(F) /\ o + (k + 1) = o + 1 + k /\ k \in 1..Len(E)
    BY ONLY <1>2, <1>4, o \in Nat, n \in Nat, k \in 1..n
  <2> QED
    BY ONLY <1>2, <1>3, <2>1
<1>8. \A i \in (o + 2)..(e - 1) : b[i] # MARK
  <2> SUFFICES ASSUME NEW i \in (o + 2)..(e - 1)
               PROVE  b[i] # MARK
    OBVIOUS
  <2>1. PICK k : k = i - (o + 1)
    OBVIOUS
  <2>2. k \in 1..n /\ o + 1 + k = i
    BY ONLY <1>5, <2>1, i \in (o + 2)..(e - 1), o \in Nat, n \in Nat
  <2> QED
    BY ONLY <1>7, <2>2
<1>9. e \in Nat /\ e >= o + 20 /\ e <= Len(b)
  BY ONLY <1>5, n \in Nat, o \in Nat
<1> QED
  BY ONLY <1>1, <1>4, <1>5, <1>6, <1>7, <1>8, <1>9 DEF Framed

LEMMA FrameEnds ==
  ASSUME NEW b \in Seq(Nat), NEW o \in Nat, NEW m, Good(m), FrameAt(b, o, m),
         NEW e, e = o + Len(FrameOf(m))
  PROVE  /\ skipTillValidMsg(b, o + 1) = o + 1
         /\ Ends(b, o + 1) = e /\ Ends(b, o) = e
         /\ \A p \in (o + 2)..e : skipTillValidMsg(b, p) = e
<1>1. /\ e \in Nat /\ e >= o + 20 /\ e <= Len(b)
      /\ b[o + 1] = MARK /\ b[e] = MARK
      /\ \A i \in (o + 2)..(e - 1) : b[i] # MARK
  <2>1. Framed(b, o, m, e)
    BY ONLY b \in Seq(Nat), o \in Nat, Good(m), FrameAt(b, o, m), e = o + Len(FrameOf(m)), FrameMarks
  <2> QED
    BY ONLY <2>1 DEF Framed
<1>2. Len(b) \in Nat
  OBVIOUS
<1>3. skipTillValidMsg(b, o + 1) = o + 1
  <2>1. PICK p : p = o + 1
    OBVIOUS
  <2>2. p \in Nat /\ p \in p..Len(b) /\ b[p] = MARK /\ \A i \in p..Len(b) : i < p => b[i] # MARK
    BY ONLY <1>1, <1>2, <2>1, o \in Nat
  <2> QED
    BY ONLY <1>2, <2>1, <2>2, SkipIs
<1>4. ASSUME NEW p \in (o + 2)..e
      PROVE  skipTillValidMsg(b, p) = e
  <2>1. p \in Nat /\ e \in p..Len(b)
    BY ONLY <1>1, <1>2, p \in (o + 2)..e, o \in Nat
  <2>2. \A i \in p..Len(b) : i < e => b[i] # MARK
    <3> SUFFICES ASSUME NEW i \in p..Len(b), i < e
                 PROVE  b[i] # MARK
      OBVIOUS
    <3>1. i \in (o + 2)..(e - 1)
      BY ONLY <1>1, <1>2, i \in p..Len(b), i < e, p \in (o + 2)..e, o \in Nat
    <3> QED
      BY <1>1, <3>1
  <2> QED
    BY <1>1, <1>2, <2>1, <2>2, SkipIs
<1>5. o + 2 \in (o + 2)..e /\ o + 1 + 2 \in (o + 2)..e
  BY ONLY <1>1, o \in Nat
<1> QED
  BY <1>3, <1>4, <1>5 DEF Ends

LEMMA AtOpening ==
  ASSUME NEW b \in Seq(Nat), NEW o \in Nat, NEW m, Good(m), FrameAt(b, o, m),
         NEW e, e = o + Len(FrameOf(m))
  PROVE  /\ EvenEscapes(m) => /\ Halts(b, o + 1)
                              /\ Yield(b, o + 1) = [drop |-> e, msg |-> <<Got(m)>>]
         /\ ~EvenEscapes(m) => ~Halts(b, o + 1)
<1>1. /\ e \in Nat /\ e >= o + 20 /\ e <= Len(b) /\ e = o + Len(Inner(m)) + 2
      /\ \A k \in 1..Len(Inner(m)) : b[o + 1 + k] = Inner(m)[k]
  <2>1. Framed(b, o, m, e)
    BY ONLY b \in Seq(Nat), o \in Nat, Good(m), FrameAt(b, o, m), e = o + Len(FrameOf(m)), FrameMarks
  <2> QED
    BY ONLY <2>1 DEF Framed
<1>2. PICK s : s = o + 1
  OBVIOUS
<1>3. PICK E : E = Inner(m)
  OBVIOUS
<1>4. E \in Seq(Nat) /\ Len(E) \in Nat
  <2>1. PICK F : F = FrameOf(m)
    OBVIOUS
  <2>2. Framing(F, E)
    BY ONLY Good(m), <1>3, <2>1, FrameShape
  <2> QED
    BY ONLY <2>2 DEF Framing
<1>5. s \in Nat /\ s # 0 /\ ~(s + 15 > Len(b)) /\ e = s + Len(E) + 1 /\ e # 0
  <2>1. Len(b) \in Nat
    OBVIOUS
  <2> QED
    BY ONLY <1>1, <1>2, <1>3, <1>4, <2>1, o \in Nat
<1>6. Ends(b, s) = e
  BY <1>2, FrameEnds
<1>7. SubSeq(b, s + 1, e - 1) = E
  <2>1. PICK n : n = Len(E)
    OBVIOUS
  <2>2. n \in Nat /\ s + n <= Len(b) /\ e - 1 = s + n
    <3>1. Len(b) \in Nat
      OBVIOUS
    <3>2. n \in Nat /\ e = s + n + 1 /\ s \in Nat /\ e \in Nat /\ e <= Len(b)
      BY ONLY <1>1, <1>4, <1>5, <2>1
    <3> QED
      BY ONLY <3>1, <3>2
  <2>3. PICK v : v = SubSeq(b, s + 1, s + n)
    OBVIOUS
  <2>4. v \in Seq(Nat) /\ Len(v) = n /\ \A i \in 1..n : v[i] = b[s + i]
    <3>1. s \in Nat
      BY <1>5
    <3>2. /\ SubSeq(b, s + 1, s + n) \in Seq(Nat) /\ Len(SubSeq(b, s + 1, s + n)) = n
          /\ \A i \in 1..n : SubSeq(b, s + 1, s + n)[i] = b[s + i]
      BY ONLY <2>2, <3>1, b \in Seq(Nat), Slice
    <3> QED
      BY ONLY <2>3, <3>2
  <2>5. \A i \in 1..n : v[i] = E[i]
    BY ONLY <1>1, <1>2, <1>3, <2>1, <2>4
  <2>6. v = E
    BY ONLY <1>4, <2>1, <2>4, <2>5, SeqEqual
  <2> QED
    BY <2>2, <2>3, <2>6
<1>8. Sum(b, s) = 0 <=> EvenEscapes(m)
  <2>1. Sum(b, s) = JTT808UtilsCalculateChecksum(E)
    BY ONLY <1>6, <1>7 DEF Sum
  <2>2. JTT808UtilsCalculateChecksum(E) = 0 <=> EvenEscapes(m)
    BY <1>3, FrameSum
  <2> QED
    BY ONLY <2>1, <2>2
<1>9. CASE EvenEscapes(m)
  <2>1. extractJTT808Msg(b, s, s + Len(E) + 1) = <<Got(m)>>
    <3>1. s \in Nat /\ \A k \in 1..Len(Inner(m)) : b[s + k] = Inner(m)[k]
      BY <1>1, <1>2, <1>5
    <3> QED
      BY <1>3, <3>1, ExtractFrame
  <2>2. Found(b, s) = <<Got(m)>>
    BY ONLY <1>5, <1>6, <1>8, <1>9, <2>1 DEF Found
  <2>3. <<Got(m)>> # <<>>
    OBVIOUS
  <2>4. Halts(b, s)
    BY ONLY <2>2, <2>3 DEF Halts
  <2>5. Yield(b, s) = [drop |-> e, msg |-> <<Got(m)>>]
    BY ONLY <1>5, <1>6, <2>2 DEF Yield
  <2> QED
    BY ONLY <1>2, <1>9, <2>4, <2>5
<1>10. CASE ~EvenEscapes(m)
  <2>1. Found(b, s) = <<>>
    BY ONLY <1>8, <1>10 DEF Found
  <2>2. ~Halts(b, s)
    BY ONLY <1>5, <1>6, <2>1 DEF Halts
  <2> QED
    BY ONLY <1>2, <1>10, <2>2
<1> QED
  BY <1>9, <1>10

(* From the marker that closes the frame before: never a message.           *)
LEMMA AtGap ==
  ASSUME NEW b \in Seq(Nat), NEW o \in Nat, o # 0, NEW m, Good(m), FrameAt(b, o, m)
  PROVE  ~Halts(b, o)
<1>1. PICK e : e = o + Len(FrameOf(m))
  OBVIOUS
<1>2. /\ e \in Nat /\ e >= o + 20 /\ e <= Len(b) /\ e = o + Len(Inner(m)) + 2
      /\ b[o + 1] = MARK
      /\ \A k \in 1..Len(Inner(m)) : b[o + 1 + k] = Inner(m)[k]
  <2>1. Framed(b, o, m, e)
    BY ONLY b \in Seq(Nat), o \in Nat, Good(m), FrameAt(b, o, m), <1>1, FrameMarks
  <2> QED
    BY ONLY <2>1 DEF Framed
<1>3. PICK E : E = Inner(m)
  OBVIOUS
<1>4. E \in Seq(Nat) /\ Len(E) \in Nat
  <2>1. PICK F : F = FrameOf(m)
    OBVIOUS
  <2>2. Framing(F, E)
    BY ONLY Good(m), <1>3, <2>1, FrameShape
  <2> QED
    BY ONLY <2>2 DEF Framing
<1>5. Ends(b, o) = e
  BY <1>1, FrameEnds
<1>6. PICK u : u = <<MARK>>
  OBVIOUS
<1>7. u \in Seq(Nat) /\ Len(u) = 1 /\ u[1] = MARK
  BY ONLY <1>6 DEF MARK
<1>8. PICK v : v = u \o E
  OBVIOUS
<1>9. /\ v \in Seq(Nat) /\ Len(v) = Len(u) + Len(E)
      /\ \A k \in 1..Len(u) : v[k] = u[k]
      /\ \A k \in 1..Len(E) : v[Len(u) + k] = E[k]
  <2>1. u \in Seq(Nat) /\ E \in Seq(Nat)
    BY ONLY <1>4, <1>7
  <2> QED
    BY ONLY <1>8, <2>1, AppendedBytes
<1>10. PICK n : n = Len(E)
  OBVIOUS
<1>11. /\ n \in Nat /\ Len(v) = n + 1 /\ v[1] = MARK /\ \A k \in 1..n : v[1 + k] = E[k]
  BY ONLY <1>4, <1>7, <1>9, <1>10
<1>12. SubSeq(b, o + 1, e - 1) = v
  <2>1. n + 1 \in Nat /\ o + (n + 1) <= Len(b) /\ e - 1 = o + (n + 1)
    <3>1. Len(b) \in Nat
      OBVIOUS
    <3> QED
      BY ONLY <1>2, <1>3, <1>10, <1>11, <3>1, o \in Nat
  <2>2. PICK c : c = n + 1
    OBVIOUS
  <2>3. c \in Nat /\ o + c <= Len(b) /\ e - 1 = o + c
    BY ONLY <2>1, <2>2
  <2>4. PICK x : x = SubSeq(b, o + 1, o + c)
    OBVIOUS
  <2>5. x \in Seq(Nat) /\ Len(x) = c /\ \A i \in 1..c : x[i] = b[o + i]
    <3>1. /\ SubSeq(b, o + 1, o + c) \in Seq(Nat) /\ Len(SubSeq(b, o + 1, o + c)) = c
          /\ \A i \in 1..c : SubSeq(b, o + 1, o + c)[i] = b[o + i]
      BY ONLY <2>3, o \in Nat, b \in Seq(Nat), Slice
    <3> QED
      BY ONLY <2>4, <3>1
  <2>6. \A i \in 1..c : x[i] = v[i]
    <3> SUFFICES ASSUME NEW i \in 1..c
                 PROVE  x[i] = v[i]
      OBVIOUS
    <3>1. CASE i = 1
      BY ONLY <1>2, <1>11, <2>5, <3>1, i \in 1..c
    <3>2. CASE i # 1
      <4>1. PICK k : k = i - 1
        OBVIOUS
      <4>2. k \in 1..n /\ 1 + k = i /\ o + 1 + k = o + i
        BY ONLY <1>11, <2>2, <3>2, <4>1, i \in 1..c, o \in Nat
      <4>3. b[o + 1 + k] = E[k]
        BY ONLY <1>2, <1>3, <1>10, <4>2
      <4> QED
        BY ONLY <1>11, <2>5, <4>2, <4>3, i \in 1..c
    <3> QED
      BY <3>1, <3>2
  <2>7. x = v
    BY ONLY <1>9, <1>11, <2>2, <2>5, <2>6, SeqEqual
  <2> QED
    BY ONLY <2>3, <2>4, <2>7
<1>13. Sum(b, o) # 0
  <2>1. Sum(b, o) = JTT808UtilsCalculateChecksum(v)
    BY ONLY <1>5, <1>12 DEF Sum
  <2>2. v = <<MARK>> \o Inner(m)
    BY ONLY <1>3, <1>6, <1>8
  <2>3. JTT808UtilsCalculateChecksum(<<MARK>> \o Inner(m)) # 0
    BY FrameSum
  <2> QED
    BY ONLY <2>1, <2>2, <2>3
<1>14. Found(b, o) = <<>>
  BY ONLY <1>13 DEF Found
<1>15. ~(o + 15 > Len(b)) /\ e # 0
  <2>1. Len(b) \in Nat
    OBVIOUS
  <2> QED
    BY ONLY <1>2, <2>1, o \in Nat
<1> QED
  BY ONLY <1>5, <1>14, <1>15, o # 0 DEF Halts

-----------------------------------------------------------------------------
(* From one frame to the next.                                              *)
Steps(f, b, o, m, e) ==
  /\ EvenEscapes(m) => f[o + 1] = [drop |-> e, msg |-> <<Got(m)>>]
  /\ ~EvenEscapes(m) => f[o + 1] = f[e]
  /\ o # 0 /\ b[o] = MARK => f[o] = f[o + 1]

LEMMA FrameStep ==
  ASSUME NEW b \in Seq(Nat), NEW f, GoesOn(f, b), NEW o \in Nat, NEW m, Good(m),
         FrameAt(b, o, m), NEW e, e = o + Len(FrameOf(m))
  PROVE  Steps(f, b, o, m, e)
<1>1. PICK s : s = o + 1
  OBVIOUS
<1>2. e \in Nat /\ e >= o + 20 /\ e <= Len(b) /\ b[e] = MARK
  <2>1. Framed(b, o, m, e)
    BY ONLY b \in Seq(Nat), o \in Nat, Good(m), FrameAt(b, o, m), e = o + Len(FrameOf(m)), FrameMarks
  <2> QED
    BY ONLY <2>1 DEF Framed
<1>3. /\ skipTillValidMsg(b, o + 1) = o + 1
      /\ Ends(b, o + 1) = e /\ Ends(b, o) = e
      /\ \A p \in (o + 2)..e : skipTillValidMsg(b, p) = e
  BY ONLY b \in Seq(Nat), o \in Nat, Good(m), FrameAt(b, o, m), e = o + Len(FrameOf(m)), FrameEnds
<1>4. /\ EvenEscapes(m) => /\ Halts(b, o + 1)
                           /\ Yield(b, o + 1) = [drop |-> e, msg |-> <<Got(m)>>]
      /\ ~EvenEscapes(m) => ~Halts(b, o + 1)
  BY ONLY b \in Seq(Nat), o \in Nat, Good(m), FrameAt(b, o, m), e = o + Len(FrameOf(m)), AtOpening
<1>5. Len(b) \in Nat
  OBVIOUS
<1>6. ASSUME NEW p \in 1..(Len(b) + 2), NEW x, x = skipTillValidMsg(b, p)
      PROVE  f[p] = IF Halts(b, x) THEN Yield(b, x) ELSE f[x + 1]
  BY ONLY GoesOn(f, b), <1>6 DEF GoesOn
<1>7. s \in 1..(Len(b) + 2) /\ e \in 1..(Len(b) + 2) /\ s + 1 \in 1..(Len(b) + 2)
      /\ s + 1 \in (o + 2)..e /\ e \in (o + 2)..e
  BY ONLY <1>1, <1>2, <1>5, o \in Nat
<1>8. EvenEscapes(m) => f[s] = [drop |-> e, msg |-> <<Got(m)>>]
  BY ONLY <1>1, <1>3, <1>4, <1>6, <1>7
<1>9. ~EvenEscapes(m) => f[s] = f[e]
  <2>1. ~EvenEscapes(m) => f[s] = f[s + 1]
    BY ONLY <1>1, <1>3, <1>4, <1>6, <1>7
  <2>2. f[s + 1] = IF Halts(b, e) THEN Yield(b, e) ELSE f[e + 1]
    BY ONLY <1>3, <1>6, <1>7
  <2>3. f[e] = IF Halts(b, e) THEN Yield(b, e) ELSE f[e + 1]
    BY ONLY <1>3, <1>6, <1>7
  <2> QED
    BY ONLY <2>1, <2>2, <2>3
<1>10. ASSUME o # 0, b[o] = MARK
       PROVE  f[o] = f[s]
  <2>1. o \in 1..(Len(b) + 2) /\ o \in o..Len(b) /\ \A i \in o..Len(b) : ~(i < o)
    BY ONLY <1>2, <1>5, <1>10, o \in Nat
  <2>2. skipTillValidMsg(b, o) = o
    BY ONLY <1>5, <1>10, <2>1, o \in Nat, SkipIs
  <2>3. ~Halts(b, o)
    BY ONLY b \in Seq(Nat), o \in Nat, <1>10, Good(m), FrameAt(b, o, m), AtGap
  <2> QED
    BY ONLY <1>1, <1>6, <2>1, <2>2, <2>3
<1> QED
  BY ONLY <1>1, <1>8, <1>9, <1>10 DEF Steps

(* Where no frame is complete any more.                                     *)
LEMMA LastStep ==
  ASSUME NEW b \in Seq(Nat), NEW f, GoesOn(f, b), NEW o \in 0..Len(b),
         o < Len(b) => b[o + 1] = MARK, \A x \in (o + 2)..Len(b) : b[x] # MARK
  PROVE  /\ f[o + 1] = [drop |-> o, msg |-> <<>>]
         /\ o # 0 /\ b[o] = MARK => f[o] = [drop |-> o - 1, msg |-> <<>>]
<1>1. Len(b) \in Nat /\ o \in Nat /\ o <= Len(b)
  OBVIOUS
<1>2. ASSUME NEW p \in 1..(Len(b) + 2), NEW x, x = skipTillValidMsg(b, p)
      PROVE  f[p] = IF Halts(b, x) THEN Yield(b, x) ELSE f[x + 1]
  BY ONLY GoesOn(f, b), <1>2 DEF GoesOn
<1>3. ASSUME NEW s \in Nat, s >= o
      PROVE  Ends(b, s) = 0
  <2>1. \A i \in (s + 2)..Len(b) : b[i] # MARK
    BY ONLY <1>1, <1>3, \A x \in (o + 2)..Len(b) : b[x] # MARK
  <2> QED
    BY ONLY <2>1, SkipNone DEF Ends
<1>4. ASSUME NEW s \in Nat, s >= o, s # 0
      PROVE  Halts(b, s) /\ Yield(b, s) = [drop |-> s - 1, msg |-> <<>>]
  <2>1. Ends(b, s) = 0
    BY ONLY <1>3, <1>4
  <2> QED
    BY ONLY <1>4, <2>1 DEF Halts, Yield
<1>5. f[o + 1] = [drop |-> o, msg |-> <<>>]
  <2>1. PICK s : s = o + 1
    OBVIOUS
  <2>2. s \in Nat /\ s >= o /\ s # 0 /\ s - 1 = o /\ s \in 1..(Len(b) + 2)
    BY ONLY <1>1, <2>1
  <2>3. CASE o = Len(b)
    <3>1. \A i \in s..Len(b) : b[i] # MARK
      BY ONLY <1>1, <2>1, <2>3
    <3>2. skipTillValidMsg(b, s) = 0
      BY ONLY <3>1, SkipNone
    <3>3. Halts(b, 0) /\ Yield(b, 0) = [drop |-> o, msg |-> <<>>]
      BY ONLY <2>3 DEF Halts, Yield
    <3> QED
      BY ONLY <1>2, <2>1, <2>2, <3>2, <3>3
  <2>4. CASE o < Len(b)
    <3>1. s \in s..Len(b) /\ \A i \in s..Len(b) : ~(i < s)
      BY ONLY <1>1, <2>1, <2>4
    <3>2. skipTillValidMsg(b, s) = s
      BY ONLY <1>1, <2>1, <2>2, <2>4, <3>1, o < Len(b) => b[o + 1] = MARK, SkipIs
    <3>3. Halts(b, s) /\ Yield(b, s) = [drop |-> s - 1, msg |-> <<>>]
      BY ONLY <1>4, <2>2
    <3> QED
      BY ONLY <1>2, <2>1, <2>2, <3>2, <3>3
  <2> QED
    BY ONLY <1>1, <2>3, <2>4
<1>6. ASSUME o # 0, b[o] = MARK
      PROVE  f[o] = [drop |-> o - 1, msg |-> <<>>]
  <2>1. o >= o /\ o \in 1..(Len(b) + 2) /\ o \in o..Len(b) /\ \A i \in o..Len(b) : ~(i < o)
    BY ONLY <1>1, <1>6
  <2>2. skipTillValidMsg(b, o) = o
    BY ONLY <1>1, <1>6, <2>1, SkipIs
  <2>3. Halts(b, o) /\ Yield(b, o) = [drop |-> o - 1, msg |-> <<>>]
    BY ONLY <1>1, <1>4, <1>6, <2>1
  <2> QED
    BY ONLY <1>2, <2>1, <2>2, <2>3
<1> QED
  BY ONLY <1>5, <1>6

LEMMA Spliced ==
  ASSUME NEW T, NEW s \in Seq(T), NEW i \in Nat, NEW j \in Nat, NEW k \in Nat,
         i <= j, j <= k, k <= Len(s)
  PROVE  SubSeq(s, i + 1, j) \o SubSeq(s, j + 1, k) = SubSeq(s, i + 1, k)
<1>1. PICK u : u = SubSeq(s, i + 1, j)
  OBVIOUS
<1>2. PICK v : v = SubSeq(s, j + 1, k)
  OBVIOUS
<1>3. PICK w : w = SubSeq(s, i + 1, k)
  OBVIOUS
<1>4. /\ i + 1 \in 1..(Len(s) + 1) /\ j \in (i + 1 - 1)..Len(s) /\ k \in (i + 1 - 1)..Len(s)
      /\ j + 1 \in 1..(Len(s) + 1) /\ k \in (j + 1 - 1)..Len(s)
  <2>1. Len(s) \in Nat
    OBVIOUS
  <2> QED
    BY ONLY <2>1, i \in Nat, j \in Nat, k \in Nat, i <= j, j <= k, k <= Len(s)
<1>5. u \in Seq(T) /\ Len(u) = j - i /\ \A x \in 1..(j - i) : u[x] = s[i + x]
  <2>1. /\ SubSeq(s, i + 1, j) \in Seq(T) /\ Len(SubSeq(s, i + 1, j)) = j - (i + 1) + 1
        /\ \A x \in 1..(j - (i + 1) + 1) : SubSeq(s, i + 1, j)[x] = s[i + 1 + x - 1]
    BY ONLY s \in Seq(T), <1>4, Cut
  <2>2. j - (i + 1) + 1 = j - i /\ \A x \in 1..(j - i) : i + 1 + x - 1 = i + x
    OBVIOUS
  <2> QED
    BY ONLY <1>1, <2>1, <2>2
<1>6. v \in Seq(T) /\ Len(v) = k - j /\ \A x \in 1..(k - j) : v[x] = s[j + x]
  <2>1. /\ SubSeq(s, j + 1, k) \in Seq(T) /\ Len(SubSeq(s, j + 1, k)) = k - (j + 1) + 1
        /\ \A x \in 1..(k - (j + 1) + 1) : SubSeq(s, j + 1, k)[x] = s[j + 1 + x - 1]
    BY ONLY s \in Seq(T), <1>4, Cut
  <2>2. k - (j + 1) + 1 = k - j /\ \A x \in 1..(k - j) : j + 1 + x - 1 = j + x
    OBVIOUS
  <2> QED
    BY ONLY <1>2, <2>1, <2>2
<1>7. w \in Seq(T) /\ Len(w) = k - i /\ \A x \in 1..(k - i) : w[x] = s[i + x]
  <2>1. /\ SubSeq(s, i + 1, k) \in Seq(T) /\ Len(SubSeq(s, i + 1, k)) = k - (i + 1) + 1
        /\ \A x \in 1..(k - (i + 1) + 1) : SubSeq(s, i + 1, k)[x] = s[i + 1 + x - 1]
    BY ONLY s \in Seq(T), <1>4, Cut
  <2>2. k - (i + 1) + 1 = k - i /\ \A x \in 1..(k - i) : i + 1 + x - 1 = i + x
    OBVIOUS
  <2> QED
    BY ONLY <1>3, <2>1, <2>2
<1>8. PICK z : z = u \o v
  OBVIOUS
<1>9. /\ z \in Seq(T) /\ Len(z) = Len(u) + Len(v)
      /\ \A x \in 1..Len(u) : z[x] = u[x]
      /\ \A x \in 1..Len(v) : z[Len(u) + x] = v[x]
  <2>1. /\ u \o v \in Seq(T) /\ Len(u \o v) = Len(u) + Len(v)
        /\ \A x \in 1..Len(u) : (u \o v)[x] = u[x]
        /\ \A x \in 1..Len(v) : (u \o v)[Len(u) + x] = v[x]
    <3>1. u \in Seq(T) /\ v \in Seq(T)
      BY ONLY <1>5, <1>6
    <3> QED
      BY ONLY <3>1, Appended
  <2> QED
    BY ONLY <1>8, <2>1
<1>10. Len(z) = Len(w)
  <2>1. Len(z) = (j - i) + (k - j) /\ Len(w) = k - i
    BY ONLY <1>5, <1>6, <1>7, <1>9
  <2> QED
    BY ONLY <2>1, i \in Nat, j \in Nat, k \in Nat
<1>11. ASSUME NEW x \in 1..Len(w)
       PROVE  z[x] = w[x]
  <2>1. w[x] = s[i + x]
    BY ONLY <1>7, x \in 1..Len(w)
  <2>2. CASE x <= j - i
    <3>1. x \in 1..(j - i)
      BY ONLY <1>7, <2>2, x \in 1..Len(w), i \in Nat, j \in Nat, k \in Nat
    <3> QED
      BY ONLY <1>5, <1>9, <2>1, <3>1
  <2>3. CASE x > j - i
    <3>1. PICK y : y = x - (j - i)
      OBVIOUS
    <3>2. y \in 1..(k - j) /\ (j - i) + y = x /\ j + y = i + x
      BY ONLY <1>7, <2>3, <3>1, x \in 1..Len(w), i \in Nat, j \in Nat, k \in Nat, i <= j
    <3>3. z[(j - i) + y] = v[y] /\ v[y] = s[j + y]
      BY ONLY <1>5, <1>6, <1>9, <3>2
    <3> QED
      BY ONLY <2>1, <3>2, <3>3
  <2>4. x <= j - i \/ x > j - i
    BY ONLY <1>7, x \in 1..Len(w), i \in Nat, j \in Nat, k \in Nat
  <2> QED
    BY ONLY <2>2, <2>3, <2>4
<1>12. z = w
  BY ONLY <1>7, <1>9, <1>10, <1>11, SeqEqual
<1> QED
  BY ONLY <1>1, <1>2, <1>3, <1>8, <1>12

LEMMA Climbs ==
  ASSUME NEW n \in Nat, NEW at, \A k \in 0..n : at[k] \in Nat,
         \A k \in 1..n : at[k - 1] <= at[k]
  PROVE  \A i \in 0..n : \A k \in i..n : at[i] <= at[k]
<1> SUFFICES ASSUME NEW i \in 0..n
             PROVE  \A k \in i..n : at[i] <= at[k]
  OBVIOUS
<1> DEFINE S == {d \in Nat : i + d <= n => at[i] <= at[i + d]}
<1>1. 0 \in S
  OBVIOUS
<1>2. ASSUME NEW d \in Nat, d \in S
      PROVE  d + 1 \in S
  <2> SUFFICES ASSUME i + (d + 1) <= n
               PROVE  at[i] <= at[i + (d + 1)]
    OBVIOUS
  <2>1. PICK k : k = i + (d + 1)
    OBVIOUS
  <2>2. k \in 1..n /\ k - 1 = i + d /\ i + d <= n /\ i + d \in 0..n /\ k \in 0..n
    BY ONLY <2>1, i + (d + 1) <= n, i \in 0..n, d \in Nat, n \in Nat
  <2>3. at[i] <= at[i + d] /\ at[i + d] <= at[k]
    BY <1>2, <2>2
  <2>4. PICK x, y, z : x = at[i] /\ y = at[i + d] /\ z = at[k]
    OBVIOUS
  <2>5. x \in Nat /\ y \in Nat /\ z \in Nat
    BY <2>2, <2>4
  <2> QED
    BY ONLY <2>1, <2>3, <2>4, <2>5
<1>3. Nat \subseteq S
  <2> HIDE DEF S
  <2> QED
    BY <1>1, <1>2, SetInduction
<1> SUFFICES ASSUME NEW k \in i..n
             PROVE  at[i] <= at[k]
  OBVIOUS
<1>4. PICK d \in Nat : i + d = k
  <2>1. k - i \in Nat /\ i + (k - i) = k
    OBVIOUS
  <2> QED
    BY <2>1
<1>5. i + d <= n
  BY <1>4
<1> QED
  BY <1>3, <1>4, <1>5

-----------------------------------------------------------------------------
(* W is the frames of the messages ms, which end at the places at; G is     *)
(* what the parser makes of the frames with an even number of escapes, the  *)
(* first i frames being g[i] of them.                                       *)
Gots == {Got(m) : m \in Message}

Laid(W, ms, at, G, g) ==
  /\ W \in Seq(Nat) /\ Len(ms) \in Nat /\ G \in Seq(Gots)
  /\ at[0] = 0 /\ at[Len(ms)] = Len(W) /\ g[0] = 0 /\ g[Len(ms)] = Len(G)
  /\ \A i \in 0..Len(ms) : at[i] \in Nat /\ g[i] \in Nat
  /\ \A i \in 1..Len(ms) :
       /\ Good(ms[i])
       /\ at[i] = at[i - 1] + Len(FrameOf(ms[i]))
       /\ \A k \in 1..Len(FrameOf(ms[i])) : W[at[i - 1] + k] = FrameOf(ms[i])[k]
       /\ EvenEscapes(ms[i]) => g[i] = g[i - 1] + 1 /\ G[g[i]] = Got(ms[i])
       /\ ~EvenEscapes(ms[i]) => g[i] = g[i - 1]

(* The frame of m is W from o + 1 to e.                                     *)
Sits(W, m, o, e) ==
  /\ o \in Nat /\ e \in Nat /\ e >= o + 20 /\ Good(m)
  /\ e = o + Len(FrameOf(m)) /\ Len(FrameOf(m)) \in Nat
  /\ \A k \in 1..Len(FrameOf(m)) : W[o + k] = FrameOf(m)[k]
  /\ W[o + 1] = MARK /\ W[e] = MARK
  /\ \A x \in (o + 2)..(e - 1) : W[x] # MARK

LEMMA LaidFrame ==
  ASSUME NEW W, NEW ms, NEW at, NEW G, NEW g, Laid(W, ms, at, G, g),
         NEW i \in 0..(Len(ms) - 1), NEW o, o = at[i], NEW e, e = at[i + 1],
         NEW m, m = ms[i + 1]
  PROVE  Sits(W, m, o, e)
<1>1. PICK j : j = i + 1
  OBVIOUS
<1>2. Len(ms) \in Nat
  BY DEF Laid
<1>3. j \in 1..Len(ms) /\ j - 1 = i /\ i \in 0..Len(ms) /\ j \in 0..Len(ms)
  BY ONLY <1>1, <1>2, i \in 0..(Len(ms) - 1)
<1>4. /\ o \in Nat /\ e \in Nat /\ Good(m) /\ e = o + Len(FrameOf(m))
      /\ \A k \in 1..Len(FrameOf(m)) : W[o + k] = FrameOf(m)[k]
  <2>1. /\ at[i] \in Nat /\ at[j] \in Nat
        /\ Good(ms[j]) /\ at[j] = at[j - 1] + Len(FrameOf(ms[j]))
        /\ \A k \in 1..Len(FrameOf(ms[j])) : W[at[j - 1] + k] = FrameOf(ms[j])[k]
    BY ONLY <1>3, Laid(W, ms, at, G, g) DEF Laid
  <2> QED
    BY ONLY <1>1, <1>3, <2>1, o = at[i], e = at[i + 1], m = ms[i + 1]
<1>5. PICK E, F : E = Inner(m) /\ F = FrameOf(m)
  OBVIOUS
<1>6. Framing(F, E)
  BY ONLY <1>4, <1>5, FrameShape
<1>7. PICK n : n = Len(E)
  OBVIOUS
<1>8. /\ n \in Nat /\ n >= 18 /\ Len(F) = n + 2 /\ F[1] = MARK /\ F[n + 2] = MARK
      /\ \A k \in 1..n : F[k + 1] # MARK
  BY ONLY <1>6, <1>7 DEF Framing
<1>9. e = o + (n + 2) /\ \A k \in 1..(n + 2) : W[o + k] = F[k]
  BY ONLY <1>4, <1>5, <1>8
<1>10. 1 \in 1..(n + 2) /\ n + 2 \in 1..(n + 2)
  BY ONLY <1>8
<1>11. W[o + 1] = MARK /\ W[e] = MARK
  BY ONLY <1>8, <1>9, <1>10
<1>12. ASSUME NEW x \in (o + 2)..(e - 1)
       PROVE  W[x] # MARK
  <2>1. PICK k : k = x - (o + 1)
    OBVIOUS
  <2>2. k \in 1..n /\ k + 1 \in 1..(n + 2) /\ o + (k + 1) = x
    <3>1. n \in Nat /\ e = o + (n + 2) /\ o \in Nat
      BY ONLY <1>4, <1>8, <1>9
    <3> QED
      BY ONLY <2>1, <3>1, x \in (o + 2)..(e - 1)
  <2> QED
    BY ONLY <1>8, <1>9, <2>2
<1>13. e >= o + 20 /\ Len(FrameOf(m)) \in Nat
  <2>1. n \in Nat /\ n >= 18 /\ e = o + (n + 2) /\ o \in Nat /\ Len(FrameOf(m)) = n + 2
    BY ONLY <1>4, <1>5, <1>8, <1>9
  <2> QED
    BY ONLY <2>1
<1> QED
  BY ONLY <1>4, <1>11, <1>12, <1>13 DEF Sits

LEMMA LaidClimbs ==
  ASSUME NEW W, NEW ms, NEW at, NEW G, NEW g, Laid(W, ms, at, G, g)
  PROVE  /\ \A i \in 0..Len(ms) : \A k \in i..Len(ms) : at[i] <= at[k]
         /\ \A i \in 0..Len(ms) : \A k \in i..Len(ms) : g[i] <= g[k]
<1>1. PICK n : n = Len(ms)
  OBVIOUS
<1>2. n \in Nat /\ (\A k \in 0..n : at[k] \in Nat) /\ (\A k \in 0..n : g[k] \in Nat)
  BY ONLY <1>1, Laid(W, ms, at, G, g) DEF Laid
<1>3. ASSUME NEW k \in 1..n
      PROVE  at[k - 1] <= at[k] /\ g[k - 1] <= g[k]
  <2>1. PICK i : i = k - 1
    OBVIOUS
  <2>2. i \in 0..(Len(ms) - 1) /\ k = i + 1 /\ i \in 0..n /\ k \in 0..n
    BY ONLY <1>1, <1>2, <2>1, k \in 1..n
  <2>3. PICK o, e, m : o = at[i] /\ e = at[i + 1] /\ m = ms[i + 1]
    OBVIOUS
  <2>4. /\ o \in Nat /\ e \in Nat /\ e >= o + 20 /\ Good(m)
        /\ e = o + Len(FrameOf(m)) /\ Len(FrameOf(m)) \in Nat
        /\ \A x \in 1..Len(FrameOf(m)) : W[o + x] = FrameOf(m)[x]
        /\ W[o + 1] = MARK /\ W[e] = MARK
        /\ \A x \in (o + 2)..(e - 1) : W[x] # MARK
    <3>1. Sits(W, m, o, e)
      BY ONLY Laid(W, ms, at, G, g), <2>2, <2>3, LaidFrame
    <3> QED
      BY ONLY <3>1 DEF Sits
  <2>5. o <= e
    BY ONLY <2>4
  <2>6. PICK y, z : y = g[i] /\ z = g[k]
    OBVIOUS
  <2>7. z = y + 1 \/ z = y
    BY ONLY <1>1, <2>1, <2>6, k \in 1..n, Laid(W, ms, at, G, g) DEF Laid
  <2>8. y \in Nat
    BY ONLY <1>2, <2>2, <2>6
  <2>9. y <= z
    BY ONLY <2>7, <2>8
  <2> QED
    BY ONLY <2>1, <2>2, <2>3, <2>5, <2>6, <2>9
<1>4. \A i \in 0..n : \A k \in i..n : at[i] <= at[k]
  BY ONLY <1>2, <1>3, Climbs
<1>5. \A i \in 0..n : \A k \in i..n : g[i] <= g[k]
  BY ONLY <1>2, <1>3, Climbs
<1> QED
  BY ONLY <1>1, <1>4, <1>5

(* The frames up to c, and no other, are complete in the first r bytes.     *)
Complete(r, ms, at, c) ==
  /\ r \in Nat /\ c \in 0..Len(ms) /\ at[c] <= r /\ r <= at[Len(ms)]
  /\ c < Len(ms) => r < at[c + 1]

(* Where the loop of RunRX is when it is done with the first i frames: at   *)
(* the end of the last of them, or at the marker that closes it.            *)
Stands(p, at, i) == p \in Nat /\ (p = at[i] \/ p + 1 = at[i])

LEMMA CompleteRest ==
  ASSUME NEW W, NEW ms, NEW at, NEW G, NEW g, Laid(W, ms, at, G, g),
         NEW r, NEW c, Complete(r, ms, at, c)
  PROVE  /\ at[c] < r => W[at[c] + 1] = MARK
         /\ \A x \in (at[c] + 2)..r : W[x] # MARK
<1>1. PICK o : o = at[c]
  OBVIOUS
<1>2. /\ Len(ms) \in Nat /\ c \in 0..Len(ms) /\ r \in Nat /\ o <= r /\ r <= at[Len(ms)]
      /\ o \in Nat /\ (c < Len(ms) => r < at[c + 1])
  BY ONLY <1>1, Laid(W, ms, at, G, g), Complete(r, ms, at, c) DEF Laid, Complete
<1>3. CASE c = Len(ms)
  <2>1. o = r
    BY ONLY <1>1, <1>2, <1>3
  <2> QED
    BY ONLY <1>1, <1>2, <2>1
<1>4. CASE c # Len(ms)
  <2>1. c \in 0..(Len(ms) - 1)
    BY ONLY <1>2, <1>4
  <2>2. PICK e, m : e = at[c + 1] /\ m = ms[c + 1]
    OBVIOUS
  <2>3. /\ o \in Nat /\ e \in Nat /\ e >= o + 20 /\ Good(m)
        /\ e = o + Len(FrameOf(m)) /\ Len(FrameOf(m)) \in Nat
        /\ \A x \in 1..Len(FrameOf(m)) : W[o + x] = FrameOf(m)[x]
        /\ W[o + 1] = MARK /\ W[e] = MARK
        /\ \A x \in (o + 2)..(e - 1) : W[x] # MARK
    <3>1. Sits(W, m, o, e)
      BY ONLY Laid(W, ms, at, G, g), <1>1, <2>1, <2>2, LaidFrame
    <3> QED
      BY ONLY <3>1 DEF Sits
  <2>4. r < e
    BY ONLY <1>2, <2>1, <2>2
  <2>5. \A x \in (o + 2)..r : x \in (o + 2)..(e - 1)
    BY ONLY <1>2, <2>3, <2>4
  <2> QED
    BY ONLY <1>1, <2>3, <2>5
<1> QED
  BY ONLY <1>3, <1>4

(* The marker that closes a frame.                                          *)
LEMMA Closes ==
  ASSUME NEW W, NEW ms, NEW at, NEW G, NEW g, Laid(W, ms, at, G, g),
         NEW i \in 0..Len(ms), at[i] # 0
  PROVE  W[at[i]] = MARK
<1>1. Len(ms) \in Nat /\ at[0] = 0
  BY ONLY Laid(W, ms, at, G, g) DEF Laid
<1>2. PICK j : j = i - 1
  OBVIOUS
<1>3. j \in 0..(Len(ms) - 1) /\ j + 1 = i
  BY ONLY <1>1, <1>2, i \in 0..Len(ms), at[i] # 0
<1>4. PICK o, e, m : o = at[j] /\ e = at[j + 1] /\ m = ms[j + 1]
  OBVIOUS
<1>5. /\ o \in Nat /\ e \in Nat /\ e >= o + 20 /\ Good(m)
      /\ e = o + Len(FrameOf(m)) /\ Len(FrameOf(m)) \in Nat
      /\ \A x \in 1..Len(FrameOf(m)) : W[o + x] = FrameOf(m)[x]
      /\ W[o + 1] = MARK /\ W[e] = MARK
      /\ \A x \in (o + 2)..(e - 1) : W[x] # MARK
  <2>1. Sits(W, m, o, e)
    BY ONLY Laid(W, ms, at, G, g), <1>3, <1>4, LaidFrame
  <2> QED
    BY ONLY <2>1 DEF Sits
<1> QED
  BY ONLY <1>3, <1>4, <1>5

-----------------------------------------------------------------------------
(* What GetNextJTT808Msg makes of the bytes of W from p to r: it goes on    *)
(* from the frames up to i to those up to k.                                *)
Window(b, W, p, r) ==
  /\ p \in Nat /\ r \in Nat /\ p <= r /\ r <= Len(W)
  /\ b = SubSeq(W, p + 1, r) /\ b \in Seq(Nat) /\ Len(b) = r - p
  /\ \A k \in 1..(r - p) : b[k] = W[p + k]

Passed(d, p, at, G, g, i, k) ==
  d.drop \in Nat /\ Stands(p + d.drop, at, k) /\ d.msg = SubSeq(G, g[i] + 1, g[k])

Outcome(d, p, at, G, g, i, c) ==
  \E k \in i..c : Passed(d, p, at, G, g, i, k) /\ (d.drop = 0 => k = c)

(* f, from the marker that opens the frame behind k and from the one that   *)
(* closes the frame k.                                                      *)
Reaches(f, p, at, G, g, k, c) ==
  \A a \in Nat : a + p = at[k] =>
    /\ Outcome(f[a + 1], p, at, G, g, k, c)
    /\ a # 0 => Outcome(f[a], p, at, G, g, k, c)

LEMMA NothingLeft ==
  ASSUME NEW T, NEW s \in Seq(T), NEW i \in Nat, i <= Len(s)
  PROVE  SubSeq(s, i + 1, i) = <<>>
<1>1. PICK a : a = i + 1
  OBVIOUS
<1>2. a \in 1..(Len(s) + 1) /\ i \in (a - 1)..Len(s) /\ i - a + 1 = 0
  <2>1. Len(s) \in Nat
    OBVIOUS
  <2> QED
    BY ONLY <1>1, <2>1, i \in Nat, i <= Len(s)
<1>3. /\ SubSeq(s, a, i) \in Seq(T) /\ Len(SubSeq(s, a, i)) = i - a + 1
      /\ \A x \in 1..(i - a + 1) : SubSeq(s, a, i)[x] = s[a + x - 1]
  BY ONLY s \in Seq(T), <1>2, Cut
<1> QED
  BY <1>1, <1>2, <1>3

LEMMA LaidTypes ==
  ASSUME NEW W, NEW ms, NEW at, NEW G, NEW g, Laid(W, ms, at, G, g)
  PROVE  /\ W \in Seq(Nat) /\ Len(ms) \in Nat /\ G \in Seq(Gots)
         /\ \A i \in 0..Len(ms) : at[i] \in Nat /\ g[i] \in Nat
         /\ \A i \in 0..Len(ms) : at[i] <= Len(W) /\ g[i] <= Len(G)
<1>1. /\ W \in Seq(Nat) /\ Len(ms) \in Nat /\ G \in Seq(Gots)
      /\ at[Len(ms)] = Len(W) /\ g[Len(ms)] = Len(G)
      /\ \A i \in 0..Len(ms) : at[i] \in Nat /\ g[i] \in Nat
  BY ONLY Laid(W, ms, at, G, g) DEF Laid
<1>2. /\ \A i \in 0..Len(ms) : \A k \in i..Len(ms) : at[i] <= at[k]
      /\ \A i \in 0..Len(ms) : \A k \in i..Len(ms) : g[i] <= g[k]
  BY ONLY Laid(W, ms, at, G, g), LaidClimbs
<1>3. \A i \in 0..Len(ms) : Len(ms) \in i..Len(ms)
  BY ONLY <1>1
<1> QED
  BY ONLY <1>1, <1>2, <1>3

LEMMA OutcomeLast ==
  ASSUME NEW W, NEW ms, NEW at, NEW G, NEW g, Laid(W, ms, at, G, g),
         NEW r, NEW c, Complete(r, ms, at, c), NEW b, NEW p, Window(b, W, p, r),
         NEW f, GoesOn(f, b)
  PROVE  Reaches(f, p, at, G, g, c, c)
<1> SUFFICES ASSUME NEW a \in Nat, a + p = at[c]
             PROVE  /\ Outcome(f[a + 1], p, at, G, g, c, c)
                    /\ a # 0 => Outcome(f[a], p, at, G, g, c, c)
  BY Zenon DEF Reaches
<1>1. /\ p \in Nat /\ r \in Nat /\ p <= r /\ b \in Seq(Nat) /\ Len(b) = r - p
      /\ \A k \in 1..(r - p) : b[k] = W[p + k]
  BY ONLY Window(b, W, p, r) DEF Window
<1>2. c \in 0..Len(ms) /\ at[c] <= r
  BY ONLY Complete(r, ms, at, c) DEF Complete
<1>3. /\ at[c] < r => W[at[c] + 1] = MARK
      /\ \A x \in (at[c] + 2)..r : W[x] # MARK
  BY ONLY Laid(W, ms, at, G, g), Complete(r, ms, at, c), CompleteRest
<1>4. a + p <= r /\ a \in 0..Len(b)
  BY ONLY <1>1, <1>2, a \in Nat, a + p = at[c]
<1>5. a < Len(b) => b[a + 1] = MARK
  <2> SUFFICES ASSUME a < Len(b)
               PROVE  b[a + 1] = MARK
    OBVIOUS
  <2>1. a + p < r /\ a + 1 \in 1..(r - p) /\ p + (a + 1) = a + p + 1
    BY ONLY <1>1, a \in Nat, a < Len(b)
  <2>2. W[a + p + 1] = MARK
    BY ONLY <1>3, <2>1, a + p = at[c]
  <2> QED
    BY ONLY <1>1, <2>1, <2>2
<1>6. ASSUME NEW x \in (a + 2)..Len(b)
      PROVE  b[x] # MARK
  <2>1. x \in 1..(r - p) /\ p + x \in (a + p + 2)..r
    BY ONLY <1>1, a \in Nat, x \in (a + 2)..Len(b)
  <2>2. W[p + x] # MARK
    BY ONLY <1>3, <2>1, a + p = at[c]
  <2> QED
    BY ONLY <1>1, <2>1, <2>2
<1>7. /\ f[a + 1] = [drop |-> a, msg |-> <<>>]
      /\ a # 0 /\ b[a] = MARK => f[a] = [drop |-> a - 1, msg |-> <<>>]
  <2>1. b \in Seq(Nat)
    BY ONLY <1>1
  <2> QED
    BY ONLY <2>1, GoesOn(f, b), <1>4, <1>5, <1>6, LastStep
<1>8. SubSeq(G, g[c] + 1, g[c]) = <<>>
  <2>1. G \in Seq(Gots) /\ g[c] \in Nat /\ g[c] <= Len(G)
    <3>1. /\ W \in Seq(Nat) /\ Len(ms) \in Nat /\ G \in Seq(Gots)
          /\ \A i \in 0..Len(ms) : at[i] \in Nat /\ g[i] \in Nat
          /\ \A i \in 0..Len(ms) : at[i] <= Len(W) /\ g[i] <= Len(G)
      BY ONLY Laid(W, ms, at, G, g), LaidTypes
    <3> QED
      BY ONLY <1>2, <3>1
  <2>2. PICK x : x = g[c]
    OBVIOUS
  <2> QED
    BY ONLY <2>1, <2>2, NothingLeft
<1>9. c \in c..c
  <2>1. Len(ms) \in Nat
    BY ONLY Laid(W, ms, at, G, g) DEF Laid
  <2> QED
    BY ONLY <1>2, <2>1
<1>10. ASSUME NEW d, NEW n \in Nat, d = [drop |-> n, msg |-> <<>>],
              n = a \/ n + 1 = a
       PROVE  Outcome(d, p, at, G, g, c, c)
  <2>1. d.drop = n /\ d.msg = <<>>
    BY ONLY <1>10
  <2>2. p + n \in Nat /\ (p + n = at[c] \/ p + n + 1 = at[c])
    <3>1. PICK x : x = at[c]
      OBVIOUS
    <3>2. p \in Nat /\ a + p = x /\ (n = a \/ n + 1 = a)
      BY ONLY <1>1, <1>10, <3>1, a + p = at[c]
    <3>3. p + n \in Nat /\ (p + n = x \/ p + n + 1 = x)
      BY ONLY <3>2, a \in Nat, n \in Nat
    <3> QED
      BY ONLY <3>1, <3>3
  <2>3. Passed(d, p, at, G, g, c, c)
    BY ONLY <1>8, <2>1, <2>2, n \in Nat DEF Passed, Stands
  <2> QED
    BY ONLY <1>9, <2>3 DEF Outcome
<1>11. Outcome(f[a + 1], p, at, G, g, c, c)
  BY ONLY <1>7, <1>10, a \in Nat
<1>12. ASSUME a # 0
       PROVE  Outcome(f[a], p, at, G, g, c, c)
  <2>1. W[at[c]] = MARK
    <3>1. at[c] # 0
      BY ONLY <1>1, <1>12, a \in Nat, a + p = at[c]
    <3> QED
      BY ONLY Laid(W, ms, at, G, g), <1>2, <3>1, Closes
  <2>2. a \in 1..(r - p) /\ p + a = at[c] /\ a - 1 \in Nat /\ a - 1 + 1 = a
    BY ONLY <1>1, <1>4, <1>12, a \in Nat, a + p = at[c]
  <2>3. b[a] = MARK
    BY ONLY <1>1, <2>1, <2>2
  <2>4. f[a] = [drop |-> a - 1, msg |-> <<>>]
    BY ONLY <1>7, <1>12, <2>3
  <2> QED
    BY ONLY <1>10, <2>2, <2>4
<1> QED
  BY ONLY <1>11, <1>12

LEMMA OutcomeStep ==
  ASSUME NEW W, NEW ms, NEW at, NEW G, NEW g, Laid(W, ms, at, G, g),
         NEW r, NEW c, Complete(r, ms, at, c), NEW b, NEW p, Window(b, W, p, r),
         NEW f, GoesOn(f, b), NEW k \in 0..(c - 1), NEW l, l = k + 1,
         Reaches(f, p, at, G, g, l, c)
  PROVE  Reaches(f, p, at, G, g, k, c)
<1> SUFFICES ASSUME NEW a \in Nat, a + p = at[k]
             PROVE  /\ Outcome(f[a + 1], p, at, G, g, k, c)
                    /\ a # 0 => Outcome(f[a], p, at, G, g, k, c)
  BY Zenon DEF Reaches
<1>1. /\ p \in Nat /\ r \in Nat /\ p <= r /\ b \in Seq(Nat) /\ Len(b) = r - p
      /\ \A x \in 1..(r - p) : b[x] = W[p + x]
  BY ONLY Window(b, W, p, r) DEF Window
<1>2. c \in 0..Len(ms) /\ at[c] <= r
  BY ONLY Complete(r, ms, at, c) DEF Complete
<1>3. /\ W \in Seq(Nat) /\ Len(ms) \in Nat /\ G \in Seq(Gots)
      /\ \A i \in 0..Len(ms) : at[i] \in Nat /\ g[i] \in Nat
      /\ \A i \in 0..Len(ms) : at[i] <= Len(W) /\ g[i] <= Len(G)
  BY ONLY Laid(W, ms, at, G, g), LaidTypes
<1>4. /\ k \in 0..(Len(ms) - 1) /\ l \in 1..Len(ms) /\ l - 1 = k /\ k \in 0..Len(ms)
      /\ c \in l..Len(ms) /\ l \in 0..Len(ms) /\ l \in k..c
  BY ONLY <1>2, <1>3, k \in 0..(c - 1), l = k + 1
<1>5. PICK o, e, m : o = at[k] /\ e = at[l] /\ m = ms[l]
  OBVIOUS
<1>6. Sits(W, m, o, e)
  <2>1. e = at[k + 1] /\ m = ms[k + 1] /\ o = at[k]
    BY ONLY <1>5, l = k + 1
  <2> QED
    BY ONLY Laid(W, ms, at, G, g), <1>4, <2>1, LaidFrame
<1>7. e <= r
  <2>1. /\ \A i \in 0..Len(ms) : \A j \in i..Len(ms) : at[i] <= at[j]
        /\ \A i \in 0..Len(ms) : \A j \in i..Len(ms) : g[i] <= g[j]
    BY ONLY Laid(W, ms, at, G, g), LaidClimbs
  <2>2. e <= at[c]
    BY ONLY <1>4, <1>5, <2>1
  <2>3. PICK x : x = at[c]
    OBVIOUS
  <2>4. x \in Nat /\ e \in Nat
    BY ONLY <1>2, <1>3, <1>4, <1>5, <2>3
  <2> QED
    BY ONLY <1>1, <1>2, <2>2, <2>3, <2>4
<1>8. PICK F, n : F = FrameOf(m) /\ n = Len(F)
  OBVIOUS
<1>9. /\ o \in Nat /\ e \in Nat /\ e >= o + 20 /\ e = o + n /\ n \in Nat /\ Good(m)
      /\ \A x \in 1..n : W[o + x] = F[x]
  BY ONLY <1>6, <1>8 DEF Sits
<1>10. PICK z : z = a + n
  OBVIOUS
<1>11. o = a + p /\ z \in Nat /\ z + p = e /\ z <= Len(b) /\ z # 0
  <2>1. PICK x : x = Len(b)
    OBVIOUS
  <2>2. o = a + p /\ e = o + n /\ e <= r /\ x = r - p
    BY ONLY <1>1, <1>5, <1>7, <1>9, <2>1, a + p = at[k]
  <2>3. o \in Nat /\ e \in Nat /\ n \in Nat /\ r \in Nat /\ p \in Nat /\ e >= o + 20
    BY ONLY <1>1, <1>9
  <2>4. o = a + p /\ z \in Nat /\ z + p = e /\ z <= x /\ z # 0
    BY ONLY <1>10, <2>2, <2>3, a \in Nat
  <2> QED
    BY ONLY <2>1, <2>4
<1>12. FrameAt(b, a, m)
  <2>1. ASSUME NEW x \in 1..n
        PROVE  b[a + x] = F[x]
    <3>1. a + x \in 1..(r - p) /\ p + (a + x) = o + x
      BY ONLY <1>1, <1>9, <1>10, <1>11, a \in Nat, x \in 1..n
    <3> QED
      BY ONLY <1>1, <1>9, <3>1, x \in 1..n
  <2> QED
    BY ONLY <1>8, <1>10, <1>11, <2>1 DEF FrameAt
<1>13. /\ EvenEscapes(m) => f[a + 1] = [drop |-> z, msg |-> <<Got(m)>>]
       /\ ~EvenEscapes(m) => f[a + 1] = f[z]
       /\ a # 0 /\ b[a] = MARK => f[a] = f[a + 1]
  <2>1. b \in Seq(Nat) /\ Good(m) /\ z = a + Len(FrameOf(m))
    BY ONLY <1>1, <1>8, <1>9, <1>10
  <2>2. Steps(f, b, a, m, z)
    BY ONLY <2>1, GoesOn(f, b), <1>12, a \in Nat, FrameStep
  <2> QED
    BY ONLY <2>2 DEF Steps
<1>14. /\ EvenEscapes(m) => g[l] = g[k] + 1 /\ G[g[l]] = Got(m)
       /\ ~EvenEscapes(m) => g[l] = g[k]
  BY ONLY <1>4, <1>5, Laid(W, ms, at, G, g) DEF Laid
<1>15. ASSUME EvenEscapes(m)
       PROVE  Outcome(f[a + 1], p, at, G, g, k, c)
  <2>1. PICK d : d = f[a + 1]
    OBVIOUS
  <2>2. d.drop = z /\ d.msg = <<Got(m)>>
    BY ONLY <1>13, <1>15, <2>1
  <2>3. PICK x, y : x = g[k] /\ y = g[l]
    OBVIOUS
  <2>4. x \in Nat /\ y \in Nat /\ y <= Len(G) /\ y = x + 1 /\ G[y] = Got(m)
    BY ONLY <1>3, <1>4, <1>14, <1>15, <2>3
  <2>5. SubSeq(G, x + 1, y) = <<Got(m)>>
    <3>1. y \in 1..Len(G) /\ Len(G) \in Nat
      BY ONLY <1>3, <2>4
    <3>2. SubSeq(G, y, y) = <<G[y]>>
      BY ONLY <1>3, <3>1, Single
    <3> QED
      BY ONLY <2>4, <3>2
  <2>6. Stands(p + z, at, l)
    BY ONLY <1>1, <1>5, <1>11 DEF Stands
  <2>7. Passed(d, p, at, G, g, k, l) /\ (d.drop = 0 => l = c)
    BY ONLY <1>11, <2>2, <2>3, <2>5, <2>6 DEF Passed
  <2> QED
    BY ONLY <1>4, <2>1, <2>7 DEF Outcome
<1>16. ASSUME ~EvenEscapes(m)
       PROVE  Outcome(f[a + 1], p, at, G, g, k, c)
  <2>1. PICK d : d = f[a + 1]
    OBVIOUS
  <2>2. Outcome(d, p, at, G, g, l, c)
    BY ONLY <1>5, <1>11, <1>13, <1>16, <2>1, Reaches(f, p, at, G, g, l, c) DEF Reaches
  <2>3. PICK j \in l..c : Passed(d, p, at, G, g, l, j) /\ (d.drop = 0 => j = c)
    BY ONLY <2>2 DEF Outcome
  <2>4. j \in k..c
    BY ONLY <1>2, <1>3, <1>4, j \in l..c
  <2>5. Passed(d, p, at, G, g, k, j)
    BY ONLY <1>14, <1>16, <2>3 DEF Passed
  <2> QED
    BY ONLY <2>1, <2>3, <2>4, <2>5 DEF Outcome
<1>17. ASSUME a # 0
       PROVE  f[a] = f[a + 1]
  <2>1. o # 0 /\ a \in 1..(r - p) /\ p + a = o
    <3>1. o = a + p /\ o \in Nat /\ e \in Nat /\ e >= o + 20 /\ e <= r
      BY ONLY <1>7, <1>9, <1>11
    <3>2. p \in Nat /\ r \in Nat /\ a # 0
      BY ONLY <1>1, <1>17
    <3> QED
      BY ONLY <3>1, <3>2, a \in Nat
  <2>2. W[o] = MARK
    BY ONLY Laid(W, ms, at, G, g), <1>4, <1>5, <2>1, Closes
  <2> QED
    BY ONLY <1>1, <1>13, <1>17, <2>1, <2>2
<1> QED
  BY ONLY <1>15, <1>16, <1>17

LEMMA OutcomeNext ==
  ASSUME NEW W, NEW ms, NEW at, NEW G, NEW g, Laid(W, ms, at, G, g),
         NEW r, NEW c, Complete(r, ms, at, c), NEW b, NEW p, Window(b, W, p, r),
         NEW i \in 0..c, Stands(p, at, i)
  PROVE  Outcome(GetNextJTT808Msg(b), p, at, G, g, i, c)
<1>1. PICK f : GoesOn(f, b) /\ GetNextJTT808Msg(b) = f[1]
  <2>1. Len(b) \in Nat
    BY DEF Window
  <2> QED
    BY ONLY <2>1, GetNextSolves
<1>2. c \in Nat
  <2>1. c \in 0..Len(ms) /\ Len(ms) \in Nat
    BY ONLY Complete(r, ms, at, c), Laid(W, ms, at, G, g) DEF Complete, Laid
  <2> QED
    BY ONLY <2>1
<1> DEFINE S == {d \in Nat : d <= c => Reaches(f, p, at, G, g, c - d, c)}
<1>3. 0 \in S
  <2>1. Reaches(f, p, at, G, g, c, c)
    BY ONLY Laid(W, ms, at, G, g), Complete(r, ms, at, c), Window(b, W, p, r), <1>1, OutcomeLast
  <2>2. c - 0 = c
    BY <1>2
  <2> QED
    BY <2>1, <2>2
<1>4. ASSUME NEW d \in Nat, d \in S
      PROVE  d + 1 \in S
  <2> SUFFICES ASSUME d + 1 <= c
               PROVE  Reaches(f, p, at, G, g, c - (d + 1), c)
    OBVIOUS
  <2>1. PICK k, l : k = c - (d + 1) /\ l = c - d
    OBVIOUS
  <2>2. k \in 0..(c - 1) /\ l = k + 1 /\ d <= c
    BY ONLY <1>2, <2>1, d + 1 <= c, d \in Nat
  <2>3. Reaches(f, p, at, G, g, l, c)
    BY <1>4, <2>1, <2>2
  <2>4. GoesOn(f, b)
    BY ONLY <1>1
  <2>5. Reaches(f, p, at, G, g, k, c)
    BY ONLY Laid(W, ms, at, G, g), Complete(r, ms, at, c), Window(b, W, p, r), <2>2, <2>3,
            <2>4, OutcomeStep
  <2> QED
    BY ONLY <2>1, <2>5
<1>5. PICK d \in Nat : d <= c /\ c - d = i
  <2>1. c - i \in Nat /\ c - i <= c /\ c - (c - i) = i
    BY ONLY <1>2, i \in 0..c
  <2> QED
    BY ONLY <2>1
<1>6. Reaches(f, p, at, G, g, i, c)
  <2>1. Nat \subseteq S
    <3> HIDE DEF S
    <3> QED
      BY ONLY <1>3, <1>4, SetInduction
  <2>2. d \in S
    <3> HIDE DEF S
    <3> QED
      BY ONLY <2>1, d \in Nat
  <2> QED
    BY ONLY <1>5, <2>2
<1>7. CASE p = at[i]
  <2>1. 0 \in Nat /\ 0 + p = at[i] /\ 0 + 1 = 1
    BY ONLY <1>7, Stands(p, at, i) DEF Stands
  <2>2. Outcome(f[0 + 1], p, at, G, g, i, c)
    BY ONLY <1>6, <2>1 DEF Reaches
  <2> QED
    BY ONLY <1>1, <2>1, <2>2
<1>8. CASE p + 1 = at[i]
  <2>1. 1 \in Nat /\ 1 + p = at[i] /\ 1 # 0
    BY ONLY <1>8, Stands(p, at, i) DEF Stands
  <2>2. Outcome(f[1], p, at, G, g, i, c)
    BY ONLY <1>6, <2>1 DEF Reaches
  <2> QED
    BY ONLY <1>1, <2>2
<1> QED
  BY <1>7, <1>8 DEF Stands

LEMMA WindowIs ==
  ASSUME NEW W \in Seq(Nat), NEW p \in Nat, NEW r \in Nat, p <= r, r <= Len(W),
         NEW b, b = SubSeq(W, p + 1, r)
  PROVE  Window(b, W, p, r)
<1>1. PICK n : n = r - p
  OBVIOUS
<1>2. n \in Nat /\ r = p + n /\ p + n <= Len(W)
  BY <1>1
<1>3. b = SubSeq(W, p + 1, p + n)
  BY <1>2
<1>4. /\ SubSeq(W, p + 1, p + n) \in Seq(Nat) /\ Len(SubSeq(W, p + 1, p + n)) = n
      /\ \A i \in 1..n : SubSeq(W, p + 1, p + n)[i] = W[p + i]
  BY ONLY W \in Seq(Nat), p \in Nat, <1>2, Slice
<1>5. b \in Seq(Nat) /\ Len(b) = r - p /\ \A k \in 1..(r - p) : b[k] = W[p + k]
  BY ONLY <1>1, <1>3, <1>4
<1> QED
  BY <1>5 DEF Window

LEMMA WindowRest ==
  ASSUME NEW W \in Seq(Nat), NEW p, NEW r, NEW b, Window(b, W, p, r), NEW d \in 0..Len(b),
         NEW q, q = p + d
  PROVE  Window(SubSeq(b, d + 1, Len(b)), W, q, r)
<1>1. /\ p \in Nat /\ r \in Nat /\ p <= r /\ r <= Len(W) /\ b \in Seq(Nat) /\ Len(b) = r - p
      /\ \A k \in 1..(r - p) : b[k] = W[p + k]
  BY DEF Window
<1>2. PICK n : n = Len(b)
  OBVIOUS
<1>3. n \in Nat /\ n = r - p /\ d \in 0..n
  BY ONLY <1>1, <1>2, d \in 0..Len(b)
<1>4. d \in Nat /\ d <= n /\ n <= Len(b) /\ q \in Nat /\ q <= r
  BY ONLY <1>1, <1>2, <1>3, q = p + d
<1>5. PICK x, y : x = SubSeq(b, d + 1, n) /\ y = SubSeq(W, q + 1, r)
  OBVIOUS
<1>6. Window(x, b, d, n)
  BY ONLY <1>1, <1>3, <1>4, <1>5, WindowIs
<1>7. Window(y, W, q, r)
  BY ONLY W \in Seq(Nat), <1>1, <1>4, <1>5, WindowIs
<1>8. x \in Seq(Nat) /\ Len(x) = n - d /\ \A k \in 1..(n - d) : x[k] = b[d + k]
  BY ONLY <1>6 DEF Window
<1>9. y \in Seq(Nat) /\ Len(y) = r - q /\ \A k \in 1..(r - q) : y[k] = W[q + k]
  BY ONLY <1>7 DEF Window
<1>10. n - d = r - q
  BY ONLY <1>1, <1>3, <1>4, q = p + d
<1>11. \A k \in 1..Len(y) : x[k] = y[k]
  <2> SUFFICES ASSUME NEW k \in 1..Len(y)
               PROVE  x[k] = y[k]
    OBVIOUS
  <2>1. k \in 1..(n - d) /\ k \in 1..(r - q)
    BY ONLY <1>9, <1>10, k \in 1..Len(y)
  <2>2. d + k \in 1..(r - p) /\ p + (d + k) = q + k
    BY ONLY <1>1, <1>3, <1>4, <2>1, q = p + d
  <2> QED
    BY ONLY <1>1, <1>8, <1>9, <2>1, <2>2
<1>12. x = y
  <2>1. Len(x) = Len(y)
    BY ONLY <1>8, <1>9, <1>10
  <2> QED
    BY ONLY <1>8, <1>9, <1>11, <2>1, SeqEqual
<1> QED
  BY ONLY <1>2, <1>5, <1>7, <1>12

(* What the loop of RunRX makes of the bytes from p to r.                   *)
SortedTo(s, W, p, r, at, G, g, i, c) ==
  \E q \in Nat : /\ p <= q /\ q <= r /\ Stands(q, at, c)
                 /\ s.left = SubSeq(W, q + 1, r)
                 /\ s.msgs = SubSeq(G, g[i] + 1, g[c])

LEMMA SortedRun ==
  ASSUME NEW W, NEW ms, NEW at, NEW G, NEW g, Laid(W, ms, at, G, g),
         NEW r, NEW c, Complete(r, ms, at, c), NEW b, NEW p, Window(b, W, p, r),
         NEW i \in 0..c, Stands(p, at, i)
  PROVE  SortedTo(Sorted(b), W, p, r, at, G, g, i, c)
<1> DEFINE T(n) ==
      \A u, q : \A j \in 0..c : Window(u, W, q, r) /\ Stands(q, at, j) /\ Len(u) < n
                                  => SortedTo(Sorted(u), W, q, r, at, G, g, j, c)
           S == {n \in Nat : T(n)}
<1>1. /\ W \in Seq(Nat) /\ Len(ms) \in Nat /\ G \in Seq(Gots)
      /\ \A k \in 0..Len(ms) : at[k] \in Nat /\ g[k] \in Nat
      /\ \A k \in 0..Len(ms) : at[k] <= Len(W) /\ g[k] <= Len(G)
  BY ONLY Laid(W, ms, at, G, g), LaidTypes
<1>2. c \in 0..Len(ms)
  BY ONLY Complete(r, ms, at, c) DEF Complete
<1>3. 0 \in S
  <2> SUFFICES ASSUME NEW u, NEW q, NEW j \in 0..c, Window(u, W, q, r), Len(u) < 0
               PROVE  FALSE
    OBVIOUS
  <2>1. u \in Seq(Nat)
    BY DEF Window
  <2> QED
    BY <2>1
<1>4. ASSUME NEW n \in Nat, n \in S
      PROVE  n + 1 \in S
  <2>1. T(n)
    BY <1>4
  <2> HIDE DEF T
  <2>2. ASSUME NEW u, NEW q, NEW j \in 0..c, Window(u, W, q, r), Stands(q, at, j),
               Len(u) < n + 1
        PROVE  SortedTo(Sorted(u), W, q, r, at, G, g, j, c)
    <3>1. u = SubSeq(W, q + 1, r) /\ u \in Seq(Nat) /\ q \in Nat /\ r \in Nat /\ q <= r
      BY ONLY <2>2 DEF Window
    <3>2. PICK next : next = GetNextJTT808Msg(u)
      OBVIOUS
    <3>3. Outcome(next, q, at, G, g, j, c)
      <4>1. Outcome(GetNextJTT808Msg(u), q, at, G, g, j, c)
        BY ONLY Laid(W, ms, at, G, g), Complete(r, ms, at, c), <2>2, j \in 0..c, OutcomeNext
      <4> QED
        BY ONLY <3>2, <4>1
    <3>4. PICK k \in j..c : Passed(next, q, at, G, g, j, k) /\ (next.drop = 0 => k = c)
      BY ONLY <3>3 DEF Outcome
    <3>5. PICK d : d = next.drop
      OBVIOUS
    <3>6. d \in Nat /\ Stands(q + d, at, k) /\ next.msg = SubSeq(G, g[j] + 1, g[k])
      BY ONLY <3>4, <3>5 DEF Passed
    <3>7. /\ next.drop \in 0..Len(u)
          /\ Len(u) = 0 \/ next.drop = 0 => Sorted(u) = [left |-> u, msgs |-> next.msg]
          /\ Len(u) # 0 /\ next.drop # 0 =>
               LET more == Sorted(SubSeq(u, next.drop + 1, Len(u)))
               IN  Sorted(u) = [left |-> more.left, msgs |-> next.msg \o more.msgs]
      BY ONLY <3>1, <3>2, SortedStep
    <3>8. CASE d = 0
      <4>1. k = c /\ q + d = q
        BY ONLY <3>1, <3>4, <3>5, <3>8
      <4>2. Sorted(u) = [left |-> u, msgs |-> next.msg]
        BY ONLY <3>5, <3>7, <3>8
      <4>3. /\ q <= q /\ Sorted(u).left = SubSeq(W, q + 1, r)
            /\ Sorted(u).msgs = SubSeq(G, g[j] + 1, g[c])
        BY ONLY <3>1, <3>6, <4>1, <4>2
      <4> QED
        BY ONLY <3>1, <3>6, <4>1, <4>3 DEF SortedTo
    <3>9. CASE d # 0
      <4>1. PICK v, x : v = SubSeq(u, d + 1, Len(u)) /\ x = q + d
        OBVIOUS
      <4>2. d \in 0..Len(u) /\ Len(u) # 0
        <5>1. Len(u) \in Nat
          BY ONLY <3>1
        <5> QED
          BY ONLY <3>5, <3>7, <3>9, <5>1
      <4>3. Window(v, W, x, r)
        BY ONLY <1>1, <2>2, <4>1, <4>2, WindowRest
      <4>4. Len(v) < n
        <5>1. Len(v) = r - x /\ Len(u) = r - q
          BY ONLY <2>2, <4>3 DEF Window
        <5>2. PICK y : y = r - q
          OBVIOUS
        <5>3. y < n + 1 /\ y \in Nat
          BY ONLY <2>2, <3>1, <5>1, <5>2
        <5>4. r - x < n
          BY ONLY <3>1, <3>6, <3>9, <4>1, <5>2, <5>3, n \in Nat
        <5> QED
          BY ONLY <5>1, <5>4
      <4>5. Stands(x, at, k)
        BY ONLY <3>6, <4>1
      <4>6. k \in 0..c /\ j \in 0..Len(ms) /\ k \in 0..Len(ms) /\ k \in j..Len(ms)
            /\ c \in k..Len(ms)
        BY ONLY <1>1, <1>2, j \in 0..c, k \in j..c
      <4>7. SortedTo(Sorted(v), W, x, r, at, G, g, k, c)
        BY ONLY <2>1, <4>3, <4>4, <4>5, <4>6 DEF T
      <4>8. PICK y \in Nat : /\ x <= y /\ y <= r /\ Stands(y, at, c)
                             /\ Sorted(v).left = SubSeq(W, y + 1, r)
                             /\ Sorted(v).msgs = SubSeq(G, g[k] + 1, g[c])
        BY ONLY <4>7 DEF SortedTo
      <4>9. Sorted(u) = [left |-> Sorted(v).left, msgs |-> next.msg \o Sorted(v).msgs]
        BY ONLY <3>5, <3>7, <3>9, <4>1, <4>2
      <4>10. SubSeq(G, g[j] + 1, g[k]) \o SubSeq(G, g[k] + 1, g[c]) = SubSeq(G, g[j] + 1, g[c])
        <5>1. /\ \A a \in 0..Len(ms) : \A e \in a..Len(ms) : at[a] <= at[e]
              /\ \A a \in 0..Len(ms) : \A e \in a..Len(ms) : g[a] <= g[e]
          BY ONLY Laid(W, ms, at, G, g), LaidClimbs
        <5>2. PICK a, e, h : a = g[j] /\ e = g[k] /\ h = g[c]
          OBVIOUS
        <5>3. a \in Nat /\ e \in Nat /\ h \in Nat /\ a <= e /\ e <= h /\ h <= Len(G)
          BY ONLY <1>1, <1>2, <4>6, <5>1, <5>2
        <5>4. SubSeq(G, a + 1, e) \o SubSeq(G, e + 1, h) = SubSeq(G, a + 1, h)
          BY ONLY <1>1, <5>3, Spliced
        <5> QED
          BY ONLY <5>2, <5>4
      <4>11. Sorted(u).msgs = SubSeq(G, g[j] + 1, g[c]) /\ Sorted(u).left = SubSeq(W, y + 1, r)
        <5>1. Sorted(u).left = Sorted(v).left /\ Sorted(u).msgs = next.msg \o Sorted(v).msgs
          <6>1. PICK s, l, z : /\ s = Sorted(u) /\ l = Sorted(v).left
                               /\ z = next.msg \o Sorted(v).msgs
            OBVIOUS
          <6>2. s = [left |-> l, msgs |-> z]
            BY ONLY <4>9, <6>1
          <6>3. s.left = l /\ s.msgs = z
            BY ONLY <6>2
          <6> QED
            BY ONLY <6>1, <6>3
        <5>2. next.msg = SubSeq(G, g[j] + 1, g[k])
          BY ONLY <3>6
        <5>3. /\ Sorted(v).left = SubSeq(W, y + 1, r)
              /\ Sorted(v).msgs = SubSeq(G, g[k] + 1, g[c])
          BY ONLY <4>8
        <5> QED
          BY ONLY <4>10, <5>1, <5>2, <5>3, Zenon
      <4>12. q <= y
        BY ONLY <3>1, <3>6, <4>1, <4>8, y \in Nat
      <4> QED
        BY ONLY <4>8, <4>11, <4>12, y \in Nat DEF SortedTo
    <3> QED
      BY ONLY <3>8, <3>9
  <2> QED
    BY ONLY <2>2, n \in Nat DEF T
<1>5. Len(b) \in Nat /\ Len(b) + 1 \in Nat /\ Len(b) < Len(b) + 1
  <2>1. b \in Seq(Nat)
    BY DEF Window
  <2> QED
    BY ONLY <2>1
<1>6. Len(b) + 1 \in S
  <2> HIDE DEF S
  <2>1. Nat \subseteq S
    BY ONLY <1>3, <1>4, SetInduction
  <2> QED
    BY ONLY <1>5, <2>1
<1>7. T(Len(b) + 1)
  <2> HIDE DEF T
  <2> QED
    BY ONLY <1>6
<1> QED
  BY ONLY <1>5, <1>7, Window(b, W, p, r), i \in 0..c, Stands(p, at, i)

-----------------------------------------------------------------------------
(* Every stream is laid out.                                                *)
LEMMA GoodStream ==
  ASSUME NEW ms \in Streams
  PROVE  ms \in Seq(Message) /\ \A i \in 1..Len(ms) : Good(ms[i])
<1>1. /\ Streams \subseteq Seq(Message)
      /\ \A s \in Streams : \A i \in DOMAIN s :
           Write(s[i].id, s[i].n, s[i].base) \in Seq(Byte)
             /\ Len(Write(s[i].id, s[i].n, s[i].base)) < 1024
  BY SMT, FramesAssumption
<1>2. ms \in Seq(Message)
  BY <1>1
<1>3. DOMAIN ms = 1..Len(ms) /\ \A i \in 1..Len(ms) : ms[i] \in Message
  BY ONLY <1>2
<1>4. ASSUME NEW i \in 1..Len(ms)
      PROVE  Good(ms[i])
  <2>1. /\ Write(ms[i].id, ms[i].n, ms[i].base) \in Seq(Byte)
        /\ Len(Write(ms[i].id, ms[i].n, ms[i].base)) < 1024
    BY ONLY <1>1, <1>3, ms \in Streams, i \in 1..Len(ms), SMT
  <2>2. ms[i] \in Message
    BY ONLY <1>3, i \in 1..Len(ms)
  <2> QED
    BY ONLY <2>1, <2>2, SMT DEF Good, Body
<1> QED
  BY ONLY <1>2, <1>4

LaidOut(W, ms, fr) ==
  \E at, G, g : /\ Laid(W, ms, at, G, g)
                /\ \A i \in 0..Len(ms) : at[i] = Len(FlattenSeq(SubSeq(fr, 1, i)))

LEMMA LaidExists ==
  ASSUME NEW ms \in Seq(Message), \A i \in 1..Len(ms) : Good(ms[i]),
         NEW fr, fr = [i \in DOMAIN ms |-> FrameOf(ms[i])], NEW W, W = FlattenSeq(fr)
  PROVE  LaidOut(W, ms, fr)
<1>1. PICK n : n = Len(ms)
  OBVIOUS
<1>2. n \in Nat /\ DOMAIN ms = 1..n
  BY <1>1
<1>3. ASSUME NEW i \in 1..n
      PROVE  FrameOf(ms[i]) \in Seq(Nat) /\ fr[i] = FrameOf(ms[i])
  <2>1. PICK m, F, E : m = ms[i] /\ F = FrameOf(m) /\ E = Inner(m)
    OBVIOUS
  <2>2. Good(m)
    BY ONLY <1>1, <2>1, i \in 1..n, \A k \in 1..Len(ms) : Good(ms[k])
  <2>3. Framing(F, E)
    BY ONLY <2>1, <2>2, FrameShape
  <2> QED
    BY ONLY <1>2, <2>1, <2>3, fr = [k \in DOMAIN ms |-> FrameOf(ms[k])] DEF Framing
<1>4. fr \in Seq(Seq(Nat)) /\ Len(fr) = n
  <2>1. fr \in [1..n -> Seq(Nat)]
    BY ONLY <1>2, <1>3, fr = [k \in DOMAIN ms |-> FrameOf(ms[k])]
  <2> QED
    BY ONLY <1>2, <2>1
<1>5. PICK at : Places(at, fr, W)
  <2>1. \E at : Places(at, fr, FlattenSeq(fr))
    BY ONLY <1>4, FlattenPlaces
  <2> QED
    BY ONLY <2>1, W = FlattenSeq(fr)
<1>6. W \in Seq(Nat)
  BY ONLY <1>4, W = FlattenSeq(fr), FlattenType
<1> DEFINE one(m) == IF EvenEscapes(m) THEN <<Got(m)>> ELSE <<>>
<1>7. PICK ds : ds = [i \in 1..n |-> one(ms[i])]
  OBVIOUS
<1>8. ds \in Seq(Seq(Gots)) /\ Len(ds) = n
  <2>1. ASSUME NEW i \in 1..n
        PROVE  one(ms[i]) \in Seq(Gots)
    <3>1. PICK x : x = Got(ms[i])
      OBVIOUS
    <3>2. x \in Gots
      BY <1>1, <3>1 DEF Gots
    <3>3. <<x>> \in Seq(Gots) /\ <<>> \in Seq(Gots)
      BY ONLY <3>2
    <3> QED
      BY ONLY <3>1, <3>3
  <2> HIDE DEF one
  <2>2. ds \in [1..n -> Seq(Gots)]
    BY ONLY <1>7, <2>1
  <2> QED
    BY ONLY <1>2, <2>2
<1>9. PICK G : G = FlattenSeq(ds)
  OBVIOUS
<1>10. PICK g : Places(g, ds, G)
  <2>1. \E g : Places(g, ds, FlattenSeq(ds))
    BY ONLY <1>8, FlattenPlaces
  <2> QED
    BY ONLY <1>9, <2>1
<1>11. G \in Seq(Gots)
  BY ONLY <1>8, <1>9, FlattenType
<1>12. /\ at \in [0..n -> 0..Len(W)] /\ at[0] = 0 /\ at[n] = Len(W)
       /\ \A i \in 0..n : at[i] = Len(FlattenSeq(SubSeq(fr, 1, i)))
       /\ \A i \in 1..n : /\ at[i] = at[i - 1] + Len(fr[i])
                          /\ \A k \in 1..Len(fr[i]) : W[at[i - 1] + k] = fr[i][k]
  BY ONLY <1>4, <1>5 DEF Places
<1>13. /\ g \in [0..n -> 0..Len(G)] /\ g[0] = 0 /\ g[n] = Len(G)
       /\ \A i \in 1..n : /\ g[i] = g[i - 1] + Len(ds[i])
                          /\ \A k \in 1..Len(ds[i]) : G[g[i - 1] + k] = ds[i][k]
  BY ONLY <1>8, <1>10 DEF Places
<1>14. \A i \in 0..n : at[i] \in Nat /\ g[i] \in Nat
  <2>1. Len(W) \in Nat /\ Len(G) \in Nat
    BY ONLY <1>6, <1>11
  <2> QED
    BY ONLY <1>12, <1>13, <2>1
<1>15. ASSUME NEW i \in 1..n
       PROVE  /\ Good(ms[i])
              /\ at[i] = at[i - 1] + Len(FrameOf(ms[i]))
              /\ \A k \in 1..Len(FrameOf(ms[i])) : W[at[i - 1] + k] = FrameOf(ms[i])[k]
              /\ EvenEscapes(ms[i]) => g[i] = g[i - 1] + 1 /\ G[g[i]] = Got(ms[i])
              /\ ~EvenEscapes(ms[i]) => g[i] = g[i - 1]
  <2>1. PICK m, F : m = ms[i] /\ F = FrameOf(m)
    OBVIOUS
  <2>2. Good(m)
    BY ONLY <1>1, <2>1, i \in 1..n, \A k \in 1..Len(ms) : Good(ms[k])
  <2>3. fr[i] = F
    BY ONLY <1>3, <2>1, i \in 1..n
  <2>4. at[i] = at[i - 1] + Len(F) /\ \A k \in 1..Len(F) : W[at[i - 1] + k] = F[k]
    BY ONLY <1>12, <2>3, i \in 1..n
  <2>5. ds[i] = one(m)
    BY ONLY <1>7, <2>1, i \in 1..n
  <2>6. PICK d, j, x, y : d = ds[i] /\ j = i - 1 /\ x = g[j] /\ y = g[i]
    OBVIOUS
  <2>7. x \in Nat /\ y = x + Len(d) /\ \A k \in 1..Len(d) : G[x + k] = d[k]
    <3>1. j \in 0..n
      BY ONLY <1>2, <2>6, i \in 1..n
    <3>2. x \in Nat
      BY ONLY <1>14, <2>6, <3>1
    <3> QED
      BY ONLY <1>13, <2>6, <3>2, i \in 1..n
  <2>8. ASSUME EvenEscapes(m)
        PROVE  y = x + 1 /\ G[y] = Got(m)
    <3>1. PICK z : z = Got(m)
      OBVIOUS
    <3>2. d = <<z>>
      BY ONLY <2>5, <2>6, <2>8, <3>1
    <3>3. Len(d) = 1 /\ d[1] = z /\ 1 \in 1..Len(d)
      BY ONLY <3>2
    <3> QED
      BY ONLY <2>7, <3>1, <3>3
  <2>9. ASSUME ~EvenEscapes(m)
        PROVE  y = x
    <3>1. d = <<>>
      BY ONLY <2>5, <2>6, <2>9
    <3>2. Len(d) = 0
      BY ONLY <3>1
    <3> QED
      BY ONLY <2>7, <3>2
  <2>10. /\ at[i] = at[i - 1] + Len(FrameOf(ms[i]))
         /\ \A k \in 1..Len(FrameOf(ms[i])) : W[at[i - 1] + k] = FrameOf(ms[i])[k]
    BY ONLY <2>1, <2>4
  <2> QED
    BY ONLY <2>1, <2>2, <2>6, <2>8, <2>9, <2>10
<1>16. Laid(W, ms, at, G, g)
  <2> HIDE DEF one
  <2> QED
    BY ONLY <1>1, <1>2, <1>6, <1>11, <1>12, <1>13, <1>14, <1>15 DEF Laid
<1>17. \A i \in 0..Len(ms) : at[i] = Len(FlattenSeq(SubSeq(fr, 1, i)))
  BY ONLY <1>1, <1>12
<1> HIDE DEF one
<1> QED
  BY ONLY <1>16, <1>17 DEF LaidOut

-----------------------------------------------------------------------------
(* The inductive invariant: what is written down is laid out; r bytes have  *)
(* been read and c frames of them are complete; buf is what is read behind  *)
(* p; the first h messages have been handled, and the others are on their   *)
(* way to cmdHandle.                                                        *)
Laying(W, at, G, g) ==
  /\ stream \in Streams
  /\ frames = [i \in DOMAIN stream |-> FrameOf(stream[i])]
  /\ W = FlattenSeq(frames)
  /\ Laid(W, stream, at, G, g)
  /\ \A i \in 0..Len(stream) : at[i] = Len(FlattenSeq(SubSeq(frames, 1, i)))

Reading(W, at, r, c, p) ==
  /\ Complete(r, stream, at, c) /\ Stands(p, at, c)
  /\ wire = SubSeq(W, r + 1, Len(W))
  /\ buf = SubSeq(W, p + 1, r)

Passing(G, g, c, h) ==
  /\ h \in Nat /\ h <= g[c]
  /\ datach = SubSeq(G, h + 1, g[c])
  /\ handled = [k \in 1..h |-> Parse(G[k])]

FramesInv ==
  \E W, at, G, g : /\ Laying(W, at, G, g)
                   /\ \E r, c, p, h : Reading(W, at, r, c, p) /\ Passing(G, g, c, h)

LEMMA FramesInit == Init => FramesInv
<1> SUFFICES ASSUME Init
             PROVE  FramesInv
  OBVIOUS
<1>1. /\ stream \in Streams /\ frames = [i \in DOMAIN stream |-> FrameOf(stream[i])]
      /\ wire = FlattenSeq(frames) /\ buf = <<>> /\ datach = <<>> /\ handled = <<>>
  BY DEF Init
<1>2. stream \in Seq(Message) /\ \A i \in 1..Len(stream) : Good(stream[i])
  BY ONLY <1>1, GoodStream
<1>3. PICK W : W = FlattenSeq(frames)
  OBVIOUS
<1>4. PICK at, G, g : /\ Laid(W, stream, at, G, g)
                      /\ \A i \in 0..Len(stream) : at[i] = Len(FlattenSeq(SubSeq(frames, 1, i)))
  <2>1. LaidOut(W, stream, frames)
    <3>1. frames = [i \in DOMAIN stream |-> FrameOf(stream[i])]
      BY ONLY <1>1
    <3> QED
      BY ONLY <1>2, <1>3, <3>1, LaidExists
  <2> QED
    BY ONLY <2>1 DEF LaidOut
<1>5. Laying(W, at, G, g)
  BY ONLY <1>1, <1>3, <1>4 DEF Laying
<1>6. /\ W \in Seq(Nat) /\ Len(stream) \in Nat /\ G \in Seq(Gots) /\ at[0] = 0 /\ g[0] = 0
      /\ \A i \in 0..Len(stream) : at[i] \in Nat /\ g[i] \in Nat
  BY ONLY <1>4 DEF Laid
<1>7. Complete(0, stream, at, 0)
  <2>1. 0 \in 0..Len(stream) /\ Len(stream) \in 0..Len(stream)
    BY ONLY <1>6
  <2>2. at[0] <= 0 /\ 0 <= at[Len(stream)]
    BY ONLY <1>6, <2>1
  <2>3. ASSUME 0 < Len(stream)
        PROVE  0 < at[0 + 1]
    <3>1. PICK i : i = 0
      OBVIOUS
    <3>2. i \in 0..(Len(stream) - 1)
      BY ONLY <1>6, <2>3, <3>1
    <3>3. PICK o, e, m : o = at[i] /\ e = at[i + 1] /\ m = stream[i + 1]
      OBVIOUS
    <3>4. Sits(W, m, o, e)
      BY ONLY <1>4, <3>2, <3>3, LaidFrame
    <3>5. o \in Nat /\ e \in Nat /\ e >= o + 20
      BY ONLY <3>4 DEF Sits
    <3>6. 0 < e
      BY ONLY <3>5
    <3> QED
      BY ONLY <3>1, <3>3, <3>6
  <2> QED
    BY ONLY <2>1, <2>2, <2>3 DEF Complete
<1>8. Reading(W, at, 0, 0, 0)
  <2>1. Stands(0, at, 0)
    BY ONLY <1>6 DEF Stands
  <2>2. wire = SubSeq(W, 0 + 1, Len(W)) /\ buf = SubSeq(W, 0 + 1, 0)
    BY ONLY <1>1, <1>3, <1>6
  <2> QED
    BY ONLY <1>7, <2>1, <2>2 DEF Reading
<1>9. Passing(G, g, 0, 0)
  <2>1. datach = SubSeq(G, 0 + 1, g[0])
    BY ONLY <1>1, <1>6
  <2>2. handled = [k \in 1..0 |-> Parse(G[k])]
    BY ONLY <1>1
  <2> QED
    BY ONLY <1>6, <2>1, <2>2 DEF Passing
<1> QED
  BY ONLY <1>5, <1>8, <1>9 DEF FramesInv

LEMMA CompleteExists ==
  ASSUME NEW W, NEW ms, NEW at, NEW G, NEW g, Laid(W, ms, at, G, g),
         NEW s, NEW j, Complete(s, ms, at, j), NEW r \in Nat, s <= r, r <= Len(W)
  PROVE  \E c : Complete(r, ms, at, c) /\ j \in 0..c
<1>1. /\ W \in Seq(Nat) /\ Len(ms) \in Nat
      /\ \A i \in 0..Len(ms) : at[i] \in Nat
      /\ at[Len(ms)] = Len(W)
  BY ONLY Laid(W, ms, at, G, g) DEF Laid
<1>2. j \in 0..Len(ms) /\ at[j] <= s /\ s \in Nat
  BY ONLY Complete(s, ms, at, j) DEF Complete
<1> DEFINE T == {k \in Nat : k >= j /\ k <= Len(ms) /\ (k < Len(ms) => r < at[k + 1])}
<1>3. T # {} /\ T \subseteq Nat
  <2>1. Len(ms) \in T
    BY ONLY <1>1, <1>2
  <2> QED
    BY <2>1
<1>4. PICK c \in T : \A y \in T : c <= y
  <2> HIDE DEF T
  <2> QED
    BY ONLY <1>3, LeastElement
<1>5. c \in Nat /\ c >= j /\ c <= Len(ms) /\ (c < Len(ms) => r < at[c + 1])
  BY <1>4
<1>6. at[c] <= r
  <2>1. CASE c = j
    <3>1. PICK x : x = at[j]
      OBVIOUS
    <3>2. x \in Nat /\ x <= s
      BY ONLY <1>1, <1>2, <3>1
    <3>3. x <= r
      BY ONLY <1>2, <3>2, r \in Nat, s <= r
    <3> QED
      BY ONLY <2>1, <3>1, <3>3
  <2>2. CASE c # j
    <3>1. PICK k : k = c - 1
      OBVIOUS
    <3>2. k \in Nat /\ k >= j /\ k < Len(ms) /\ k + 1 = c /\ k <= Len(ms) /\ ~(c <= k) /\ c \in 0..Len(ms)
      BY ONLY <1>1, <1>2, <1>5, <2>2, <3>1
    <3>3. k \notin T
      <4> HIDE DEF T
      <4> QED
        BY ONLY <1>4, <3>2
    <3>4. ~(r < at[k + 1])
      BY <3>2, <3>3
    <3>5. PICK x : x = at[c]
      OBVIOUS
    <3>6. x \in Nat /\ ~(r < x)
      BY ONLY <1>1, <3>2, <3>4, <3>5
    <3>7. x <= r
      BY ONLY <3>6, r \in Nat
    <3> QED
      BY ONLY <3>5, <3>7
  <2> QED
    BY ONLY <2>1, <2>2
<1>7. j \in 0..c /\ c \in 0..Len(ms)
  BY ONLY <1>1, <1>2, <1>5
<1>8. Complete(r, ms, at, c)
  BY ONLY <1>1, <1>5, <1>6, <1>7, r \in Nat, r <= Len(W) DEF Complete
<1> QED
  BY ONLY <1>7, <1>8

(* k more bytes of W.                                                       *)
Advances(W, w, p, r, k) ==
  /\ r + k <= Len(W)
  /\ SubSeq(W, p + 1, r) \o SubSeq(w, 1, k) = SubSeq(W, p + 1, r + k)
  /\ SubSeq(w, k + 1, Len(w)) = SubSeq(W, r + k + 1, Len(W))

LEMMA ReadsOn ==
  ASSUME NEW W \in Seq(Nat), NEW p \in Nat, NEW r \in Nat, NEW k \in Nat, p <= r,
         r <= Len(W), NEW w, w = SubSeq(W, r + 1, Len(W)), k <= Len(w)
  PROVE  Advances(W, w, p, r, k)
<1>1. PICK N : N = Len(W)
  OBVIOUS
<1>2. N \in Nat /\ r <= N /\ N <= Len(W) /\ w = SubSeq(W, r + 1, N)
  BY <1>1
<1>3. Window(w, W, r, N)
  BY ONLY W \in Seq(Nat), r \in Nat, <1>2, WindowIs
<1>4. w \in Seq(Nat) /\ Len(w) = N - r /\ \A x \in 1..(N - r) : w[x] = W[r + x]
  BY ONLY <1>3 DEF Window
<1>5. PICK s : s = r + k
  OBVIOUS
<1>6. s \in Nat /\ s <= N /\ s - r = k /\ s <= Len(W) /\ r <= s /\ k \in 0..Len(w)
  <2>1. k <= N - r
    BY ONLY <1>4, k <= Len(w)
  <2>2. s \in Nat /\ s <= N /\ s - r = k /\ r <= s /\ k \in 0..(N - r)
    BY ONLY <1>2, <1>5, <2>1, r \in Nat, k \in Nat
  <2> QED
    BY ONLY <1>1, <1>4, <2>2
<1>7. Window(SubSeq(w, k + 1, Len(w)), W, s, N)
  BY ONLY W \in Seq(Nat), <1>3, <1>5, <1>6, WindowRest
<1>8. SubSeq(w, k + 1, Len(w)) = SubSeq(W, s + 1, N)
  BY ONLY <1>7 DEF Window
<1>9. PICK u, v : u = SubSeq(w, 1, k) /\ v = SubSeq(W, r + 1, s)
  OBVIOUS
<1>10. u = v
  <2>1. Window(v, W, r, s)
    BY ONLY W \in Seq(Nat), r \in Nat, <1>6, <1>9, WindowIs
  <2>2. v \in Seq(Nat) /\ Len(v) = s - r /\ \A x \in 1..(s - r) : v[x] = W[r + x]
    BY ONLY <2>1 DEF Window
  <2>3. /\ u \in Seq(Nat) /\ Len(u) = k /\ \A x \in 1..k : u[x] = w[x]
    <3>1. /\ SubSeq(w, 1, k) \in Seq(Nat) /\ Len(SubSeq(w, 1, k)) = k
          /\ \A i \in 1..k : SubSeq(w, 1, k)[i] = w[i]
          /\ \A i \in 1..k : \A a \in 1..i : SubSeq(SubSeq(w, 1, k), a, i) = SubSeq(w, a, i)
      BY ONLY <1>4, <1>6, Prefix
    <3> QED
      BY ONLY <1>9, <3>1
  <2>4. \A x \in 1..k : x \in 1..(N - r)
    BY ONLY <1>2, <1>5, <1>6, r \in Nat, k \in Nat
  <2>5. \A x \in 1..Len(v) : u[x] = v[x]
    BY ONLY <1>4, <1>6, <2>2, <2>3, <2>4
  <2> QED
    BY ONLY <1>6, <2>2, <2>3, <2>5, SeqEqual
<1>11. SubSeq(W, p + 1, r) \o SubSeq(W, r + 1, s) = SubSeq(W, p + 1, s)
  <2>1. s \in Nat /\ r <= s /\ s <= Len(W)
    BY ONLY <1>6
  <2> QED
    BY ONLY W \in Seq(Nat), p \in Nat, r \in Nat, <2>1, p <= r, Spliced
<1> QED
  BY ONLY <1>1, <1>5, <1>6, <1>8, <1>9, <1>10, <1>11 DEF Advances

LEMMA ReadKeeps ==
  ASSUME FramesInv, NEW k \in Chunks, Read(k)
  PROVE  FramesInv'
<1>1. PICK W, at, G, g : /\ Laying(W, at, G, g)
                         /\ \E r, c, p, h : Reading(W, at, r, c, p) /\ Passing(G, g, c, h)
  BY ONLY FramesInv DEF FramesInv
<1>2. PICK r, c, p, h : Reading(W, at, r, c, p) /\ Passing(G, g, c, h)
  BY ONLY <1>1
<1>3. Laid(W, stream, at, G, g)
  BY ONLY <1>1 DEF Laying
<1>4. /\ W \in Seq(Nat) /\ Len(stream) \in Nat /\ G \in Seq(Gots)
      /\ \A i \in 0..Len(stream) : at[i] \in Nat /\ g[i] \in Nat
      /\ \A i \in 0..Len(stream) : at[i] <= Len(W) /\ g[i] <= Len(G)
  BY ONLY <1>3, LaidTypes
<1>5. /\ Complete(r, stream, at, c) /\ Stands(p, at, c)
      /\ wire = SubSeq(W, r + 1, Len(W)) /\ buf = SubSeq(W, p + 1, r)
  BY ONLY <1>2 DEF Reading
<1>6. /\ h \in Nat /\ h <= g[c] /\ datach = SubSeq(G, h + 1, g[c])
      /\ handled = [x \in 1..h |-> Parse(G[x])]
  BY ONLY <1>2 DEF Passing
<1>7. r \in Nat /\ c \in 0..Len(stream) /\ at[c] <= r /\ r <= at[Len(stream)]
  BY ONLY <1>5 DEF Complete
<1>8. p \in Nat /\ p <= r /\ r <= Len(W)
  <2>1. PICK x, y : x = at[c] /\ y = at[Len(stream)]
    OBVIOUS
  <2>2. x \in Nat /\ y \in Nat /\ y <= Len(W) /\ x <= r /\ r <= y
    <3>1. Len(stream) \in 0..Len(stream)
      BY ONLY <1>4
    <3> QED
      BY ONLY <1>4, <1>7, <2>1, <3>1
  <2>3. p \in Nat /\ (p = x \/ p + 1 = x)
    BY ONLY <1>5, <2>1 DEF Stands
  <2>4. Len(W) \in Nat
    BY ONLY <1>4
  <2> QED
    BY ONLY <1>7, <2>2, <2>3, <2>4
<1>9. /\ k <= Len(wire)
      /\ buf' = Sorted(buf \o SubSeq(wire, 1, k)).left
      /\ datach' = datach \o Sorted(buf \o SubSeq(wire, 1, k)).msgs
      /\ wire' = SubSeq(wire, k + 1, Len(wire))
      /\ stream' = stream /\ frames' = frames /\ handled' = handled
  BY ONLY Read(k), Zenon DEF Read
<1>10. k \in Nat
  <2>1. Chunks \subseteq Nat \ {0}
    BY SMT, FramesAssumption
  <2> QED
    BY ONLY <2>1, k \in Chunks
<1>11. /\ r + k <= Len(W)
       /\ SubSeq(W, p + 1, r) \o SubSeq(wire, 1, k) = SubSeq(W, p + 1, r + k)
       /\ SubSeq(wire, k + 1, Len(wire)) = SubSeq(W, r + k + 1, Len(W))
  <2>1. wire = SubSeq(W, r + 1, Len(W)) /\ k <= Len(wire) /\ W \in Seq(Nat)
    BY ONLY <1>4, <1>5, <1>9
  <2> QED
    <3>1. W \in Seq(Nat) /\ p \in Nat /\ r \in Nat /\ k \in Nat /\ p <= r /\ r <= Len(W)
      BY ONLY <1>4, <1>7, <1>8, <1>10
    <3>2. wire = SubSeq(W, r + 1, Len(W)) /\ k <= Len(wire)
      BY ONLY <2>1
    <3>3. Advances(W, wire, p, r, k)
      BY ONLY <3>1, <3>2, ReadsOn
    <3> QED
      BY ONLY <3>3 DEF Advances
<1>12. PICK s, b : s = r + k /\ b = SubSeq(W, p + 1, s)
  OBVIOUS
<1>13. s \in Nat /\ r <= s /\ p <= s /\ s <= Len(W)
  BY ONLY <1>7, <1>8, <1>10, <1>11, <1>12
<1>14. PICK e : Complete(s, stream, at, e) /\ c \in 0..e
  BY ONLY <1>3, <1>5, <1>13, CompleteExists
<1>15. Window(b, W, p, s)
  BY ONLY <1>4, <1>8, <1>12, <1>13, WindowIs
<1>16. SortedTo(Sorted(b), W, p, s, at, G, g, c, e)
  BY ONLY <1>3, <1>5, <1>14, <1>15, SortedRun
<1>17. PICK q \in Nat : /\ p <= q /\ q <= s /\ Stands(q, at, e)
                        /\ Sorted(b).left = SubSeq(W, q + 1, s)
                        /\ Sorted(b).msgs = SubSeq(G, g[c] + 1, g[e])
  BY ONLY <1>16 DEF SortedTo
<1>18. buf \o SubSeq(wire, 1, k) = b
  BY ONLY <1>5, <1>11, <1>12
<1>19. Reading(W, at, s, e, q)'
  <2>1. buf' = SubSeq(W, q + 1, s)
    BY ONLY <1>9, <1>17, <1>18
  <2>2. wire' = SubSeq(W, s + 1, Len(W))
    BY ONLY <1>9, <1>11, <1>12
  <2>3. Complete(s, stream', at, e)
    BY ONLY <1>9, <1>14
  <2> QED
    BY ONLY <1>17, <2>1, <2>2, <2>3 DEF Reading
<1>20. /\ g[c] \in Nat /\ g[e] \in Nat /\ g[c] <= g[e] /\ g[e] <= Len(G)
  <2>1. e \in 0..Len(stream)
    BY ONLY <1>14 DEF Complete
  <2>2. /\ \A i \in 0..Len(stream) : \A j \in i..Len(stream) : at[i] <= at[j]
        /\ \A i \in 0..Len(stream) : \A j \in i..Len(stream) : g[i] <= g[j]
    BY ONLY <1>3, LaidClimbs
  <2>3. e \in c..Len(stream)
    BY ONLY <1>4, <1>7, <1>14, <2>1
  <2> QED
    BY ONLY <1>4, <1>7, <2>1, <2>2, <2>3
<1>21. PICK x, y : x = g[c] /\ y = g[e]
  OBVIOUS
<1>22. datach' = SubSeq(G, h + 1, y)
  <2>1. SubSeq(G, h + 1, x) \o SubSeq(G, x + 1, y) = SubSeq(G, h + 1, y)
    <3>1. G \in Seq(Gots) /\ h \in Nat /\ x \in Nat /\ y \in Nat /\ h <= x /\ x <= y /\ y <= Len(G)
      BY ONLY <1>4, <1>6, <1>20, <1>21
    <3> QED
      BY ONLY <3>1, Spliced
  <2>2. datach = SubSeq(G, h + 1, x) /\ Sorted(b).msgs = SubSeq(G, x + 1, y)
    BY ONLY <1>6, <1>17, <1>21
  <2>3. datach' = datach \o Sorted(b).msgs
    BY ONLY <1>9, <1>18
  <2> QED
    BY ONLY <2>1, <2>2, <2>3
<1>23. Passing(G, g, e, h)'
  <2>1. h <= g[e]
    <3>1. h <= x /\ x <= y /\ x \in Nat /\ y \in Nat
      BY ONLY <1>6, <1>20, <1>21
    <3>2. h <= y
      BY ONLY <1>6, <3>1
    <3> QED
      BY ONLY <1>21, <3>2
  <2>2. handled' = [z \in 1..h |-> Parse(G[z])]
    BY ONLY <1>6, <1>9
  <2> QED
    BY ONLY <1>6, <1>21, <1>22, <2>1, <2>2 DEF Passing
<1>24. Laying(W, at, G, g)'
  BY ONLY <1>1, <1>9 DEF Laying
<1> QED
  BY ONLY <1>19, <1>23, <1>24 DEF FramesInv

LEMMA HandleKeeps ==
  ASSUME FramesInv, cmdHandle
  PROVE  FramesInv'
<1>1. PICK W, at, G, g : /\ Laying(W, at, G, g)
                         /\ \E r, c, p, h : Reading(W, at, r, c, p) /\ Passing(G, g, c, h)
  BY ONLY FramesInv DEF FramesInv
<1>2. PICK r, c, p, h : Reading(W, at, r, c, p) /\ Passing(G, g, c, h)
  BY ONLY <1>1
<1>3. Laid(W, stream, at, G, g)
  BY ONLY <1>1 DEF Laying
<1>4. /\ W \in Seq(Nat) /\ Len(stream) \in Nat /\ G \in Seq(Gots)
      /\ \A i \in 0..Len(stream) : at[i] \in Nat /\ g[i] \in Nat
      /\ \A i \in 0..Len(stream) : at[i] <= Len(W) /\ g[i] <= Len(G)
  BY ONLY <1>3, LaidTypes
<1>5. /\ h \in Nat /\ h <= g[c] /\ datach = SubSeq(G, h + 1, g[c])
      /\ handled = [x \in 1..h |-> Parse(G[x])]
  BY ONLY <1>2 DEF Passing
<1>6. c \in 0..Len(stream)
  BY ONLY <1>2 DEF Reading, Complete
<1>7. /\ datach # <<>> /\ datach' = Tail(datach)
      /\ handled' = Append(handled, Parse(Head(datach)))
      /\ stream' = stream /\ frames' = frames /\ wire' = wire /\ buf' = buf
  BY ONLY cmdHandle, Zenon DEF cmdHandle
<1>8. PICK y : y = g[c]
  OBVIOUS
<1>9. y \in Nat /\ y <= Len(G) /\ h <= y
  BY ONLY <1>4, <1>5, <1>6, <1>8
<1>10. PICK j : j = h + 1
  OBVIOUS
<1>11. h # y
  <2> SUFFICES ASSUME h = y
               PROVE  FALSE
    OBVIOUS
  <2>1. SubSeq(G, h + 1, h) = <<>>
    BY ONLY <1>4, <1>5, <1>9, h = y, NothingLeft
  <2> QED
    BY ONLY <1>5, <1>7, <1>8, <2>1, h = y
<1>12. j \in Nat /\ j <= y /\ j \in 1..(Len(G) + 1) /\ y \in (j - 1)..Len(G) /\ j \in 1..Len(G)
  <2>1. Len(G) \in Nat
    BY ONLY <1>4
  <2> QED
    BY ONLY <1>5, <1>9, <1>10, <1>11, <2>1
<1>13. /\ datach \in Seq(Gots) /\ Len(datach) = y - j + 1
       /\ \A x \in 1..(y - j + 1) : datach[x] = G[j + x - 1]
  <2>1. /\ SubSeq(G, j, y) \in Seq(Gots) /\ Len(SubSeq(G, j, y)) = y - j + 1
        /\ \A x \in 1..(y - j + 1) : SubSeq(G, j, y)[x] = G[j + x - 1]
    BY ONLY <1>4, <1>12, Cut
  <2> QED
    BY ONLY <1>5, <1>8, <1>10, <2>1
<1>14. Head(datach) = G[j]
  <2>1. 1 \in 1..(y - j + 1) /\ j + 1 - 1 = j
    BY ONLY <1>9, <1>12
  <2>2. datach[1] = G[j]
    BY ONLY <1>13, <2>1
  <2> QED
    BY ONLY <1>13, <2>2
<1>15. Tail(datach) = SubSeq(G, j + 1, y)
  <2>1. PICK u : u = SubSeq(G, j + 1, y)
    OBVIOUS
  <2>2. /\ u \in Seq(Gots) /\ Len(u) = y - j
        /\ \A x \in 1..(y - j) : u[x] = G[j + x]
    <3>1. PICK a : a = j + 1
      OBVIOUS
    <3>2. a \in 1..(Len(G) + 1) /\ y \in (a - 1)..Len(G) /\ y - a + 1 = y - j
          /\ \A x \in 1..(y - j) : a + x - 1 = j + x
      BY ONLY <1>4, <1>9, <1>12, <3>1
    <3>3. /\ SubSeq(G, a, y) \in Seq(Gots) /\ Len(SubSeq(G, a, y)) = y - a + 1
          /\ \A x \in 1..(y - a + 1) : SubSeq(G, a, y)[x] = G[a + x - 1]
      BY ONLY <1>4, <3>2, Cut
    <3> QED
      BY ONLY <2>1, <3>1, <3>2, <3>3
  <2>3. PICK t : t = Tail(datach)
    OBVIOUS
  <2>4. t \in Seq(Gots) /\ Len(t) = y - j
        /\ \A x \in 1..(y - j) : t[x] = datach[x + 1]
    BY ONLY <1>9, <1>12, <1>13, <2>3
  <2>5. \A x \in 1..Len(t) : t[x] = u[x]
    <3> SUFFICES ASSUME NEW x \in 1..Len(t)
                 PROVE  t[x] = u[x]
      OBVIOUS
    <3>1. x \in 1..(y - j)
      BY ONLY <2>4, x \in 1..Len(t)
    <3>2. x + 1 \in 1..(y - j + 1) /\ j + (x + 1) - 1 = j + x
      BY ONLY <1>9, <1>12, <3>1
    <3> QED
      BY ONLY <1>13, <2>2, <2>4, <3>1, <3>2
  <2>6. t = u
    <3>1. Len(u) = Len(t)
      BY ONLY <2>2, <2>4
    <3> QED
      BY ONLY <2>2, <2>4, <2>5, <3>1, SeqEqual
  <2> QED
    BY ONLY <2>1, <2>3, <2>6
<1>16. handled' = [x \in 1..j |-> Parse(G[x])]
  <2> DEFINE R == {Parse(x) : x \in Gots}
  <2>1. PICK v, z : v = [x \in 1..j |-> Parse(G[x])] /\ z = Parse(G[j])
    OBVIOUS
  <2>2. \A x \in 1..j : Parse(G[x]) \in R
    <3>1. \A x \in 1..j : G[x] \in Gots
      BY ONLY <1>4, <1>9, <1>12
    <3> QED
      BY <3>1
  <2> HIDE DEF R
  <2>3. v \in Seq(R) /\ Len(v) = j /\ \A x \in 1..j : v[x] = Parse(G[x])
    BY ONLY <1>12, <2>1, <2>2
  <2>4. \A x \in 1..h : x \in 1..j
    BY ONLY <1>5, <1>10
  <2>5. handled \in Seq(R) /\ Len(handled) = h /\ \A x \in 1..h : handled[x] = Parse(G[x])
    BY ONLY <1>5, <2>2, <2>4
  <2>6. z \in R
    <3>1. j \in 1..j
      BY ONLY <1>12
    <3> QED
      BY ONLY <2>1, <2>2, <3>1
  <2>7. PICK u : u = Append(handled, z)
    OBVIOUS
  <2>8. /\ u \in Seq(R) /\ Len(u) = h + 1 /\ u[h + 1] = z
        /\ \A x \in 1..h : u[x] = handled[x]
    BY ONLY <1>5, <2>5, <2>6, <2>7
  <2>9. \A x \in 1..Len(u) : u[x] = v[x]
    <3> SUFFICES ASSUME NEW x \in 1..Len(u)
                 PROVE  u[x] = v[x]
      OBVIOUS
    <3>1. x \in 1..j /\ (x \in 1..h \/ x = j)
      BY ONLY <1>5, <1>10, <2>8, x \in 1..Len(u)
    <3> QED
      BY ONLY <1>10, <2>1, <2>3, <2>5, <2>8, <3>1
  <2>10. u = v
    <3>1. Len(v) = Len(u)
      BY ONLY <1>10, <2>3, <2>8
    <3> QED
      BY ONLY <2>3, <2>8, <2>9, <3>1, SeqEqual
  <2> QED
    BY ONLY <1>7, <1>14, <2>1, <2>7, <2>10
<1>17. Passing(G, g, c, j)'
  BY ONLY <1>7, <1>8, <1>12, <1>15, <1>16 DEF Passing
<1>18. Reading(W, at, r, c, p)'
  BY ONLY <1>2, <1>7 DEF Reading
<1>19. Laying(W, at, G, g)'
  BY ONLY <1>1, <1>7 DEF Laying
<1> QED
  BY ONLY <1>17, <1>18, <1>19 DEF FramesInv

(* The frames are taken apart in the order they were put together in.       *)
THEOREM FramesInductive == Spec => []FramesInv
<1>1. FramesInv /\ [Next]_vars => FramesInv'
  <2> SUFFICES ASSUME FramesInv, [Next]_vars
               PROVE  FramesInv'
    OBVIOUS
  <2>1. CASE cmdHandle
    BY ONLY FramesInv, <2>1, HandleKeeps
  <2>2. ASSUME NEW k \in Chunks, Read(k)
        PROVE  FramesInv'
    BY ONLY FramesInv, <2>2, ReadKeeps
  <2>3. CASE UNCHANGED vars
    <3>1. PICK W, at, G, g : /\ Laying(W, at, G, g)
                             /\ \E r, c, p, h : Reading(W, at, r, c, p) /\ Passing(G, g, c, h)
      BY ONLY FramesInv DEF FramesInv
    <3>2. PICK r, c, p, h : Reading(W, at, r, c, p) /\ Passing(G, g, c, h)
      BY ONLY <3>1
    <3>3. /\ stream' = stream /\ frames' = frames /\ wire' = wire /\ buf' = buf
          /\ datach' = datach /\ handled' = handled
      BY ONLY <2>3 DEF vars
    <3>4. Laying(W, at, G, g)'
      BY ONLY <3>1, <3>3 DEF Laying
    <3>5. Reading(W, at, r, c, p)'
      BY ONLY <3>2, <3>3 DEF Reading
    <3>6. Passing(G, g, c, h)'
      BY ONLY <3>2, <3>3 DEF Passing
    <3> QED
      BY ONLY <3>4, <3>5, <3>6 DEF FramesInv
  <2> QED
    BY <2>1, <2>2, <2>3 DEF Next
<1> QED
  BY <1>1, FramesInit, PTL DEF Spec

-----------------------------------------------------------------------------
(* What is due: the messages of the complete frames with an even number of  *)
(* escapes.                                                                 *)
Matches(due, G, n) ==
  /\ Len(due) = n
  /\ \A k \in 1..n : \E i \in 1..Len(stream) : due[k] = stream[i] /\ G[k] = Got(stream[i])

LEMMA DueIs ==
  ASSUME NEW W, NEW at, NEW G, NEW g, Laying(W, at, G, g),
         NEW r, NEW c, NEW p, Reading(W, at, r, c, p)
  PROVE  Matches(Deliverable, G, g[c])
<1>1. /\ stream \in Streams
      /\ frames = [i \in DOMAIN stream |-> FrameOf(stream[i])]
      /\ Laid(W, stream, at, G, g)
      /\ \A i \in 0..Len(stream) : at[i] = Len(FlattenSeq(SubSeq(frames, 1, i)))
  BY ONLY Laying(W, at, G, g) DEF Laying
<1>2. Complete(r, stream, at, c) /\ wire = SubSeq(W, r + 1, Len(W))
  BY ONLY Reading(W, at, r, c, p) DEF Reading
<1>3. PICK n : n = Len(stream)
  OBVIOUS
<1>4. stream \in Seq(Message) /\ n \in Nat /\ DOMAIN stream = 1..n
  <2>1. stream \in Seq(Message) /\ \A i \in 1..Len(stream) : Good(stream[i])
    BY ONLY <1>1, GoodStream
  <2> QED
    BY ONLY <1>3, <2>1
<1>5. /\ W \in Seq(Nat) /\ at[n] = Len(W) /\ g[0] = 0
      /\ \A i \in 0..n : at[i] \in Nat /\ g[i] \in Nat
      /\ \A i \in 1..n : /\ EvenEscapes(stream[i]) => /\ g[i] = g[i - 1] + 1
                                                      /\ G[g[i]] = Got(stream[i])
                         /\ ~EvenEscapes(stream[i]) => g[i] = g[i - 1]
  BY ONLY <1>1, <1>3 DEF Laid
<1>6. /\ r \in Nat /\ c \in 0..n /\ at[c] <= r /\ r <= at[n]
      /\ c < n => r < at[c + 1]
  BY ONLY <1>2, <1>3 DEF Complete
<1>7. \A i \in 0..n : \A k \in i..n : at[i] <= at[k]
  <2>1. /\ \A i \in 0..Len(stream) : \A k \in i..Len(stream) : at[i] <= at[k]
        /\ \A i \in 0..Len(stream) : \A k \in i..Len(stream) : g[i] <= g[k]
    BY ONLY <1>1, LaidClimbs
  <2> QED
    BY ONLY <1>3, <2>1
<1>8. \A i \in 0..n : End(i) = at[i]
  BY ONLY <1>1, <1>3 DEF End
<1>9. Len(frames) = n
  <2>1. frames = [i \in 1..n |-> FrameOf(stream[i])]
    BY ONLY <1>1, <1>4
  <2> QED
    BY ONLY <1>4, <2>1
<1>10. PICK read : read = End(Len(frames)) - Len(wire)
  OBVIOUS
<1>11. read = r
  <2>1. PICK N : N = Len(W)
    OBVIOUS
  <2>2. N \in Nat /\ r <= N /\ N <= Len(W) /\ wire = SubSeq(W, r + 1, N)
    BY ONLY <1>2, <1>5, <1>6, <2>1
  <2>3. Window(wire, W, r, N)
    BY ONLY <1>5, <1>6, <2>2, WindowIs
  <2>4. Len(wire) = N - r
    BY ONLY <2>3 DEF Window
  <2>5. End(Len(frames)) = N
    <3>1. n \in 0..n
      BY ONLY <1>4
    <3> QED
      BY ONLY <1>5, <1>8, <1>9, <2>1, <3>1
  <2> QED
    BY ONLY <1>6, <1>10, <2>2, <2>4, <2>5
<1> DEFINE one(i) == IF End(i) <= read /\ Escapes(frames[i]) % 2 = 0 THEN <<stream[i]>> ELSE <<>>
<1>12. PICK D : D = [i \in DOMAIN stream |-> one(i)]
  OBVIOUS
<1>13. PICK due : due = FlattenSeq(D)
  OBVIOUS
<1>14. Deliverable = due
  BY ONLY <1>10, <1>12, <1>13, Zenon DEF Deliverable
<1>15. ASSUME NEW i \in 1..n
       PROVE  /\ i <= c /\ EvenEscapes(stream[i]) => D[i] = <<stream[i]>>
              /\ ~(i <= c /\ EvenEscapes(stream[i])) => D[i] = <<>>
  <2>1. End(i) <= read <=> i <= c
    <3>1. PICK x, y : x = at[i] /\ y = at[c]
      OBVIOUS
    <3>2. i \in 0..n /\ x \in Nat /\ y \in Nat /\ End(i) = x
      <4>1. i \in 0..n
        BY ONLY <1>4, i \in 1..n
      <4> QED
        BY ONLY <1>5, <1>6, <1>8, <3>1, <4>1
    <3>3. CASE i <= c
      <4>1. c \in i..n
        BY ONLY <1>4, <1>6, <3>3, i \in 1..n
      <4>2. x <= y /\ y <= r
        BY ONLY <1>6, <1>7, <3>1, <3>2, <4>1
      <4>3. x <= r
        BY ONLY <1>6, <3>2, <4>2
      <4> QED
        BY ONLY <1>11, <3>2, <3>3, <4>3
    <3>4. CASE ~(i <= c)
      <4>1. PICK j : j = c + 1
        OBVIOUS
      <4>2. c < n /\ j \in 0..n /\ i \in j..n
        BY ONLY <1>4, <1>6, <3>4, <4>1, i \in 1..n
      <4>3. PICK z : z = at[j]
        OBVIOUS
      <4>4. z \in Nat /\ r < z /\ z <= x
        BY ONLY <1>5, <1>6, <1>7, <3>1, <4>1, <4>2, <4>3
      <4>5. ~(x <= r)
        BY ONLY <1>6, <3>2, <4>4
      <4> QED
        BY ONLY <1>11, <3>2, <3>4, <4>5
    <3> QED
      BY ONLY <3>3, <3>4
  <2>2. Escapes(frames[i]) % 2 = 0 <=> EvenEscapes(stream[i])
    BY ONLY <1>1, <1>4, i \in 1..n DEF EvenEscapes
  <2>3. D[i] = one(i)
    BY ONLY <1>4, <1>12, i \in 1..n
  <2> QED
    BY ONLY <2>1, <2>2, <2>3
<1> HIDE DEF one
<1>16. D \in Seq(Seq(Message)) /\ Len(D) = n
  <2>1. ASSUME NEW i \in 1..n
        PROVE  one(i) \in Seq(Message)
    <3>1. PICK m : m = stream[i]
      OBVIOUS
    <3>2. m \in Message
      BY ONLY <1>3, <1>4, <3>1, i \in 1..n
    <3>3. <<m>> \in Seq(Message) /\ <<>> \in Seq(Message)
      BY ONLY <3>2
    <3>4. one(i) = <<m>> \/ one(i) = <<>>
      BY ONLY <3>1 DEF one
    <3> QED
      BY ONLY <3>3, <3>4
  <2>2. D \in [1..n -> Seq(Message)]
    BY ONLY <1>4, <1>12, <2>1
  <2> QED
    BY ONLY <1>4, <2>2
<1>17. PICK e : Places(e, D, due)
  <2>1. \E e : Places(e, D, FlattenSeq(D))
    BY ONLY <1>16, FlattenPlaces
  <2> QED
    BY ONLY <1>13, <2>1
<1>18. /\ e[0] = 0 /\ e[n] = Len(due)
       /\ \A i \in 1..n : /\ e[i] = e[i - 1] + Len(D[i])
                          /\ \A k \in 1..Len(D[i]) : due[e[i - 1] + k] = D[i][k]
  BY ONLY <1>16, <1>17 DEF Places
<1> DEFINE Same(i) == (i <= c => e[i] = g[i]) /\ (c <= i => e[i] = g[c])
           S == {i \in Nat : i <= n => Same(i)}
<1>19. 0 \in S
  <2>1. c <= 0 => c = 0
    BY ONLY <1>4, <1>6
  <2> QED
    BY <1>5, <1>18, <2>1
<1>20. ASSUME NEW j \in Nat, j \in S
       PROVE  j + 1 \in S
  <2> SUFFICES ASSUME j + 1 <= n
               PROVE  Same(j + 1)
    OBVIOUS
  <2>1. PICK i : i = j + 1
    OBVIOUS
  <2>2. i \in 1..n /\ i - 1 = j /\ j <= n /\ j \in 0..n /\ i \in 0..n
    BY ONLY <1>4, <2>1, j + 1 <= n, j \in Nat
  <2>3. Same(j)
    BY <1>20, <2>2
  <2>4. e[i] = e[j] + Len(D[i])
    BY ONLY <1>18, <2>2
  <2>5. CASE i <= c
    <3>1. j <= c /\ (c <= i => c = i)
      BY ONLY <1>4, <1>6, <2>2, <2>5
    <3>2. PICK x, y : x = g[j] /\ y = g[i]
      OBVIOUS
    <3>3. e[j] = x /\ x \in Nat
      BY <1>5, <2>2, <2>3, <3>1, <3>2
    <3>4. CASE EvenEscapes(stream[i])
      <4>1. y = x + 1
        BY ONLY <1>5, <2>2, <3>2, <3>4
      <4>2. D[i] = <<stream[i]>>
        BY ONLY <1>15, <2>2, <2>5, <3>4
      <4>3. Len(D[i]) = 1
        BY ONLY <4>2
      <4>4. e[i] = y
        BY ONLY <2>4, <3>3, <4>1, <4>3
      <4> QED
        BY ONLY <2>1, <2>5, <3>1, <3>2, <4>4
    <3>5. CASE ~EvenEscapes(stream[i])
      <4>1. y = x
        BY ONLY <1>5, <2>2, <3>2, <3>5
      <4>2. D[i] = <<>>
        BY ONLY <1>15, <2>2, <3>5
      <4>3. Len(D[i]) = 0
        BY ONLY <4>2
      <4>4. e[i] = y
        BY ONLY <2>4, <3>3, <4>1, <4>3
      <4> QED
        BY ONLY <2>1, <2>5, <3>1, <3>2, <4>4
    <3> QED
      BY <3>4, <3>5
  <2>6. CASE ~(i <= c)
    <3>1. c <= j /\ c <= i
      BY ONLY <1>4, <1>6, <2>2, <2>6
    <3>2. PICK x : x = g[c]
      OBVIOUS
    <3>3. e[j] = x /\ x \in Nat
      BY <1>5, <1>6, <2>3, <3>1, <3>2
    <3>4. D[i] = <<>>
      BY ONLY <1>15, <2>2, <2>6
    <3>5. Len(D[i]) = 0
      BY ONLY <3>4
    <3>6. e[i] = x
      BY ONLY <2>4, <3>3, <3>5
    <3> QED
      BY ONLY <2>1, <2>6, <3>2, <3>6
  <2> QED
    BY <2>5, <2>6
<1>21. ASSUME NEW i \in 0..n
       PROVE  Same(i)
  <2>1. Nat \subseteq S
    <3> HIDE DEF S
    <3> QED
      BY ONLY <1>19, <1>20, SetInduction
  <2>2. i \in Nat /\ i <= n
    BY ONLY <1>4, i \in 0..n
  <2>3. i \in S
    <3> HIDE DEF S
    <3> QED
      BY ONLY <2>1, <2>2
  <2> HIDE DEF Same
  <2> QED
    BY ONLY <2>2, <2>3
<1>22. Len(due) = g[c]
  <2>1. n \in 0..n /\ c <= n
    BY ONLY <1>4, <1>6
  <2> QED
    BY <1>18, <1>21, <2>1
<1>23. ASSUME NEW k \in 1..g[c]
       PROVE  \E i \in 1..n : due[k] = stream[i] /\ G[k] = Got(stream[i])
  <2>1. Within(k, e, D)
    <3>1. due \in Seq(Message)
      BY ONLY <1>13, <1>16, FlattenType
    <3>2. \A j \in 1..Len(due) : Within(j, e, D)
      BY ONLY <1>16, <1>17, <3>1, Inside
    <3> QED
      BY ONLY <1>22, <3>2, k \in 1..g[c]
  <2>2. PICK i \in 1..n : \E j \in 1..Len(D[i]) : k = e[i - 1] + j
    BY ONLY <1>16, <2>1 DEF Within
  <2>3. PICK j \in 1..Len(D[i]) : k = e[i - 1] + j
    BY ONLY <2>2
  <2>4. i <= c /\ EvenEscapes(stream[i])
    <3> SUFFICES ASSUME ~(i <= c /\ EvenEscapes(stream[i]))
                 PROVE  FALSE
      OBVIOUS
    <3>1. D[i] = <<>>
      BY ONLY <1>15, ~(i <= c /\ EvenEscapes(stream[i])), i \in 1..n
    <3>2. Len(D[i]) = 0
      BY ONLY <3>1
    <3> QED
      BY ONLY <3>2, j \in 1..Len(D[i])
  <2>5. PICK m : m = stream[i]
    OBVIOUS
  <2>6. D[i] = <<m>>
    BY ONLY <1>15, <2>4, <2>5, i \in 1..n
  <2>7. Len(D[i]) = 1 /\ D[i][1] = m /\ j = 1
    <3>1. Len(D[i]) = 1 /\ D[i][1] = m
      BY ONLY <2>6
    <3> QED
      BY ONLY <3>1, j \in 1..Len(D[i])
  <2>8. due[k] = m
    BY ONLY <1>18, <2>3, <2>7, i \in 1..n, j \in 1..Len(D[i])
  <2>9. PICK h : h = i - 1
    OBVIOUS
  <2>10. h \in 0..n /\ h <= c
    BY ONLY <1>4, <2>4, <2>9, i \in 1..n, <1>6
  <2>11. e[h] = g[h]
    BY <1>21, <2>10
  <2>12. k = g[i]
    BY ONLY <1>5, <2>3, <2>4, <2>7, <2>9, <2>11, i \in 1..n
  <2>13. G[k] = Got(m)
    BY ONLY <1>5, <2>4, <2>5, <2>12, i \in 1..n
  <2> QED
    BY ONLY <2>5, <2>8, <2>13, i \in 1..n
<1> QED
  BY ONLY <1>3, <1>14, <1>22, <1>23 DEF Matches

-----------------------------------------------------------------------------
(* The header of a message as it is passed on.                              *)
Header(m, h) ==
  /\ h \in Seq(Nat) /\ Len(h) = HeaderLen(m)
  /\ SubSeq(h, 1, 2) = U16(m.id) /\ h[1] = m.id \div 256 /\ h[2] = m.id % 256
  /\ SubSeq(h, 3, 4) = Props(m)
  /\ SubSeq(h, 6, 15) = Phone /\ SubSeq(h, 16, 17) = m.serial
  /\ SubSeq(h, 6, 17) = Phone \o m.serial

LEMMA PairIs ==
  ASSUME NEW s \in Seq(Nat), NEW i \in Nat, i + 2 <= Len(s), NEW x, x = s[i + 1],
         NEW y, y = s[i + 2]
  PROVE  SubSeq(s, i + 1, i + 2) = <<x, y>>
<1>1. PICK u : u = SubSeq(s, i + 1, i + 2)
  OBVIOUS
<1>2. 2 \in Nat /\ 1 \in 1..2 /\ 2 \in 1..2 /\ \A k \in 1..2 : k = 1 \/ k = 2
  BY SMT
<1>3. u \in Seq(Nat) /\ Len(u) = 2 /\ \A k \in 1..2 : u[k] = s[i + k]
  <2>1. PICK n : n = 2
    OBVIOUS
  <2>2. n \in Nat /\ i + n <= Len(s)
    BY ONLY <1>2, <2>1, i + 2 <= Len(s)
  <2>3. /\ SubSeq(s, i + 1, i + n) \in Seq(Nat) /\ Len(SubSeq(s, i + 1, i + n)) = n
        /\ \A k \in 1..n : SubSeq(s, i + 1, i + n)[k] = s[i + k]
    BY ONLY s \in Seq(Nat), i \in Nat, <2>2, Slice
  <2> QED
    BY ONLY <1>1, <2>1, <2>3
<1>4. u[1] = x /\ u[2] = y
  BY ONLY <1>2, <1>3, x = s[i + 1], y = s[i + 2]
<1>5. u = <<x, y>>
  BY ONLY <1>3, <1>4
<1> QED
  BY ONLY <1>1, <1>5

(* What a header of N bytes has in its places.                              *)
Placed(h, Z, N) ==
  /\ h \in Seq(Nat) /\ Len(h) = N /\ N >= 17
  /\ \A i \in 1..N : h[i] = Z[i]
  /\ SubSeq(h, 1, 2) = <<Z[1], Z[2]>> /\ SubSeq(h, 3, 4) = <<Z[3], Z[4]>>
  /\ SubSeq(h, 6, 15) = Phone /\ SubSeq(h, 16, 17) = <<Z[16], Z[17]>>

LEMMA HeaderPlaces ==
  ASSUME NEW Z \in Seq(Nat), NEW N \in {17, 21}, N <= Len(Z),
         \A i \in 1..10 : Z[5 + i] = Phone[i], NEW h, h = SubSeq(Z, 1, N)
  PROVE  Placed(h, Z, N)
<1>1. PICK l : l = Len(Z)
  OBVIOUS
<1>2. N \in Nat /\ N >= 17 /\ N \in 0..Len(Z)
  <2>1. l \in Nat /\ N <= l
    BY ONLY <1>1, Z \in Seq(Nat), N <= Len(Z), SMT
  <2>2. N \in Nat /\ N >= 17 /\ N \in 0..l
    BY ONLY <2>1, N \in {17, 21}, SMT
  <2> QED
    BY ONLY <1>1, <2>2
<1>3. h \in Seq(Nat) /\ Len(h) = N /\ \A i \in 1..N : h[i] = Z[i]
  <2>1. /\ SubSeq(Z, 1, N) \in Seq(Nat) /\ Len(SubSeq(Z, 1, N)) = N
        /\ \A i \in 1..N : SubSeq(Z, 1, N)[i] = Z[i]
        /\ \A i \in 1..N : \A a \in 1..i : SubSeq(SubSeq(Z, 1, N), a, i) = SubSeq(Z, a, i)
    BY ONLY Z \in Seq(Nat), <1>2, Prefix
  <2> QED
    BY ONLY h = SubSeq(Z, 1, N), <2>1
<1>4. h[1] = Z[1] /\ h[2] = Z[2] /\ h[3] = Z[3] /\ h[4] = Z[4] /\ h[16] = Z[16] /\ h[17] = Z[17]
  <2>1. 1 \in 1..N /\ 2 \in 1..N /\ 3 \in 1..N /\ 4 \in 1..N /\ 16 \in 1..N /\ 17 \in 1..N
    BY ONLY <1>2, SMT
  <2> QED
    BY ONLY <1>3, <2>1, SMT
<1>5. \A i \in 1..10 : h[5 + i] = Phone[i]
  <2>1. \A i \in 1..10 : 5 + i \in 1..N
    <3>1. N \in Nat /\ N >= 17
      BY ONLY <1>2
    <3> QED
      BY ONLY <3>1, SMT
  <2> QED
    BY ONLY <1>3, <2>1, \A i \in 1..10 : Z[5 + i] = Phone[i]
<1>6. SubSeq(h, 1, 2) = <<Z[1], Z[2]>>
  <2>1. PICK i : i = 0
    OBVIOUS
  <2>2. i \in Nat /\ i + 2 <= Len(h) /\ i + 1 = 1 /\ i + 2 = 2
    BY ONLY <1>2, <1>3, <2>1, SMT
  <2>3. PICK x, y : x = h[i + 1] /\ y = h[i + 2]
    OBVIOUS
  <2>4. SubSeq(h, i + 1, i + 2) = <<x, y>>
    <3>1. h \in Seq(Nat) /\ i \in Nat /\ i + 2 <= Len(h)
      BY ONLY <1>3, <2>2
    <3> QED
      BY ONLY <2>3, <3>1, PairIs
  <2>5. x = Z[1] /\ y = Z[2]
    BY ONLY <1>4, <2>2, <2>3, SMT
  <2>6. SubSeq(h, i + 1, i + 2) = <<Z[1], Z[2]>>
    BY ONLY <2>4, <2>5
  <2> QED
    BY ONLY <2>2, <2>6, SMT
<1>7. SubSeq(h, 3, 4) = <<Z[3], Z[4]>>
  <2>1. PICK i : i = 2
    OBVIOUS
  <2>2. i \in Nat /\ i + 2 <= Len(h) /\ i + 1 = 3 /\ i + 2 = 4
    BY ONLY <1>2, <1>3, <2>1, SMT
  <2>3. PICK x, y : x = h[i + 1] /\ y = h[i + 2]
    OBVIOUS
  <2>4. SubSeq(h, i + 1, i + 2) = <<x, y>>
    <3>1. h \in Seq(Nat) /\ i \in Nat /\ i + 2 <= Len(h)
      BY ONLY <1>3, <2>2
    <3> QED
      BY ONLY <2>3, <3>1, PairIs
  <2>5. x = Z[3] /\ y = Z[4]
    BY ONLY <1>4, <2>2, <2>3, SMT
  <2>6. SubSeq(h, i + 1, i + 2) = <<Z[3], Z[4]>>
    BY ONLY <2>4, <2>5
  <2> QED
    BY ONLY <2>2, <2>6, SMT
<1>8. SubSeq(h, 16, 17) = <<Z[16], Z[17]>>
  <2>1. PICK i : i = 15
    OBVIOUS
  <2>2. i \in Nat /\ i + 2 <= Len(h) /\ i + 1 = 16 /\ i + 2 = 17
    BY ONLY <1>2, <1>3, <2>1, SMT
  <2>3. PICK x, y : x = h[i + 1] /\ y = h[i + 2]
    OBVIOUS
  <2>4. SubSeq(h, i + 1, i + 2) = <<x, y>>
    <3>1. h \in Seq(Nat) /\ i \in Nat /\ i + 2 <= Len(h)
      BY ONLY <1>3, <2>2
    <3> QED
      BY ONLY <2>3, <3>1, PairIs
  <2>5. x = Z[16] /\ y = Z[17]
    BY ONLY <1>4, <2>2, <2>3, SMT
  <2>6. SubSeq(h, i + 1, i + 2) = <<Z[16], Z[17]>>
    BY ONLY <2>4, <2>5
  <2> QED
    BY ONLY <2>2, <2>6, SMT
<1>9. Phone \in Seq(Nat) /\ Len(Phone) = 10
  <2>1. Phone \in Seq(Byte) /\ Len(Phone) = 10
    BY SMT, FramesAssumption
  <2> QED
    BY ONLY <2>1, BytesAreNumbers
<1>10. SubSeq(h, 6, 15) = Phone
  <2>1. PICK a, n : a = 5 /\ n = 10
    OBVIOUS
  <2>2. a \in Nat /\ n \in Nat /\ a + n <= Len(h) /\ a + 1 = 6 /\ a + n = 15
    BY ONLY <1>2, <1>3, <2>1, SMT
  <2>3. PICK u : u = SubSeq(h, a + 1, a + n)
    OBVIOUS
  <2>4. u \in Seq(Nat) /\ Len(u) = n /\ \A i \in 1..n : u[i] = h[a + i]
    <3>1. /\ SubSeq(h, a + 1, a + n) \in Seq(Nat) /\ Len(SubSeq(h, a + 1, a + n)) = n
          /\ \A i \in 1..n : SubSeq(h, a + 1, a + n)[i] = h[a + i]
      <4>1. h \in Seq(Nat) /\ a \in Nat /\ n \in Nat /\ a + n <= Len(h)
        BY ONLY <1>3, <2>2
      <4> QED
        BY ONLY <4>1, Slice
    <3> QED
      BY ONLY <2>3, <3>1
  <2>5. \A i \in 1..Len(Phone) : u[i] = Phone[i]
    BY ONLY <1>5, <1>9, <2>1, <2>4
  <2>6. u = Phone
    <3>1. Len(u) = Len(Phone) /\ \A i \in 1..Len(u) : u[i] = Phone[i]
      BY ONLY <1>9, <2>1, <2>4, <2>5
    <3>2. u \in Seq(Nat) /\ Phone \in Seq(Nat)
      BY ONLY <1>9, <2>4
    <3> QED
      BY ONLY <3>1, <3>2, SeqEqual
  <2> QED
    BY ONLY <2>2, <2>3, <2>6
<1> QED
  BY ONLY <1>2, <1>3, <1>6, <1>7, <1>8, <1>10 DEF Placed

LEMMA GotHeader ==
  ASSUME NEW m, Good(m), NEW h, h = Got(m).header
  PROVE  Header(m, h) /\ Got(m).body = Write(m.id, m.n, m.base)
<1>1. PICK Z, N : Z = Summed(m) /\ N = HeaderLen(m)
  OBVIOUS
<1>2. /\ Z \in Seq(Nat) /\ N \in {17, 21} /\ N <= Len(Z)
      /\ Z[1] = m.id \div 256 /\ Z[2] = m.id % 256
      /\ Z[3] = Props(m)[1] /\ Z[4] = Props(m)[2]
      /\ \A i \in 1..10 : Z[5 + i] = Phone[i]
      /\ Z[16] = m.serial[1] /\ Z[17] = m.serial[2]
  <2>1. /\ Summed(m) \in Seq(Nat) /\ Len(Summed(m)) = HeaderLen(m) + Len(Body(m)) + 1
        /\ HeaderLen(m) \in {17, 21} /\ Len(Body(m)) \in Nat
        /\ Summed(m)[1] = m.id \div 256 /\ Summed(m)[2] = m.id % 256
        /\ Summed(m)[3] = Props(m)[1] /\ Summed(m)[4] = Props(m)[2]
        /\ \A i \in 1..10 : Summed(m)[5 + i] = Phone[i]
        /\ Summed(m)[16] = m.serial[1] /\ Summed(m)[17] = m.serial[2]
    BY ONLY Good(m), SummedFacts
  <2>2. HeaderLen(m) <= Len(Summed(m))
    <3>1. PICK x, y, l : x = HeaderLen(m) /\ y = Len(Summed(m)) /\ l = Len(Body(m))
      OBVIOUS
    <3>2. y = x + l + 1 /\ x \in {17, 21} /\ l \in Nat
      BY ONLY <2>1, <3>1, SMT
    <3>3. x <= y
      BY ONLY <3>2, SMT
    <3> QED
      BY ONLY <3>1, <3>3
  <2> QED
    BY ONLY <1>1, <2>1, <2>2
<1>3. h = SubSeq(Z, 1, N) /\ Got(m).body = Write(m.id, m.n, m.base)
  BY <1>1 DEF Got, Body
<1>4. Placed(h, Z, N)
  <2>1. Z \in Seq(Nat) /\ N \in {17, 21} /\ N <= Len(Z) /\ \A i \in 1..10 : Z[5 + i] = Phone[i]
    BY ONLY <1>2
  <2>2. h = SubSeq(Z, 1, N)
    BY ONLY <1>3
  <2> QED
    BY ONLY <2>1, <2>2, HeaderPlaces
<1>5. /\ h \in Seq(Nat) /\ Len(h) = N /\ N >= 17 /\ N \in Nat /\ \A i \in 1..N : h[i] = Z[i]
      /\ SubSeq(h, 1, 2) = <<Z[1], Z[2]>> /\ SubSeq(h, 3, 4) = <<Z[3], Z[4]>>
      /\ SubSeq(h, 6, 15) = Phone /\ SubSeq(h, 16, 17) = <<Z[16], Z[17]>>
  BY ONLY <1>2, <1>4, SMT DEF Placed
<1>6. h[1] = m.id \div 256 /\ h[2] = m.id % 256 /\ h[16] = m.serial[1] /\ h[17] = m.serial[2]
  <2>1. 1 \in 1..N /\ 2 \in 1..N /\ 16 \in 1..N /\ 17 \in 1..N
    BY ONLY <1>5, SMT
  <2>2. h[1] = Z[1] /\ h[2] = Z[2] /\ h[16] = Z[16] /\ h[17] = Z[17]
    BY ONLY <1>5, <2>1, SMT
  <2> QED
    BY ONLY <1>2, <2>2, SMT
<1>7. \A i \in 1..10 : h[5 + i] = Phone[i]
  <2>1. \A i \in 1..10 : 5 + i \in 1..N
    <3>1. N \in Nat /\ N >= 17
      BY ONLY <1>5
    <3> QED
      BY ONLY <3>1, SMT
  <2> QED
    BY ONLY <1>2, <1>5, <2>1
<1>8. SubSeq(h, 1, 2) = U16(m.id)
  BY ONLY <1>2, <1>5, SMT DEF U16
<1>9. SubSeq(h, 3, 4) = Props(m)
  <2>1. Props(m) = <<Props(m)[1], Props(m)[2]>>
    BY DEF Props
  <2>2. PICK x, y : x = Z[3] /\ y = Z[4]
    OBVIOUS
  <2>3. SubSeq(h, 3, 4) = <<x, y>> /\ x = Props(m)[1] /\ y = Props(m)[2]
    BY ONLY <1>2, <1>5, <2>2, SMT
  <2> QED
    BY ONLY <2>1, <2>3, Zenon
<1>10. PICK c, d : m.serial = <<c, d>> /\ c \in Byte /\ d \in Byte
  <2>1. m.serial \in Byte \X Byte
    BY DEF Good, Message
  <2> QED
    BY ONLY <2>1
<1>11. h[16] = c /\ h[17] = d
  BY ONLY <1>6, <1>10
<1>12. SubSeq(h, 16, 17) = m.serial
  <2>1. Z[16] = c /\ Z[17] = d
    BY ONLY <1>2, <1>10
  <2>2. SubSeq(h, 16, 17) = <<c, d>>
    BY ONLY <1>5, <2>1, SMT
  <2> QED
    BY ONLY <1>10, <2>2
<1>13. Phone \in Seq(Nat) /\ Len(Phone) = 10
  <2>1. Phone \in Seq(Byte) /\ Len(Phone) = 10
    BY SMT, FramesAssumption
  <2> QED
    BY ONLY <2>1, BytesAreNumbers
<1>14. SubSeq(h, 6, 15) = Phone
  BY ONLY <1>5
<1>15. SubSeq(h, 6, 17) = Phone \o m.serial
  <2>1. PICK a, n : a = 5 /\ n = 12
    OBVIOUS
  <2>2. a \in Nat /\ n \in Nat /\ a + n <= Len(h) /\ a + 1 = 6 /\ a + n = 17
    BY ONLY <1>5, <2>1, SMT
  <2>3. PICK u : u = SubSeq(h, a + 1, a + n)
    OBVIOUS
  <2>4. u \in Seq(Nat) /\ Len(u) = n /\ \A i \in 1..n : u[i] = h[a + i]
    <3>1. /\ SubSeq(h, a + 1, a + n) \in Seq(Nat) /\ Len(SubSeq(h, a + 1, a + n)) = n
          /\ \A i \in 1..n : SubSeq(h, a + 1, a + n)[i] = h[a + i]
      <4>1. h \in Seq(Nat) /\ a \in Nat /\ n \in Nat /\ a + n <= Len(h)
        BY ONLY <1>5, <2>2
      <4> QED
        BY ONLY <4>1, Slice
    <3> QED
      BY ONLY <2>3, <3>1
  <2>5. PICK s, v : s = m.serial /\ v = Phone \o s
    OBVIOUS
  <2>6. s \in Seq(Nat) /\ Len(s) = 2 /\ s[1] = c /\ s[2] = d
    <3>1. c \in Nat /\ d \in Nat
      BY ONLY <1>10 DEF Byte
    <3> QED
      BY ONLY <1>10, <2>5, <3>1
  <2>7. /\ v \in Seq(Nat) /\ Len(v) = Len(Phone) + Len(s)
        /\ \A k \in 1..Len(Phone) : v[k] = Phone[k]
        /\ \A k \in 1..Len(s) : v[Len(Phone) + k] = s[k]
    <3>1. Phone \in Seq(Nat) /\ s \in Seq(Nat)
      BY ONLY <1>13, <2>6
    <3> QED
      BY ONLY <2>5, <3>1, AppendedBytes
  <2>8. Len(v) = 12 /\ v[11] = c /\ v[12] = d /\ \A k \in 1..10 : v[k] = Phone[k]
    <3>1. 1 \in 1..Len(s) /\ 2 \in 1..Len(s) /\ Len(Phone) + 1 = 11 /\ Len(Phone) + 2 = 12
          /\ Len(v) = 12
      BY ONLY <1>13, <2>6, <2>7, SMT
    <3>2. v[Len(Phone) + 1] = c /\ v[Len(Phone) + 2] = d
      BY ONLY <2>6, <2>7, <3>1
    <3> QED
      BY ONLY <1>13, <2>7, <3>1, <3>2
  <2>9. u[11] = c /\ u[12] = d
    <3>1. 11 \in 1..n /\ 12 \in 1..n /\ a + 11 = 16 /\ a + 12 = 17
      BY ONLY <2>1, SMT
    <3> QED
      BY ONLY <1>11, <2>4, <3>1
  <2>10. ASSUME NEW k \in 1..Len(v)
         PROVE  u[k] = v[k]
    <3>1. k \in 1..10 \/ k = 11 \/ k = 12
      BY ONLY <2>8, k \in 1..Len(v), SMT
    <3>2. ASSUME k \in 1..10
          PROVE  u[k] = v[k]
      <4>1. k \in 1..n
        BY ONLY <2>1, <3>2, SMT
      <4> QED
        BY ONLY <1>7, <2>1, <2>4, <2>8, <3>2, <4>1
    <3> QED
      BY ONLY <2>8, <2>9, <3>1, <3>2
  <2>11. u = v
    <3>1. Len(u) = Len(v)
      BY ONLY <2>1, <2>4, <2>8
    <3> QED
      BY ONLY <2>4, <2>7, <2>10, <3>1, SeqEqual
  <2> QED
    BY ONLY <2>2, <2>3, <2>5, <2>11
<1> QED
  BY ONLY <1>1, <1>3, <1>5, <1>6, <1>8, <1>9, <1>12, <1>14, <1>15 DEF Header

LEMMA InvDelivers ==
  ASSUME FramesInv
  PROVE  DeliveredAsSent
<1>1. PICK W, at, G, g : /\ Laying(W, at, G, g)
                         /\ \E r, c, p, h : Reading(W, at, r, c, p) /\ Passing(G, g, c, h)
  BY ONLY FramesInv DEF FramesInv
<1>2. PICK r, c, p, h : Reading(W, at, r, c, p) /\ Passing(G, g, c, h)
  BY ONLY <1>1
<1>3. PICK due : due = Deliverable
  OBVIOUS
<1>4. Matches(due, G, g[c])
  <2>1. Matches(Deliverable, G, g[c])
    BY ONLY <1>1, <1>2, DueIs
  <2> QED
    BY ONLY <1>3, <2>1
<1>5. PICK n : n = g[c]
  OBVIOUS
<1>6. /\ Len(due) = n
      /\ \A k \in 1..n : \E i \in 1..Len(stream) : due[k] = stream[i] /\ G[k] = Got(stream[i])
  BY ONLY <1>4, <1>5 DEF Matches
<1>7. /\ h \in Nat /\ h <= n /\ datach = SubSeq(G, h + 1, n)
      /\ handled = [x \in 1..h |-> Parse(G[x])]
  BY ONLY <1>2, <1>5 DEF Passing
<1>8. G \in Seq(Gots) /\ n \in Nat /\ n <= Len(G)
  <2>1. Laid(W, stream, at, G, g)
    BY ONLY <1>1 DEF Laying
  <2>2. /\ W \in Seq(Nat) /\ Len(stream) \in Nat /\ G \in Seq(Gots)
        /\ \A i \in 0..Len(stream) : at[i] \in Nat /\ g[i] \in Nat
        /\ \A i \in 0..Len(stream) : at[i] <= Len(W) /\ g[i] <= Len(G)
    BY ONLY <2>1, LaidTypes
  <2>3. c \in 0..Len(stream)
    BY ONLY <1>2 DEF Reading, Complete
  <2> QED
    BY ONLY <1>5, <2>2, <2>3
<1>9. /\ Len(datach) = n - h /\ DOMAIN datach = 1..(n - h)
      /\ \A x \in 1..(n - h) : datach[x] = G[h + x]
  <2>1. PICK j : j = h + 1
    OBVIOUS
  <2>2. j \in 1..(Len(G) + 1) /\ n \in (j - 1)..Len(G) /\ n - j + 1 = n - h
        /\ \A x \in 1..(n - h) : j + x - 1 = h + x
    <3>1. Len(G) \in Nat
      BY ONLY <1>8
    <3> QED
      BY ONLY <1>7, <1>8, <2>1, <3>1
  <2>3. /\ SubSeq(G, j, n) \in Seq(Gots) /\ Len(SubSeq(G, j, n)) = n - j + 1
        /\ \A x \in 1..(n - j + 1) : SubSeq(G, j, n)[x] = G[j + x - 1]
    BY ONLY <1>8, <2>2, Cut
  <2>4. /\ datach \in Seq(Gots) /\ Len(datach) = n - h
        /\ \A x \in 1..(n - h) : datach[x] = G[h + x]
    BY ONLY <1>7, <2>1, <2>2, <2>3
  <2> QED
    BY ONLY <2>4
<1>10. Len(handled) = h
  BY ONLY <1>7
<1>11. Len(handled) + Len(datach) = Len(due)
  BY ONLY <1>6, <1>7, <1>8, <1>9, <1>10
<1>12. ASSUME NEW k \in DOMAIN datach, NEW m, m = due[Len(handled) + k]
       PROVE  /\ SubSeq(datach[k].header, 1, 2) = U16(m.id)
              /\ SubSeq(datach[k].header, 6, 17) = Phone \o m.serial
              /\ datach[k].body = Write(m.id, m.n, m.base)
  <2>1. PICK j : j = h + k
    OBVIOUS
  <2>2. k \in 1..(n - h) /\ j \in 1..n
    BY ONLY <1>7, <1>8, <1>9, <2>1, k \in DOMAIN datach
  <2>3. PICK i \in 1..Len(stream) : due[j] = stream[i] /\ G[j] = Got(stream[i])
    BY ONLY <1>6, <2>2
  <2>4. datach[k] = Got(m) /\ m = stream[i]
    BY ONLY <1>9, <1>10, <1>12, <2>1, <2>2, <2>3
  <2>5. Good(m)
    <3>1. stream \in Streams
      BY ONLY <1>1 DEF Laying
    <3>2. stream \in Seq(Message) /\ \A x \in 1..Len(stream) : Good(stream[x])
      BY ONLY <3>1, GoodStream
    <3> QED
      BY ONLY <2>4, <3>2, i \in 1..Len(stream)
  <2>6. PICK q : q = Got(m).header
    OBVIOUS
  <2>7. Header(m, q) /\ Got(m).body = Write(m.id, m.n, m.base)
    BY ONLY <2>5, <2>6, GotHeader
  <2>8. SubSeq(q, 1, 2) = U16(m.id) /\ SubSeq(q, 6, 17) = Phone \o m.serial
    BY ONLY <2>7 DEF Header
  <2> QED
    BY ONLY <2>4, <2>6, <2>7, <2>8
<1> QED
  BY ONLY <1>3, <1>11, <1>12, Zenon DEF DeliveredAsSent

(* However the bytes arrive, the messages of the frames with an even number *)
(* of escapes are passed on in order, once and as they were sent, as soon   *)
(* as the last byte of their frame is there, and no others (RunRX,          *)
(* GetNextJTT808Msg).                                                       *)
THEOREM Delivered == Spec => []DeliveredAsSent
<1>1. FramesInv => DeliveredAsSent
  BY InvDelivers
<1> QED
  BY <1>1, FramesInductive, PTL

-----------------------------------------------------------------------------
(* Bytes that need no escape stay what they are.                            *)
Clean(Z) == \A i \in 1..Len(Z) : Z[i] \notin {MARK, ESC}

LEMMA CleanEscape ==
  ASSUME NEW Z \in Seq(Nat), Clean(Z)
  PROVE  JTT808UtilsEscape(Z) = Z
<1>1. PICK E : E = JTT808UtilsEscape(Z)
  OBVIOUS
<1>2. PICK n : n = Len(Z)
  OBVIOUS
<1>3. E \in Seq(Nat) /\ n \in Nat
  BY <1>1, <1>2, EscapeType
<1>4. PICK pl : Places(pl, Stuffing(Z), E)
  BY <1>1, EscapePlaces
<1>5. PICK S : S = Stuffing(Z)
  OBVIOUS
<1>6. Len(S) = n /\ \A i \in 1..n : S[i] = <<Z[i]>> /\ Len(S[i]) = 1 /\ S[i][1] = Z[i]
  <2>1. /\ Len(S) = n
        /\ \A i \in 1..n : Z[i] \in Nat /\ S[i] = Stuffed(Z[i])
    BY <1>2, <1>5, StuffingType
  <2>2. ASSUME NEW i \in 1..n
        PROVE  S[i] = <<Z[i]>>
    <3>1. PICK x : x = Z[i]
      OBVIOUS
    <3>2. x \in Nat /\ x # MARK /\ x # ESC /\ S[i] = Stuffed(x)
      BY <1>2, <2>1, <3>1 DEF Clean
    <3>3. Stuffed(x) = <<x>>
      BY ONLY <3>2, StuffedFacts
    <3> QED
      BY ONLY <3>1, <3>2, <3>3
  <2>3. ASSUME NEW i \in 1..n
        PROVE  Len(S[i]) = 1 /\ S[i][1] = Z[i]
    <3>1. PICK x, s : x = Z[i] /\ s = S[i]
      OBVIOUS
    <3>2. s = <<x>>
      BY ONLY <2>2, <3>1, i \in 1..n
    <3>3. Len(s) = 1 /\ s[1] = x
      BY ONLY <3>2
    <3> QED
      BY ONLY <3>1, <3>3
  <2> QED
    BY ONLY <2>1, <2>2, <2>3
<1>7. /\ pl[0] = 0 /\ pl[n] = Len(E)
      /\ \A i \in 1..n : pl[i] = pl[i - 1] + 1 /\ E[pl[i - 1] + 1] = Z[i]
  <2>1. /\ pl[0] = 0 /\ pl[n] = Len(E)
        /\ \A i \in 1..n : /\ pl[i] = pl[i - 1] + Len(S[i])
                           /\ \A k \in 1..Len(S[i]) : E[pl[i - 1] + k] = S[i][k]
    BY ONLY <1>4, <1>5, <1>6 DEF Places
  <2>2. ASSUME NEW i \in 1..n
        PROVE  pl[i] = pl[i - 1] + 1 /\ E[pl[i - 1] + 1] = Z[i]
    <3>1. Len(S[i]) = 1 /\ S[i][1] = Z[i] /\ 1 \in 1..Len(S[i])
      BY ONLY <1>6, i \in 1..n
    <3> QED
      BY ONLY <2>1, <3>1, i \in 1..n
  <2> QED
    BY ONLY <2>1, <2>2
<1> DEFINE D == {i \in Nat : i <= n => pl[i] = i}
<1>8. 0 \in D
  BY ONLY <1>7
<1>9. ASSUME NEW j \in Nat, j \in D
      PROVE  j + 1 \in D
  <2> SUFFICES ASSUME j + 1 <= n
               PROVE  pl[j + 1] = j + 1
    OBVIOUS
  <2>1. PICK i : i = j + 1
    OBVIOUS
  <2>2. i \in 1..n /\ i - 1 = j /\ j <= n
    BY ONLY <1>3, <2>1, j + 1 <= n, j \in Nat
  <2>3. pl[j] = j
    BY ONLY <1>9, <2>2
  <2>4. pl[i] = j + 1
    BY ONLY <1>7, <2>2, <2>3
  <2> QED
    BY ONLY <2>1, <2>4
<1>10. ASSUME NEW i \in 0..n
       PROVE  pl[i] = i
  <2>1. Nat \subseteq D
    <3> HIDE DEF D
    <3> QED
      BY ONLY <1>8, <1>9, SetInduction
  <2>2. i \in Nat /\ i <= n
    BY ONLY <1>3, i \in 0..n
  <2> QED
    BY ONLY <2>1, <2>2
<1>11. Len(E) = n
  <2>1. n \in 0..n
    BY ONLY <1>3
  <2> QED
    BY ONLY <1>7, <1>10, <2>1
<1>12. ASSUME NEW i \in 1..n
       PROVE  E[i] = Z[i]
  <2>1. PICK j : j = i - 1
    OBVIOUS
  <2>2. j \in 0..n /\ j + 1 = i
    BY ONLY <1>3, <2>1, i \in 1..n
  <2>3. pl[j] = j /\ E[pl[j] + 1] = Z[i]
    BY ONLY <1>7, <1>10, <2>1, <2>2, i \in 1..n
  <2> QED
    BY ONLY <2>2, <2>3
<1>13. E = Z
  <2>1. Len(E) = Len(Z) /\ \A i \in 1..Len(E) : E[i] = Z[i]
    BY ONLY <1>2, <1>11, <1>12
  <2> QED
    BY ONLY <1>3, <2>1, Z \in Seq(Nat), SeqEqual
<1> QED
  BY ONLY <1>1, <1>13

(* A buffer that is one frame, of clean bytes with a right checksum.        *)
Frame(b, Z) ==
  /\ b \in Seq(Nat) /\ Len(b) = Len(Z) + 2
  /\ b[1] = MARK /\ b[Len(b)] = MARK /\ \A k \in 1..Len(Z) : b[1 + k] = Z[k]

LEMMA CleanTaken ==
  ASSUME NEW Z, NEW h, NEW L, Parts(Z, h, L), Clean(Z), JTT808UtilsCalculateChecksum(Z) = 0,
         NEW b, Frame(b, Z)
  PROVE  GetNextJTT808Msg(b) = [drop |-> Len(b), msg |-> <<Taken(Z, h, L)>>]
<1>1. PICK n, N : n = Len(Z) /\ N = Len(b)
  OBVIOUS
<1>2. Z \in Seq(Nat) /\ n \in Nat /\ n >= 18
  BY ONLY Parts(Z, h, L), <1>1, SMT DEF Parts
<1>3. /\ b \in Seq(Nat) /\ N = n + 2 /\ N \in Nat
      /\ b[1] = MARK /\ b[N] = MARK /\ \A k \in 1..n : b[1 + k] = Z[k]
  BY ONLY Frame(b, Z), <1>1, <1>2 DEF Frame
<1>4. \A i \in 2..(N - 1) : b[i] # MARK
  <2> SUFFICES ASSUME NEW i \in 2..(N - 1)
               PROVE  b[i] # MARK
    OBVIOUS
  <2>1. PICK k : k = i - 1
    OBVIOUS
  <2>2. k \in 1..n /\ i = 1 + k
    BY ONLY <1>2, <1>3, <2>1, i \in 2..(N - 1)
  <2>3. Z[k] # MARK
    BY ONLY Clean(Z), <1>1, <2>2 DEF Clean
  <2> QED
    BY ONLY <1>3, <2>2, <2>3
<1>5. skipTillValidMsg(b, 1) = 1
  <2>1. PICK x : x = 1
    OBVIOUS
  <2>2. x \in Nat /\ Len(b) \in Nat /\ x \in x..Len(b) /\ b[x] = MARK
    BY ONLY <1>1, <1>2, <1>3, <2>1
  <2>3. \A i \in x..Len(b) : i < x => b[i] # MARK
    BY ONLY <2>1
  <2>4. skipTillValidMsg(b, x) = x
    BY ONLY <2>2, <2>3, SkipIs
  <2> QED
    BY ONLY <2>1, <2>4
<1>6. Ends(b, 1) = N
  <2>1. PICK p : p = 1 + 2
    OBVIOUS
  <2>2. p \in Nat /\ Len(b) \in Nat /\ N \in p..Len(b) /\ b[N] = MARK
    BY ONLY <1>1, <1>2, <1>3, <2>1
  <2>3. \A i \in p..Len(b) : i < N => b[i] # MARK
    <3>1. \A i \in p..Len(b) : i < N => i \in 2..(N - 1)
      BY ONLY <1>1, <1>3, <2>1
    <3> QED
      BY ONLY <1>4, <3>1
  <2>4. skipTillValidMsg(b, p) = N
    BY ONLY <2>2, <2>3, SkipIs
  <2> QED
    BY ONLY <2>1, <2>4 DEF Ends
<1>7. SubSeq(b, 1 + 1, N - 1) = Z
  <2>1. PICK a : a = 1
    OBVIOUS
  <2>2. a \in Nat /\ a + n <= Len(b) /\ a + n = N - 1
    BY ONLY <1>1, <1>2, <1>3, <2>1
  <2>3. PICK u : u = SubSeq(b, a + 1, a + n)
    OBVIOUS
  <2>4. u \in Seq(Nat) /\ Len(u) = n /\ \A i \in 1..n : u[i] = b[a + i]
    <3>1. /\ SubSeq(b, a + 1, a + n) \in Seq(Nat) /\ Len(SubSeq(b, a + 1, a + n)) = n
          /\ \A i \in 1..n : SubSeq(b, a + 1, a + n)[i] = b[a + i]
      <4>1. b \in Seq(Nat) /\ n \in Nat
        BY ONLY <1>2, <1>3
      <4> QED
        BY ONLY <2>2, <4>1, Slice
    <3> QED
      BY ONLY <2>3, <3>1
  <2>5. Len(u) = Len(Z) /\ \A i \in 1..Len(u) : u[i] = Z[i]
    BY ONLY <1>1, <1>3, <2>1, <2>4
  <2>6. u = Z
    BY ONLY <1>2, <2>4, <2>5, SeqEqual
  <2> QED
    BY ONLY <2>1, <2>2, <2>3, <2>6
<1>8. Sum(b, 1) = 0
  BY ONLY <1>6, <1>7, JTT808UtilsCalculateChecksum(Z) = 0 DEF Sum
<1>9. extractJTT808Msg(b, 1, N) = <<Taken(Z, h, L)>>
  <2>1. Z = JTT808UtilsEscape(Z)
    BY ONLY <1>2, Clean(Z), CleanEscape
  <2>2. Behind(b, 1, Z)
    BY ONLY <1>1, <1>3 DEF Behind
  <2>3. PICK s : s = 1
    OBVIOUS
  <2>4. extractJTT808Msg(b, s, s + Len(Z) + 1) = <<Taken(Z, h, L)>>
    <3>1. s \in Nat /\ Behind(b, s, Z)
      BY ONLY <2>2, <2>3
    <3> QED
      BY ONLY Parts(Z, h, L), <2>1, <3>1, Extracted
  <2>5. s + Len(Z) + 1 = N
    BY ONLY <1>1, <1>2, <1>3, <2>3
  <2> QED
    BY ONLY <2>3, <2>4, <2>5
<1>10. Found(b, 1) = <<Taken(Z, h, L)>>
  BY ONLY <1>6, <1>8, <1>9 DEF Found
<1>11. Found(b, 1) # <<>>
  BY ONLY <1>10
<1>12. Halts(b, 1)
  BY ONLY <1>11 DEF Halts
<1>13. ~(1 + 15 > N) /\ N # 0 /\ 1 \in 1..(N + 2)
  BY ONLY <1>2, <1>3
<1>14. Yield(b, 1) = [drop |-> N, msg |-> <<Taken(Z, h, L)>>]
  BY ONLY <1>1, <1>6, <1>10, <1>13 DEF Yield
<1>15. PICK f : GoesOn(f, b) /\ GetNextJTT808Msg(b) = f[1]
  BY ONLY <1>1, <1>3, GetNextSolves
<1>16. f[1] = Yield(b, 1)
  BY ONLY <1>1, <1>5, <1>12, <1>13, <1>15 DEF GoesOn
<1> QED
  BY ONLY <1>1, <1>14, <1>15, <1>16

-----------------------------------------------------------------------------
(* The phone number is the same after a way through a string.               *)
Halves(x) ==
  LET digit(d) == IF d <= 9 THEN <<d>> ELSE <<>>
  IN  digit(x \div 16) \o digit(x % 16)

LEMMA StringIs ==
  ASSUME NEW bcd
  PROVE  JTT808UtilsBCDToString(bcd) = FlattenSeq([i \in DOMAIN bcd |-> Halves(bcd[i])])
BY Zenon DEF JTT808UtilsBCDToString, Halves

LEMMA PhoneFacts ==
  /\ Phone \in Seq(Byte) /\ Phone \in Seq(Nat) /\ Len(Phone) = 10 /\ DOMAIN Phone = 1..10
  /\ \A i \in 1..10 : Phone[i] \in Nat /\ Phone[i] \div 16 <= 9 /\ Phone[i] % 16 <= 9
<1>1. /\ Phone \in Seq(Byte) /\ Len(Phone) = 10
      /\ \A i \in 1..10 : Phone[i] \div 16 <= 9 /\ Phone[i] % 16 <= 9
  BY SMT, FramesAssumption
<1>2. Phone \in Seq(Nat)
  BY ONLY <1>1, BytesAreNumbers
<1>3. DOMAIN Phone = 1..10 /\ \A i \in 1..10 : Phone[i] \in Nat
  <2>1. PICK q \in Seq(Nat) : q = Phone
    BY ONLY <1>2
  <2>2. DOMAIN q = 1..Len(q) /\ \A i \in 1..Len(q) : q[i] \in Nat
    BY ONLY q \in Seq(Nat)
  <2> QED
    BY ONLY <1>1, <2>1, <2>2
<1> QED
  BY ONLY <1>1, <1>2, <1>3

LEMMA PhoneBack == JTT808UtilsStringToBCD(JTT808UtilsBCDToString(Phone)) = Phone
<1>1. PICK s : s = JTT808UtilsBCDToString(Phone)
  OBVIOUS
<1>2. PICK S : S = [i \in 1..10 |-> Halves(Phone[i])]
  OBVIOUS
<1>3. s = FlattenSeq(S)
  <2>1. DOMAIN Phone = 1..10
    BY PhoneFacts
  <2> QED
    BY ONLY <1>1, <1>2, <2>1, StringIs
<1>4. ASSUME NEW i \in 1..10
      PROVE  /\ S[i] \in Seq(Nat) /\ Len(S[i]) = 2
             /\ S[i][1] * 16 + S[i][2] = Phone[i]
  <2>1. PICK x, a, b : x = Phone[i] /\ a = x \div 16 /\ b = x % 16
    OBVIOUS
  <2>2. x \in Nat /\ a <= 9 /\ b <= 9
    BY ONLY <2>1, PhoneFacts, i \in 1..10
  <2>3. a \in Nat /\ b \in Nat /\ a * 16 + b = x
    BY ONLY <2>1, <2>2
  <2>4. Halves(x) = <<a>> \o <<b>>
    BY ONLY <2>1, <2>2 DEF Halves
  <2>5. PICK t : t = S[i]
    OBVIOUS
  <2>6. t = <<a>> \o <<b>>
    BY ONLY <1>2, <2>1, <2>4, <2>5, i \in 1..10
  <2>7. t \in Seq(Nat) /\ Len(t) = 2 /\ t[1] = a /\ t[2] = b
    BY ONLY <2>3, <2>6
  <2> QED
    BY ONLY <2>1, <2>3, <2>5, <2>7
<1>5. S \in Seq(Seq(Nat)) /\ Len(S) = 10
  <2>1. S = [i \in 1..10 |-> S[i]] /\ DOMAIN S = 1..10
    BY ONLY <1>2
  <2>2. S \in [1..10 -> Seq(Nat)]
    BY ONLY <1>4, <2>1
  <2>3. PICK n : n = 10
    OBVIOUS
  <2>4. n \in Nat /\ S \in [1..n -> Seq(Nat)]
    BY ONLY <2>2, <2>3
  <2>5. S \in Seq(Seq(Nat)) /\ Len(S) = n
    BY ONLY <2>4
  <2> QED
    BY ONLY <2>3, <2>5
<1>6. s \in Seq(Nat)
  BY ONLY <1>3, <1>5, FlattenType
<1>7. PICK pl : Places(pl, S, s)
  BY ONLY <1>3, <1>5, FlattenPlaces
<1>8. /\ pl[0] = 0 /\ pl[10] = Len(s)
      /\ \A i \in 1..10 : pl[i] = pl[i - 1] + 2 /\ s[pl[i - 1] + 1] = S[i][1]
                                                /\ s[pl[i - 1] + 2] = S[i][2]
  <2>1. /\ pl[0] = 0 /\ pl[10] = Len(s)
        /\ \A i \in 1..10 : /\ pl[i] = pl[i - 1] + Len(S[i])
                            /\ \A k \in 1..Len(S[i]) : s[pl[i - 1] + k] = S[i][k]
    BY ONLY <1>5, <1>7 DEF Places
  <2>2. ASSUME NEW i \in 1..10
        PROVE  pl[i] = pl[i - 1] + 2 /\ s[pl[i - 1] + 1] = S[i][1]
                                     /\ s[pl[i - 1] + 2] = S[i][2]
    <3>1. PICK n : n = Len(S[i])
      OBVIOUS
    <3>2. n = 2
      BY ONLY <1>4, <3>1, i \in 1..10
    <3>3. 1 \in 1..n /\ 2 \in 1..n
      BY ONLY <3>2
    <3> QED
      BY ONLY <2>1, <3>1, <3>2, <3>3, i \in 1..10
  <2> QED
    BY ONLY <2>1, <2>2
<1> DEFINE D == {i \in Nat : i <= 10 => pl[i] = 2 * i}
<1>90. 0 \in D
  BY ONLY <1>8
<1>91. ASSUME NEW j \in Nat, j \in D
       PROVE  j + 1 \in D
  <2> SUFFICES ASSUME j + 1 <= 10
               PROVE  pl[j + 1] = 2 * (j + 1)
    OBVIOUS
  <2>1. PICK i : i = j + 1
    OBVIOUS
  <2>2. i \in 1..10 /\ i - 1 = j /\ j <= 10 /\ 2 * i = 2 * j + 2
    BY ONLY <2>1, j + 1 <= 10, j \in Nat
  <2>3. pl[j] = 2 * j
    BY ONLY <1>91, <2>2
  <2>4. pl[i] = 2 * j + 2
    BY ONLY <1>8, <2>2, <2>3
  <2> QED
    BY ONLY <2>1, <2>2, <2>4
<1>9. ASSUME NEW i \in 0..10
      PROVE  pl[i] = 2 * i
  <2>1. Nat \subseteq D
    <3> HIDE DEF D
    <3> QED
      BY ONLY <1>90, <1>91, SetInduction
  <2>2. i \in Nat /\ i <= 10
    BY ONLY i \in 0..10
  <2> QED
    BY ONLY <2>1, <2>2
<1>10. ASSUME NEW i \in 1..10
       PROVE  s[2 * i - 1] = S[i][1] /\ s[2 * i] = S[i][2]
  <2>1. PICK j : j = i - 1
    OBVIOUS
  <2>2. j \in 0..10 /\ 2 * j + 1 = 2 * i - 1 /\ 2 * j + 2 = 2 * i
    BY ONLY <2>1, i \in 1..10
  <2>3. pl[j] = 2 * j
    BY ONLY <1>9, <2>2
  <2>4. s[pl[j] + 1] = S[i][1] /\ s[pl[j] + 2] = S[i][2]
    BY ONLY <1>8, <2>1, i \in 1..10
  <2> QED
    BY ONLY <2>2, <2>3, <2>4
<1>11. Len(s) \div 2 = 10
  <2>1. PICK n : n = 10
    OBVIOUS
  <2>2. n \in 0..10 /\ 2 * n = 20
    BY ONLY <2>1
  <2>3. pl[n] = Len(s) /\ pl[n] = 2 * n
    BY ONLY <1>8, <1>9, <2>1, <2>2
  <2>4. Len(s) = 20
    BY ONLY <2>2, <2>3
  <2> QED
    BY ONLY <2>4
<1>12. JTT808UtilsStringToBCD(s) = [i \in 1..10 |-> s[2 * i - 1] * 16 + s[2 * i]]
  BY ONLY <1>11 DEF JTT808UtilsStringToBCD
<1>13. \A i \in 1..10 : s[2 * i - 1] * 16 + s[2 * i] = Phone[i]
  BY ONLY <1>4, <1>10
<1>14. PICK p : p = JTT808UtilsStringToBCD(s)
  OBVIOUS
<1>15. p \in Seq(Nat) /\ Len(p) = 10 /\ \A i \in 1..10 : p[i] = Phone[i]
  <2>1. \A i \in 1..10 : Phone[i] \in Nat
    BY PhoneFacts
  <2>2. p = [i \in 1..10 |-> s[2 * i - 1] * 16 + s[2 * i]]
    BY ONLY <1>12, <1>14
  <2>3. DOMAIN p = 1..10 /\ \A i \in 1..10 : p[i] = Phone[i]
    BY ONLY <1>13, <2>2
  <2>4. p = [i \in 1..10 |-> p[i]]
    BY ONLY <2>2, <2>3
  <2>5. p \in [1..10 -> Nat]
    BY ONLY <2>1, <2>3, <2>4
  <2>6. PICK n : n = 10
    OBVIOUS
  <2>7. n \in Nat /\ p \in [1..n -> Nat]
    BY ONLY <2>5, <2>6
  <2>8. p \in Seq(Nat) /\ Len(p) = n
    BY ONLY <2>7
  <2> QED
    BY ONLY <2>3, <2>6, <2>8
<1>16. p = Phone
  <2>1. Phone \in Seq(Nat) /\ Len(p) = Len(Phone) /\ \A i \in 1..Len(p) : p[i] = Phone[i]
    BY ONLY <1>15, PhoneFacts
  <2> QED
    BY ONLY <1>15, <2>1, SeqEqual
<1> QED
  BY ONLY <1>1, <1>14, <1>16

-----------------------------------------------------------------------------
(* What is made of the header of a message, and the answer to it.           *)
Parsed(h, m) ==
  /\ h.id = m.id /\ h.props = Props(m) /\ h.version \in Nat
  /\ h.phone = JTT808UtilsBCDToString(Phone) /\ h.serial = m.serial
  /\ h.package = <<>> <=> ~m.packaged

LEMMA WordParts ==
  ASSUME NEW w \in Word, NEW a, a = w \div 256, NEW b, b = w % 256
  PROVE  a \in Byte /\ b \in Byte /\ Number(a, b) = w
<1>1. w \in Nat /\ w <= 65535
  BY ONLY WordsAreNumbers, SMT
<1>2. a \in Nat /\ a <= 255 /\ b \in Nat /\ b <= 255 /\ a * 256 + b = w
  BY ONLY <1>1, a = w \div 256, b = w % 256, SMT
<1>3. \A k \in Nat : k <= 255 => k \in Byte
  BY ONLY SMT DEF Byte
<1> QED
  BY ONLY <1>2, <1>3 DEF Number

LEMMA HeaderParsed ==
  ASSUME NEW m, Good(m), NEW b, Header(m, b), NEW h, h = ParseJTT808MsgHeader(b)
  PROVE  Parsed(h, m)
<1>1. /\ b \in Seq(Nat) /\ Len(b) = HeaderLen(m)
      /\ b[1] = m.id \div 256 /\ b[2] = m.id % 256 /\ SubSeq(b, 3, 4) = Props(m)
      /\ SubSeq(b, 6, 15) = Phone /\ SubSeq(b, 16, 17) = m.serial
  BY ONLY Header(m, b) DEF Header
<1>2. /\ h.id = Number(b[1], b[2]) /\ h.props = SubSeq(b, 3, 4) /\ h.version = b[5]
      /\ h.phone = JTT808UtilsBCDToString(SubSeq(b, 6, 15)) /\ h.serial = SubSeq(b, 16, 17)
      /\ h.package = IF Packaged(SubSeq(b, 3, 4)) THEN SubSeq(b, 18, 21) ELSE <<>>
  BY ONLY h = ParseJTT808MsgHeader(b) DEF ParseJTT808MsgHeader
<1>3. h.id = m.id
  <2>1. PICK w, x, y : w = m.id /\ x = m.id \div 256 /\ y = m.id % 256
    OBVIOUS
  <2>2. w \in Word
    BY <2>1, SMT DEF Good, Message
  <2>3. Number(x, y) = w
    BY ONLY <2>1, <2>2, WordParts
  <2> QED
    BY ONLY <1>1, <1>2, <2>1, <2>3
<1>4. h.version \in Nat
  <2>1. PICK n : n = Len(b)
    OBVIOUS
  <2>2. n \in {17, 21}
    BY ONLY <1>1, <2>1 DEF HeaderLen
  <2>3. 5 \in 1..n
    BY ONLY <2>2, SMT
  <2>4. \A i \in 1..n : b[i] \in Nat
    <3>1. b \in Seq(Nat)
      BY ONLY <1>1
    <3> QED
      BY ONLY <2>1, <3>1
  <2> QED
    BY ONLY <1>2, <2>3, <2>4
<1>5. Packaged(Props(m)) <=> m.packaged
  <2>1. PICK L, x, y : L = Len(Body(m)) /\ x = Props(m)[1] /\ y = Props(m)[2]
    OBVIOUS
  <2>2. Props(m) = <<x, y>> /\ (Packaged(<<x, y>>) <=> m.packaged)
    BY ONLY Good(m), <2>1, PropsFacts
  <2> QED
    BY ONLY <2>2
<1>6. h.package = <<>> <=> ~m.packaged
  <2>1. CASE ~m.packaged
    BY ONLY <1>1, <1>2, <1>5, <2>1
  <2>2. CASE m.packaged
    <3>1. PICK k, n : k = 17 /\ n = 4
      OBVIOUS
    <3>2. Len(b) = 21
      BY ONLY <1>1, <2>2 DEF HeaderLen
    <3>3. k \in Nat /\ n \in Nat /\ k + n <= Len(b) /\ k + 1 = 18 /\ k + n = 21
      BY ONLY <3>1, <3>2, SMT
    <3>4. Len(SubSeq(b, k + 1, k + n)) = n
      BY ONLY <1>1, <3>3, Slice
    <3>5. Len(h.package) = 4
      <4>1. SubSeq(b, k + 1, k + n) = SubSeq(b, 18, 21)
        BY ONLY <3>3
      <4>2. h.package = SubSeq(b, 18, 21)
        BY ONLY <1>1, <1>2, <1>5, <2>2
      <4> QED
        BY ONLY <3>1, <3>4, <4>1, <4>2
    <3>6. h.package # <<>>
      <4>1. PICK p : p = h.package
        OBVIOUS
      <4>2. Len(p) = 4
        BY ONLY <3>5, <4>1
      <4>3. p # <<>>
        BY ONLY <4>2
      <4> QED
        BY ONLY <4>1, <4>3
    <3> QED
      BY ONLY <2>2, <3>6
  <2> QED
    BY ONLY <2>1, <2>2
<1> QED
  BY ONLY <1>1, <1>2, <1>3, <1>4, <1>6 DEF Parsed

(* The bytes of a header without package numbers and of a body behind it.   *)
Together(r, p, c, d, w) ==
  /\ r \in Seq(Nat) /\ Len(r) = 17 + Len(w)
  /\ \A i \in 1..5 : r[i] = p[i]
  /\ \A i \in 1..10 : r[5 + i] = Phone[i]
  /\ r[16] = c /\ r[17] = d
  /\ \A i \in 1..Len(w) : r[17 + i] = w[i]

LEMMA PutTogether ==
  ASSUME NEW p \in Seq(Nat), Len(p) = 5, NEW c \in Nat, NEW d \in Nat, NEW w \in Seq(Nat),
         NEW r, r = ((p \o Phone) \o <<c, d>>) \o w
  PROVE  Together(r, p, c, d, w)
<1>1. PICK f : f = Phone
  OBVIOUS
<1>2. f \in Seq(Nat) /\ Len(f) = 10
  BY ONLY <1>1, PhoneFacts
<1>3. PICK q : q = p \o f
  OBVIOUS
<1>4. /\ q \in Seq(Nat) /\ Len(q) = 15
      /\ \A i \in 1..5 : q[i] = p[i]
      /\ \A i \in 1..10 : q[5 + i] = f[i]
  <2>1. /\ q \in Seq(Nat) /\ Len(q) = Len(p) + Len(f)
        /\ \A i \in 1..Len(p) : q[i] = p[i]
        /\ \A i \in 1..Len(f) : q[Len(p) + i] = f[i]
    <3>1. f \in Seq(Nat)
      BY ONLY <1>2
    <3> QED
      BY ONLY p \in Seq(Nat), <1>3, <3>1, AppendedBytes
  <2> QED
    BY ONLY Len(p) = 5, <1>2, <2>1
<1>5. PICK u : u = <<c, d>>
  OBVIOUS
<1>6. u \in Seq(Nat) /\ Len(u) = 2 /\ u[1] = c /\ u[2] = d
  BY ONLY c \in Nat, d \in Nat, <1>5
<1>7. PICK t : t = q \o u
  OBVIOUS
<1>8. /\ t \in Seq(Nat) /\ Len(t) = 17
      /\ \A i \in 1..15 : t[i] = q[i]
      /\ t[16] = c /\ t[17] = d
  <2>1. /\ t \in Seq(Nat) /\ Len(t) = Len(q) + Len(u)
        /\ \A i \in 1..Len(q) : t[i] = q[i]
        /\ \A i \in 1..Len(u) : t[Len(q) + i] = u[i]
    <3>1. q \in Seq(Nat) /\ u \in Seq(Nat)
      BY ONLY <1>4, <1>6
    <3> QED
      BY ONLY <1>7, <3>1, AppendedBytes
  <2>2. t \in Seq(Nat) /\ Len(t) = 17 /\ \A i \in 1..15 : t[i] = q[i]
    BY ONLY <1>4, <1>6, <2>1
  <2>3. t[15 + 1] = u[1] /\ t[15 + 2] = u[2]
    BY ONLY <1>4, <1>6, <2>1
  <2> QED
    BY ONLY <1>6, <2>2, <2>3
<1>9. /\ r \in Seq(Nat) /\ Len(r) = 17 + Len(w)
      /\ \A i \in 1..17 : r[i] = t[i]
      /\ \A i \in 1..Len(w) : r[17 + i] = w[i]
  <2>1. r = t \o w
    BY ONLY r = ((p \o Phone) \o <<c, d>>) \o w, <1>1, <1>3, <1>5, <1>7
  <2>2. /\ r \in Seq(Nat) /\ Len(r) = Len(t) + Len(w)
        /\ \A i \in 1..Len(t) : r[i] = t[i]
        /\ \A i \in 1..Len(w) : r[Len(t) + i] = w[i]
    <3>1. t \in Seq(Nat)
      BY ONLY <1>8
    <3> QED
      BY ONLY w \in Seq(Nat), <2>1, <3>1, AppendedBytes
  <2> QED
    BY ONLY <1>8, <2>2
<1>10. ASSUME NEW i \in 1..5
       PROVE  r[i] = p[i]
  <2>1. i \in 1..15 /\ i \in 1..17
    BY ONLY i \in 1..5
  <2>2. r[i] = t[i]
    BY ONLY <1>9, <2>1
  <2>3. t[i] = q[i]
    BY ONLY <1>8, <2>1
  <2>4. q[i] = p[i]
    BY ONLY <1>4, i \in 1..5
  <2> QED
    BY ONLY <2>2, <2>3, <2>4
<1>11. ASSUME NEW i \in 1..10
       PROVE  r[5 + i] = Phone[i]
  <2>1. PICK j : j = 5 + i
    OBVIOUS
  <2>2. j \in 1..15 /\ j \in 1..17
    BY ONLY <2>1, i \in 1..10
  <2>3. r[j] = t[j]
    BY ONLY <1>9, <2>2
  <2>4. t[j] = q[j]
    BY ONLY <1>8, <2>2
  <2>5. q[5 + i] = f[i]
    <3>1. \A k \in 1..10 : q[5 + k] = f[k]
      BY ONLY <1>4
    <3> QED
      BY ONLY <3>1, i \in 1..10
  <2>6. r[j] = f[i]
    BY ONLY <2>1, <2>3, <2>4, <2>5
  <2> QED
    BY ONLY <1>1, <2>1, <2>6
<1>12. r[16] = c /\ r[17] = d
  <2>1. 16 \in 1..17 /\ 17 \in 1..17
    BY SMT
  <2>2. r[16] = t[16] /\ r[17] = t[17]
    BY ONLY <1>9, <2>1
  <2> QED
    BY ONLY <1>8, <2>2
<1> QED
  BY ONLY <1>9, <1>10, <1>11, <1>12 DEF Together

LEMMA Nothing ==
  ASSUME NEW s \in Seq(Nat)
  PROVE  s \o <<>> = s
OBVIOUS

LEMMA Five ==
  ASSUME NEW a \in Nat, NEW b \in Nat, NEW c \in Nat, NEW d \in Nat, NEW e \in Nat
  PROVE  <<a, b>> \o <<c, d>> \o <<e>> = <<a, b, c, d, e>>
<1>1. PICK s, t, u : s = <<a, b>> /\ t = <<c, d>> /\ u = <<e>>
  OBVIOUS
<1>2. /\ s \in Seq(Nat) /\ Len(s) = 2 /\ s[1] = a /\ s[2] = b
      /\ t \in Seq(Nat) /\ Len(t) = 2 /\ t[1] = c /\ t[2] = d
      /\ u \in Seq(Nat) /\ Len(u) = 1 /\ u[1] = e
  BY ONLY <1>1, a \in Nat, b \in Nat, c \in Nat, d \in Nat, e \in Nat
<1>3. PICK q : q = s \o t
  OBVIOUS
<1>4. /\ q \in Seq(Nat) /\ Len(q) = 4 /\ q[1] = a /\ q[2] = b /\ q[3] = c /\ q[4] = d
  <2>1. /\ q \in Seq(Nat) /\ Len(q) = 2 + 2
        /\ \A i \in 1..2 : q[i] = s[i]
        /\ \A i \in 1..2 : q[2 + i] = t[i]
    <3>1. s \in Seq(Nat) /\ t \in Seq(Nat)
      BY ONLY <1>2
    <3>2. /\ q \in Seq(Nat) /\ Len(q) = Len(s) + Len(t)
          /\ \A i \in 1..Len(s) : q[i] = s[i]
          /\ \A i \in 1..Len(t) : q[Len(s) + i] = t[i]
      BY ONLY <1>3, <3>1, AppendedBytes
    <3> QED
      BY ONLY <1>2, <3>2
  <2>2. q[1] = s[1] /\ q[2] = s[2] /\ q[2 + 1] = t[1] /\ q[2 + 2] = t[2]
    BY ONLY <2>1
  <2> QED
    BY ONLY <1>2, <2>1, <2>2
<1>5. PICK r : r = q \o u
  OBVIOUS
<1>6. /\ r \in Seq(Nat) /\ Len(r) = 5
      /\ r[1] = a /\ r[2] = b /\ r[3] = c /\ r[4] = d /\ r[5] = e
  <2>1. /\ r \in Seq(Nat) /\ Len(r) = 4 + 1
        /\ \A i \in 1..4 : r[i] = q[i]
        /\ \A i \in 1..1 : r[4 + i] = u[i]
    <3>1. q \in Seq(Nat) /\ u \in Seq(Nat)
      BY ONLY <1>2, <1>4
    <3>2. /\ r \in Seq(Nat) /\ Len(r) = Len(q) + Len(u)
          /\ \A i \in 1..Len(q) : r[i] = q[i]
          /\ \A i \in 1..Len(u) : r[Len(q) + i] = u[i]
      BY ONLY <1>5, <3>1, AppendedBytes
    <3> QED
      BY ONLY <1>2, <1>4, <3>2
  <2>2. r[1] = q[1] /\ r[2] = q[2] /\ r[3] = q[3] /\ r[4] = q[4] /\ r[4 + 1] = u[1]
    BY ONLY <2>1
  <2> QED
    BY ONLY <1>2, <1>4, <2>1, <2>2
<1>7. r = <<r[1], r[2], r[3], r[4], r[5]>>
  BY ONLY <1>6
<1> QED
  BY ONLY <1>1, <1>3, <1>5, <1>6, <1>7

LEMMA AnswerProperties ==
  ASSUME NEW m, Good(m), ~m.packaged, NEW h, Parsed(h, m), NEW n \in Nat, n < 256
  PROVE  AnswerProps(h, n) = <<0, n>>
<1>1. PICK k : k = Len(Body(m)) \div 256
  OBVIOUS
<1>2. k \in 0..3
  <2>1. PICK l : l = Len(Body(m))
    OBVIOUS
  <2>2. l \in Nat /\ l < 1024
    <3>1. Len(Body(m)) < 1024
      BY ONLY Good(m), SMT DEF Good
    <3>2. Len(Body(m)) \in Nat
      BY ONLY Good(m), SummedFacts
    <3> QED
      BY ONLY <2>1, <3>1, <3>2
  <2> QED
    BY ONLY <1>1, <2>1, <2>2, SMT
<1>3. h.props[1] = 64 + k
  <2>1. Props(m)[1] = 64 + 0 + k
    BY ONLY ~m.packaged, <1>1 DEF Props
  <2>2. h.props = Props(m)
    BY ONLY Parsed(h, m) DEF Parsed
  <2> QED
    BY ONLY <1>2, <2>1, <2>2
<1>4. PICK p : p = h.props[1]
  OBVIOUS
<1>5. 4 * ((p \div 4) % 8) + ((n \div 256) % 4) = 0 /\ n % 256 = n
  BY ONLY <1>2, <1>3, <1>4, n \in Nat, n < 256
<1> QED
  BY ONLY <1>4, <1>5 DEF AnswerProps

Heads(h, id, n, p, m) ==
  WriteHeader([h EXCEPT !.id = id, !.props = AnswerProps(h, n)]) = (p \o Phone) \o m.serial

LEMMA AnswerHeader ==
  ASSUME NEW m, Good(m), ~m.packaged, NEW b, NEW h, h = ParseJTT808MsgHeader(b), Parsed(h, m),
         NEW id, NEW n \in Nat, n < 256, NEW p, p = <<id \div 256, id % 256, 0, n, h.version>>,
         p \in Seq(Nat)
  PROVE  Heads(h, id, n, p, m)
<1>1. PICK g : g = [h EXCEPT !.id = id, !.props = AnswerProps(h, n)]
  OBVIOUS
<1>2. AnswerProps(h, n) = <<0, n>>
  BY ONLY Good(m), ~m.packaged, Parsed(h, m), n \in Nat, n < 256, AnswerProperties
<1>3. /\ g.id = id /\ g.props = <<0, n>> /\ g.version = h.version /\ g.phone = h.phone
      /\ g.serial = h.serial /\ g.package = h.package
  BY ONLY <1>1, <1>2, h = ParseJTT808MsgHeader(b) DEF ParseJTT808MsgHeader
<1>4. /\ h.phone = JTT808UtilsBCDToString(Phone) /\ h.serial = m.serial /\ h.package = <<>>
      /\ h.version \in Nat
  BY ONLY Parsed(h, m), ~m.packaged DEF Parsed
<1>5. JTT808UtilsStringToBCD(g.phone) = Phone
  BY ONLY <1>3, <1>4, PhoneBack
<1>6. [i \in 1..(10 - Len(Phone)) |-> 0] = <<>>
  <2>1. Len(Phone) = 10
    BY PhoneFacts
  <2> QED
    BY ONLY <2>1
<1>7. PICK s : s = m.serial
  OBVIOUS
<1>8. s \in Seq(Nat)
  <2>1. PICK c, d : s = <<c, d>> /\ c \in Byte /\ d \in Byte
    <3>1. m.serial \in Byte \X Byte
      BY Good(m) DEF Good, Message
    <3> QED
      BY ONLY <1>7, <3>1
  <2>2. c \in Nat /\ d \in Nat
    BY ONLY <2>1 DEF Byte
  <2> QED
    BY ONLY <2>1, <2>2
<1>9. PICK q : q = U16(g.id) \o g.props \o <<g.version>>
  OBVIOUS
<1>10. q = p
  <2>1. PICK x, y, v : x = id \div 256 /\ y = id % 256 /\ v = h.version
    OBVIOUS
  <2>2. q = <<x, y>> \o <<0, n>> \o <<v>>
    BY ONLY <1>3, <1>9, <2>1 DEF U16
  <2>3. p = <<x, y, 0, n, v>>
    BY ONLY p = <<id \div 256, id % 256, 0, n, h.version>>, <2>1
  <2>4. x \in Nat /\ y \in Nat /\ v \in Nat
    <3>1. Len(p) = 5 /\ p[1] = x /\ p[2] = y /\ p[5] = v
      BY ONLY <2>3
    <3>2. 1 \in 1..5 /\ 2 \in 1..5 /\ 5 \in 1..5
      BY SMT
    <3>3. \A i \in 1..Len(p) : p[i] \in Nat
      BY ONLY p \in Seq(Nat)
    <3> QED
      BY ONLY <3>1, <3>2, <3>3
  <2>5. <<x, y>> \o <<0, n>> \o <<v>> = <<x, y, 0, n, v>>
    <3>1. PICK z \in Nat : z = 0
      OBVIOUS
    <3>2. <<x, y>> \o <<z, n>> \o <<v>> = <<x, y, z, n, v>>
      BY ONLY <2>4, n \in Nat, z \in Nat, Five
    <3> QED
      BY ONLY <3>1, <3>2
  <2> QED
    BY ONLY <2>2, <2>3, <2>5
<1>11. WriteHeader(g) = q \o [i \in 1..(10 - Len(Phone)) |-> 0] \o Phone \o g.serial \o g.package
  BY ONLY <1>5, <1>9, Zenon DEF WriteHeader
<1>12. WriteHeader(g) = (((p \o <<>>) \o Phone) \o s) \o <<>>
  BY ONLY <1>3, <1>4, <1>6, <1>7, <1>10, <1>11
<1>13. p \o <<>> = p
  BY ONLY p \in Seq(Nat), Nothing
<1>14. ((p \o Phone) \o s) \o <<>> = (p \o Phone) \o s
  <2>1. Phone \in Seq(Nat)
    BY PhoneFacts
  <2>2. PICK t : t = p \o Phone
    OBVIOUS
  <2>3. t \in Seq(Nat)
    BY ONLY p \in Seq(Nat), <2>1, <2>2
  <2>4. t \o s \in Seq(Nat)
    BY ONLY <1>8, <2>3
  <2> QED
    BY ONLY <2>2, <2>4, Nothing
<1> QED
  BY ONLY <1>1, <1>7, <1>12, <1>13, <1>14 DEF Heads

(* An answer, and the bytes between its markers.                            *)
Answered(A, S, id, w, m) ==
  /\ Frame(A, S) /\ Parts(S, 17, Len(w)) /\ JTT808UtilsCalculateChecksum(S) = 0
  /\ S[1] = id \div 256 /\ S[2] = id % 256
  /\ \A i \in 1..10 : S[5 + i] = Phone[i]
  /\ S[16] = m.serial[1] /\ S[17] = m.serial[2]
  /\ \A i \in 1..Len(w) : S[17 + i] = w[i]

LEMMA AnswerIs ==
  ASSUME NEW m, Good(m), ~m.packaged, NEW b, NEW h, h = ParseJTT808MsgHeader(b), Parsed(h, m),
         NEW id \in Word, NEW w \in Seq(Nat), Len(w) < 256, NEW A, A = WriteJTT808Msg(id, w, h)
  PROVE  \E S : Answered(A, S, id, w, m)
<1>1. PICK n \in Nat : n = Len(w)
  OBVIOUS
<1>2. PICK x, y, v : x = id \div 256 /\ y = id % 256 /\ v = h.version
  OBVIOUS
<1>3. x \in Nat /\ y \in Nat /\ v \in Nat
  <2>1. x \in Byte /\ y \in Byte
    BY ONLY <1>2, id \in Word, WordParts
  <2>2. v \in Nat
    BY ONLY <1>2, Parsed(h, m) DEF Parsed
  <2> QED
    BY ONLY <2>1, <2>2 DEF Byte
<1>4. PICK p : p = <<x, y, 0, n, v>>
  OBVIOUS
<1>5. p \in Seq(Nat) /\ Len(p) = 5 /\ p[1] = x /\ p[2] = y /\ p[3] = 0 /\ p[4] = n
  BY ONLY <1>3, <1>4, n \in Nat
<1>6. PICK c \in Nat, d \in Nat : m.serial = <<c, d>> /\ m.serial[1] = c /\ m.serial[2] = d
  <2>1. m.serial \in Byte \X Byte
    BY Good(m) DEF Good, Message
  <2>2. PICK c \in Byte, d \in Byte : m.serial = <<c, d>>
    BY ONLY <2>1
  <2> QED
    BY ONLY <2>2 DEF Byte
<1>7. PICK r : r = ((p \o Phone) \o <<c, d>>) \o w
  OBVIOUS
<1>8. /\ r \in Seq(Nat) /\ Len(r) = 17 + n
      /\ \A i \in 1..5 : r[i] = p[i]
      /\ \A i \in 1..10 : r[5 + i] = Phone[i]
      /\ r[16] = c /\ r[17] = d
      /\ \A i \in 1..n : r[17 + i] = w[i]
  <2>1. p \in Seq(Nat) /\ Len(p) = 5
    BY ONLY <1>5
  <2>2. Together(r, p, c, d, w)
    BY ONLY <2>1, <1>7, c \in Nat, d \in Nat, w \in Seq(Nat), PutTogether
  <2> QED
    BY ONLY <1>1, <2>2 DEF Together
<1>9. PICK k : k = JTT808UtilsCalculateChecksum(r)
  OBVIOUS
<1>10. k \in Nat
  <2>1. r \in Seq(Nat)
    BY ONLY <1>8
  <2>2. k \in 0..255
    BY ONLY <1>9, <2>1, ChecksumBits
  <2> QED
    BY ONLY <2>2
<1>11. A = ((<<MARK>> \o r) \o <<k>>) \o <<MARK>>
  <2>1. WriteHeader([h EXCEPT !.id = id, !.props = AnswerProps(h, n)]) = (p \o Phone) \o m.serial
    <3>1. p = <<id \div 256, id % 256, 0, n, h.version>> /\ p \in Seq(Nat) /\ n < 256
      BY ONLY <1>1, <1>2, <1>4, <1>5, Len(w) < 256
    <3>2. Heads(h, id, n, p, m)
      BY ONLY Good(m), ~m.packaged, h = ParseJTT808MsgHeader(b), Parsed(h, m), n \in Nat, <3>1,
              AnswerHeader
    <3> QED
      BY ONLY <3>2 DEF Heads
  <2>2. r = WriteHeader([h EXCEPT !.id = id, !.props = AnswerProps(h, Len(w))]) \o w
    BY ONLY <1>1, <1>6, <1>7, <2>1
  <2> QED
    BY ONLY A = WriteJTT808Msg(id, w, h), <1>9, <2>2, Zenon DEF WriteJTT808Msg
<1>12. PICK S : S = r \o <<k>>
  OBVIOUS
<1>13. /\ S \in Seq(Nat) /\ Len(S) = 18 + n
       /\ \A i \in 1..(17 + n) : S[i] = r[i]
       /\ S[18 + n] = k
  <2>1. PICK u : u = <<k>>
    OBVIOUS
  <2>2. u \in Seq(Nat) /\ Len(u) = 1 /\ u[1] = k
    BY ONLY <1>10, <2>1
  <2>3. /\ S \in Seq(Nat) /\ Len(S) = Len(r) + Len(u)
        /\ \A i \in 1..Len(r) : S[i] = r[i]
        /\ \A i \in 1..Len(u) : S[Len(r) + i] = u[i]
    <3>1. r \in Seq(Nat) /\ u \in Seq(Nat) /\ S = r \o u
      BY ONLY <1>8, <1>12, <2>1, <2>2
    <3> QED
      BY ONLY <3>1, AppendedBytes
  <2>4. Len(r) + 1 = 18 + n
    BY ONLY <1>8, n \in Nat
  <2>5. S[Len(r) + 1] = k
    BY ONLY <2>2, <2>3
  <2> QED
    BY ONLY <1>8, <2>2, <2>3, <2>4, <2>5
<1>14. Frame(A, S)
  <2>1. PICK a : a = <<MARK>>
    OBVIOUS
  <2>2. a \in Seq(Nat) /\ Len(a) = 1 /\ a[1] = MARK
    BY ONLY <2>1 DEF MARK
  <2>3. PICK e : e = <<k>>
    OBVIOUS
  <2>4. e \in Seq(Nat) /\ Len(e) = 1 /\ e[1] = k
    BY ONLY <1>10, <2>3
  <2>5. A = (a \o S) \o a
    <3>1. r \in Seq(Nat)
      BY ONLY <1>8
    <3>2. (a \o r) \o e = a \o (r \o e)
      BY ONLY <2>2, <2>4, <3>1, Grouped
    <3> QED
      BY ONLY <1>11, <1>12, <2>1, <2>3, <3>2
  <2>6. PICK t : t = a \o S
    OBVIOUS
  <2>7. /\ t \in Seq(Nat) /\ Len(t) = 1 + Len(S) /\ t[1] = MARK
        /\ \A i \in 1..Len(S) : t[1 + i] = S[i]
    <3>1. a \in Seq(Nat) /\ S \in Seq(Nat)
      BY ONLY <1>13, <2>2
    <3>2. /\ t \in Seq(Nat) /\ Len(t) = Len(a) + Len(S)
          /\ \A i \in 1..Len(a) : t[i] = a[i]
          /\ \A i \in 1..Len(S) : t[Len(a) + i] = S[i]
      BY ONLY <2>6, <3>1, AppendedBytes
    <3> QED
      BY ONLY <2>2, <3>2
  <2>8. /\ A \in Seq(Nat) /\ Len(A) = Len(t) + 1 /\ A[Len(t) + 1] = MARK
        /\ \A i \in 1..Len(t) : A[i] = t[i]
    <3>1. a \in Seq(Nat) /\ t \in Seq(Nat) /\ A = t \o a
      BY ONLY <2>2, <2>5, <2>6, <2>7
    <3>2. /\ A \in Seq(Nat) /\ Len(A) = Len(t) + Len(a)
          /\ \A i \in 1..Len(t) : A[i] = t[i]
          /\ \A i \in 1..Len(a) : A[Len(t) + i] = a[i]
      BY ONLY <3>1, AppendedBytes
    <3> QED
      BY ONLY <2>2, <3>2
  <2>9. PICK l \in Nat : l = Len(S)
    BY ONLY <1>13
  <2>10. Len(A) = l + 2 /\ A[1] = MARK /\ A[l + 2] = MARK
    <3>1. Len(t) = l + 1 /\ 1 \in 1..Len(t) /\ Len(t) + 1 = l + 2
      BY ONLY <2>7, <2>9, l \in Nat
    <3> QED
      BY ONLY <2>7, <2>8, <3>1
  <2>11. \A i \in 1..l : A[1 + i] = S[i]
    <3>1. \A i \in 1..l : 1 + i \in 1..Len(t)
      BY ONLY <2>7, <2>9, l \in Nat
    <3> QED
      BY ONLY <2>7, <2>8, <2>9, <3>1
  <2> QED
    BY ONLY <2>8, <2>9, <2>10, <2>11 DEF Frame
<1>15. \A i \in 1..5 : i \in 1..(17 + n)
  BY ONLY n \in Nat
<1>16. S[1] = x /\ S[2] = y /\ S[3] = 0 /\ S[4] = n
  <2>1. \A i \in 1..5 : S[i] = p[i]
    BY ONLY <1>8, <1>13, <1>15
  <2> QED
    BY ONLY <1>5, <2>1
<1>17. Parts(S, 17, n)
  <2>1. <<S[3], S[4]>> = <<0, n>>
    BY ONLY <1>16
  <2>2. n < 256
    BY ONLY <1>1, Len(w) < 256
  <2>3. ~Packaged(<<0, n>>)
    BY ONLY n \in Nat, SMT DEF Packaged
  <2>4. BodyLength(<<0, n>>) = n
    BY ONLY n \in Nat, SMT DEF BodyLength, Number
  <2>5. Len(S) = 17 + n + 1 /\ 17 \in {17, 21} /\ ~(17 = 21)
    BY ONLY <1>13, n \in Nat, SMT
  <2> QED
    BY ONLY <1>13, <2>1, <2>3, <2>4, <2>5, n \in Nat, SMT DEF Parts
<1>18. JTT808UtilsCalculateChecksum(S) = 0
  <2>1. r \in Seq(Nat) /\ S \in Seq(Nat) /\ S = r \o <<JTT808UtilsCalculateChecksum(r)>>
    BY ONLY <1>8, <1>9, <1>12, <1>13
  <2>2. \A z \in Weights : Odd(S, z) = 0
    BY ONLY <2>1, SummedUp
  <2>3. PICK q : q = JTT808UtilsCalculateChecksum(S)
    OBVIOUS
  <2>4. q = 0 <=> \A z \in Weights : Odd(S, z) = 0
    BY ONLY <2>1, <2>3, ChecksumBits
  <2> QED
    BY ONLY <2>2, <2>3, <2>4
<1>19. \A i \in 1..10 : S[5 + i] = Phone[i]
  <2>1. \A i \in 1..10 : 5 + i \in 1..(17 + n)
    BY ONLY n \in Nat
  <2> QED
    BY ONLY <1>8, <1>13, <2>1
<1>20. S[16] = c /\ S[17] = d
  <2>1. 16 \in 1..(17 + n) /\ 17 \in 1..(17 + n)
    BY ONLY n \in Nat, SMT
  <2> QED
    BY ONLY <1>8, <1>13, <2>1
<1>21. \A i \in 1..n : S[17 + i] = w[i]
  <2>1. \A i \in 1..n : 17 + i \in 1..(17 + n)
    BY ONLY n \in Nat
  <2> QED
    BY ONLY <1>8, <1>13, <2>1
<1>22. Answered(A, S, id, w, m)
  BY ONLY <1>1, <1>2, <1>6, <1>14, <1>16, <1>17, <1>18, <1>19, <1>20, <1>21 DEF Answered
<1> QED
  BY ONLY <1>22

-----------------------------------------------------------------------------
(* What the other side of the library makes of an answer.                   *)
LEMMA Is8100 ==
  ASSUME NEW n, NEW b
  PROVE  Cmd(\h8100, n, b) = Cmd8100(n, b) /\ \h8100 \in Known /\ \h8100 \in Word
BY SMT DEF Cmd, Known, Word

LEMMA Is8001 ==
  ASSUME NEW n, NEW b
  PROVE  Cmd(\h8001, n, b) = Cmd8001(n, b) /\ \h8001 \in Known /\ \h8001 \in Word
BY SMT DEF Cmd, Known, Word

(* A command that is parsed, whatever its first field.                      *)
Begins(id, w) ==
  LET cmd == ParseCmd(id, w)
  IN  cmd.ok /\ cmd.fields[1] = SubSeq(w, 1, 2)

LEMMA FirstTwo ==
  ASSUME NEW w \in Seq(Nat), Len(w) >= 3, NEW r, r = At(0, 2)
  PROVE  ReadByteSlice(w, r.pos, r.n) = SubSeq(w, 1, 2)
<1>1. r.pos = 0 /\ r.n = 2
  BY ONLY r = At(0, 2) DEF At
<1>2. 0 + 2 <= Len(w) /\ 0 + 1 = 1 /\ 0 + 2 = 2
  BY ONLY w \in Seq(Nat), Len(w) >= 3
<1> QED
  BY ONLY <1>1, <1>2 DEF ReadByteSlice

LEMMA Begins8100 ==
  ASSUME NEW w \in Seq(Nat), Len(w) >= 3
  PROVE  Begins(\h8100, w)
<1>1. PICK id : id = \h8100
  OBVIOUS
<1>2. id \in Known /\ Cmd(id, 0, w) = Cmd8100(0, w)
  BY ONLY <1>1, Is8100
<1>3. PICK l : l = Cmd8100(0, w)
  OBVIOUS
<1>4. l.least = 3 /\ DOMAIN l.reads = 1..3 /\ l.reads[1] = At(0, 2)
  BY ONLY <1>3 DEF Cmd8100, Layout
<1>5. ~(Len(w) < 3)
  BY ONLY w \in Seq(Nat), Len(w) >= 3
<1>6. ParseCmd(id, w) =
        [ok |-> TRUE, fields |-> [i \in DOMAIN l.reads |->
                                    ReadByteSlice(w, l.reads[i].pos, l.reads[i].n)]]
  BY ONLY <1>2, <1>3, <1>4, <1>5 DEF ParseCmd
<1>7. PICK r : r = l.reads[1]
  OBVIOUS
<1>8. ReadByteSlice(w, r.pos, r.n) = SubSeq(w, 1, 2)
  BY ONLY w \in Seq(Nat), Len(w) >= 3, <1>4, <1>7, FirstTwo
<1>9. PICK cmd : cmd = ParseCmd(id, w)
  OBVIOUS
<1>10. cmd.ok /\ cmd.fields[1] = ReadByteSlice(w, r.pos, r.n)
  <2>1. 1 \in DOMAIN l.reads
    BY ONLY <1>4
  <2> QED
    BY ONLY <1>6, <1>7, <1>9, <2>1
<1> QED
  BY ONLY <1>1, <1>8, <1>9, <1>10 DEF Begins

LEMMA Begins8001 ==
  ASSUME NEW w \in Seq(Nat), Len(w) >= 5
  PROVE  Begins(\h8001, w)
<1>1. PICK id : id = \h8001
  OBVIOUS
<1>2. id \in Known /\ Cmd(id, 0, w) = Cmd8001(0, w)
  BY ONLY <1>1, Is8001
<1>3. PICK l : l = Cmd8001(0, w)
  OBVIOUS
<1>4. l.least = 5 /\ DOMAIN l.reads = 1..3 /\ l.reads[1] = At(0, 2)
  BY ONLY <1>3 DEF Cmd8001, Layout
<1>5. ~(Len(w) < 5) /\ Len(w) >= 3
  BY ONLY w \in Seq(Nat), Len(w) >= 5
<1>6. ParseCmd(id, w) =
        [ok |-> TRUE, fields |-> [i \in DOMAIN l.reads |->
                                    ReadByteSlice(w, l.reads[i].pos, l.reads[i].n)]]
  BY ONLY <1>2, <1>3, <1>4, <1>5 DEF ParseCmd
<1>7. PICK r : r = l.reads[1]
  OBVIOUS
<1>8. ReadByteSlice(w, r.pos, r.n) = SubSeq(w, 1, 2)
  BY ONLY w \in Seq(Nat), <1>4, <1>5, <1>7, FirstTwo
<1>9. PICK cmd : cmd = ParseCmd(id, w)
  OBVIOUS
<1>10. cmd.ok /\ cmd.fields[1] = ReadByteSlice(w, r.pos, r.n)
  <2>1. 1 \in DOMAIN l.reads
    BY ONLY <1>4
  <2> QED
    BY ONLY <1>6, <1>7, <1>9, <2>1
<1> QED
  BY ONLY <1>1, <1>8, <1>9, <1>10 DEF Begins

(* A clean answer is one frame; in it are the number of the phone it was    *)
(* made for, the serial number of the message, and the body as written.     *)
ReadsBack(A, id, w, m) ==
  LET got  == GetNextJTT808Msg(A)
      back == ParseJTT808MsgHeader(got.msg[1].header)
  IN  /\ got.drop = Len(A) /\ got.msg # <<>>
      /\ back.id = id /\ got.msg[1].body = w
      /\ back.phone = JTT808UtilsBCDToString(Phone) /\ back.serial = m.serial

LEMMA AnswerRead ==
  ASSUME NEW m, Good(m), NEW A, NEW S, NEW id \in Word, NEW w \in Seq(Nat),
         Answered(A, S, id, w, m), Clean(S)
  PROVE  ReadsBack(A, id, w, m)
<1>1. PICK n \in Nat : n = Len(w)
  OBVIOUS
<1>2. /\ Frame(A, S) /\ Parts(S, 17, n) /\ JTT808UtilsCalculateChecksum(S) = 0
      /\ S[1] = id \div 256 /\ S[2] = id % 256
      /\ \A i \in 1..10 : S[5 + i] = Phone[i]
      /\ S[16] = m.serial[1] /\ S[17] = m.serial[2]
      /\ \A i \in 1..n : S[17 + i] = w[i]
  BY ONLY Answered(A, S, id, w, m), <1>1 DEF Answered
<1>3. S \in Seq(Nat) /\ Len(S) = 18 + n
  <2>1. S \in Seq(Nat) /\ Len(S) = 17 + n + 1
    BY ONLY <1>2, SMT DEF Parts
  <2> QED
    BY ONLY <2>1, n \in Nat
<1>4. PICK got : got = GetNextJTT808Msg(A)
  OBVIOUS
<1>5. PICK N : N = 17
  OBVIOUS
<1>6. got = [drop |-> Len(A), msg |-> <<Taken(S, N, n)>>]
  <2>1. Frame(A, S) /\ Parts(S, N, n) /\ JTT808UtilsCalculateChecksum(S) = 0
    BY ONLY <1>2, <1>5
  <2> QED
    BY ONLY <1>4, <2>1, Clean(S), CleanTaken
<1>7. PICK h, k : h = SubSeq(S, 1, N) /\ k = SubSeq(S, N + 1, N + n)
  OBVIOUS
<1>8. /\ got.drop = Len(A) /\ got.msg # <<>>
      /\ got.msg[1].header = h /\ got.msg[1].body = k
  <2>1. PICK x : x = [header |-> h, body |-> k]
    OBVIOUS
  <2>2. got.drop = Len(A) /\ got.msg = <<x>>
    BY ONLY <1>6, <1>7, <2>1 DEF Taken
  <2>3. got.msg # <<>> /\ got.msg[1] = x
    BY ONLY <2>2
  <2> QED
    BY ONLY <2>1, <2>2, <2>3
<1>9. k = w
  <2>1. N \in Nat /\ N + n <= Len(S)
    BY ONLY <1>3, <1>5, n \in Nat
  <2>2. S \in Seq(Nat)
    BY ONLY <1>3
  <2>3. /\ SubSeq(S, N + 1, N + n) \in Seq(Nat) /\ Len(SubSeq(S, N + 1, N + n)) = n
        /\ \A i \in 1..n : SubSeq(S, N + 1, N + n)[i] = S[N + i]
    BY ONLY <2>1, <2>2, n \in Nat, Slice
  <2>4. k \in Seq(Nat) /\ Len(k) = n /\ \A i \in 1..n : k[i] = S[N + i]
    BY ONLY <1>7, <2>3
  <2>5. \A i \in 1..n : S[N + i] = w[i]
    BY ONLY <1>2, <1>5
  <2>6. k \in Seq(Nat) /\ Len(k) = Len(w) /\ \A i \in 1..Len(k) : k[i] = w[i]
    BY ONLY <1>1, <2>4, <2>5
  <2> QED
    BY ONLY <2>6, w \in Seq(Nat), SeqEqual
<1>10. Placed(h, S, N)
  <2>1. S \in Seq(Nat) /\ N \in {17, 21} /\ N <= Len(S)
    BY ONLY <1>3, <1>5, n \in Nat
  <2> QED
    BY ONLY <1>2, <1>7, <2>1, HeaderPlaces
<1>11. /\ h[1] = S[1] /\ h[2] = S[2] /\ SubSeq(h, 6, 15) = Phone
       /\ SubSeq(h, 16, 17) = <<S[16], S[17]>>
  <2>1. 1 \in 1..N /\ 2 \in 1..N
    BY ONLY <1>5, SMT
  <2> QED
    BY ONLY <1>10, <2>1 DEF Placed
<1>12. PICK back : back = ParseJTT808MsgHeader(h)
  OBVIOUS
<1>13. /\ back.id = Number(S[1], S[2]) /\ back.phone = JTT808UtilsBCDToString(Phone)
       /\ back.serial = <<S[16], S[17]>>
  BY ONLY <1>11, <1>12 DEF ParseJTT808MsgHeader
<1>14. back.id = id
  <2>1. PICK x, y : x = id \div 256 /\ y = id % 256
    OBVIOUS
  <2>2. Number(x, y) = id
    BY ONLY <2>1, id \in Word, WordParts
  <2> QED
    BY ONLY <1>2, <1>13, <2>1, <2>2
<1>15. back.serial = m.serial
  <2>1. m.serial \in Byte \X Byte
    BY Good(m) DEF Good, Message
  <2>2. PICK c, d : m.serial = <<c, d>>
    BY ONLY <2>1
  <2>3. S[16] = c /\ S[17] = d
    BY ONLY <1>2, <2>2
  <2> QED
    BY ONLY <1>13, <2>2, <2>3
<1> QED
  BY ONLY <1>4, <1>8, <1>9, <1>12, <1>13, <1>14, <1>15 DEF ReadsBack

-----------------------------------------------------------------------------
(* The answer to a message with the header h, and what is to be seen of it. *)
Reply(h) ==
  IF h.id = \h0100 THEN WriteJTT808Msg(\h8100, h.serial \o <<0>> \o AuthCode, h)
  ELSE WriteJTT808Msg(\h8001, h.serial \o U16(h.id) \o <<0>>, h)

Unescaped(A, h) ==
  h.package = <<>> /\ \A i \in 2..(Len(A) - 1) : A[i] \notin {MARK, ESC}

Readable(A, h) ==
  LET got  == GetNextJTT808Msg(A)
      back == ParseJTT808MsgHeader(got.msg[1].header)
      cmd  == ParseCmd(back.id, got.msg[1].body)
  IN  /\ got.drop = Len(A) /\ got.msg # <<>>
      /\ back.phone = h.phone /\ back.serial = h.serial
      /\ cmd.ok /\ cmd.fields[1] = h.serial

LEMMA WrittenReadable ==
  ASSUME NEW m, Good(m), NEW b, NEW h, h = ParseJTT808MsgHeader(b), Parsed(h, m),
         NEW id \in Word, NEW w \in Seq(Nat), Len(w) < 256, Begins(id, w),
         SubSeq(w, 1, 2) = m.serial, NEW A, A = WriteJTT808Msg(id, w, h), Unescaped(A, h)
  PROVE  Readable(A, h)
<1>1. ~m.packaged
  <2>1. h.package = <<>>
    BY ONLY Unescaped(A, h) DEF Unescaped
  <2> QED
    BY ONLY <2>1, Parsed(h, m) DEF Parsed
<1>2. PICK S : Answered(A, S, id, w, m)
  <2>1. \E S : Answered(A, S, id, w, m)
    BY ONLY Good(m), <1>1, h = ParseJTT808MsgHeader(b), Parsed(h, m), id \in Word,
            w \in Seq(Nat), Len(w) < 256, A = WriteJTT808Msg(id, w, h), AnswerIs
  <2> QED
    BY ONLY <2>1
<1>3. Clean(S)
  <2>1. Frame(A, S) /\ Parts(S, 17, Len(w))
    BY ONLY <1>2 DEF Answered
  <2>2. S \in Seq(Nat)
    BY ONLY <2>1 DEF Parts
  <2>3. PICK n \in Nat : n = Len(S)
    BY ONLY <2>2
  <2>4. Len(A) = n + 2 /\ \A k \in 1..n : A[1 + k] = S[k]
    BY ONLY <2>1, <2>3 DEF Frame
  <2>5. \A i \in 2..(Len(A) - 1) : A[i] \notin {MARK, ESC}
    BY ONLY Unescaped(A, h) DEF Unescaped
  <2>6. \A k \in 1..n : 1 + k \in 2..(Len(A) - 1)
    BY ONLY <2>4, n \in Nat
  <2>7. \A k \in 1..n : S[k] \notin {MARK, ESC}
    BY ONLY <2>4, <2>5, <2>6
  <2> QED
    BY ONLY <2>3, <2>7 DEF Clean
<1>4. ReadsBack(A, id, w, m)
  BY ONLY Good(m), id \in Word, w \in Seq(Nat), <1>2, <1>3, AnswerRead
<1>5. PICK got, back : got = GetNextJTT808Msg(A) /\ back = ParseJTT808MsgHeader(got.msg[1].header)
  OBVIOUS
<1>6. /\ got.drop = Len(A) /\ got.msg # <<>>
      /\ back.id = id /\ got.msg[1].body = w
      /\ back.phone = JTT808UtilsBCDToString(Phone) /\ back.serial = m.serial
  BY ONLY <1>4, <1>5 DEF ReadsBack
<1>7. h.phone = JTT808UtilsBCDToString(Phone) /\ h.serial = m.serial
  BY ONLY Parsed(h, m) DEF Parsed
<1>8. PICK cmd : cmd = ParseCmd(id, w)
  OBVIOUS
<1>9. cmd.ok /\ cmd.fields[1] = m.serial
  <2>1. cmd.ok /\ cmd.fields[1] = SubSeq(w, 1, 2)
    BY ONLY Begins(id, w), <1>8 DEF Begins
  <2> QED
    BY ONLY <2>1, SubSeq(w, 1, 2) = m.serial
<1>10. ParseCmd(back.id, got.msg[1].body) = cmd
  BY ONLY <1>6, <1>8
<1> QED
  BY ONLY <1>5, <1>6, <1>7, <1>9, <1>10 DEF Readable

(* The serial number and what is behind it.                                 *)
Leads(w, s, n) == w \in Seq(Nat) /\ Len(w) = 2 + n /\ SubSeq(w, 1, 2) = s

LEMMA SerialFirst ==
  ASSUME NEW c \in Nat, NEW d \in Nat, NEW s, s = <<c, d>>, NEW t \in Seq(Nat),
         NEW w, w = s \o t
  PROVE  Leads(w, s, Len(t))
<1>1. s \in Seq(Nat) /\ Len(s) = 2 /\ s[1] = c /\ s[2] = d
  BY ONLY c \in Nat, d \in Nat, s = <<c, d>>
<1>2. /\ w \in Seq(Nat) /\ Len(w) = Len(s) + Len(t)
      /\ \A i \in 1..Len(s) : w[i] = s[i]
      /\ \A i \in 1..Len(t) : w[Len(s) + i] = t[i]
  <2>1. s \in Seq(Nat)
    BY ONLY <1>1
  <2> QED
    BY ONLY <2>1, t \in Seq(Nat), w = s \o t, AppendedBytes
<1>3. PICK n \in Nat : n = Len(t)
  OBVIOUS
<1>4. Len(w) = 2 + n /\ w[1] = c /\ w[2] = d
  BY ONLY <1>1, <1>2, <1>3
<1>5. SubSeq(w, 1, 2) = <<c, d>>
  <2>1. PICK i : i = 0
    OBVIOUS
  <2>2. i \in Nat /\ i + 1 = 1 /\ i + 2 = 2 /\ i + 2 <= Len(w)
    BY ONLY <1>4, <2>1, n \in Nat
  <2>3. c = w[i + 1] /\ d = w[i + 2]
    BY ONLY <1>4, <2>2
  <2>4. w \in Seq(Nat)
    BY ONLY <1>2
  <2>5. i \in Nat /\ i + 2 <= Len(w)
    BY ONLY <2>2
  <2>6. SubSeq(w, i + 1, i + 2) = <<c, d>>
    BY ONLY <2>3, <2>4, <2>5, PairIs
  <2> QED
    BY ONLY <2>2, <2>6
<1> QED
  BY ONLY <1>2, <1>3, <1>4, <1>5, s = <<c, d>> DEF Leads

LEMMA ReplyReadable ==
  ASSUME NEW m, Good(m), NEW b, NEW h, h = ParseJTT808MsgHeader(b), Parsed(h, m),
         h.id \in {\h0100, \h0102}, NEW A, A = Reply(h), Unescaped(A, h)
  PROVE  Readable(A, h)
<1>1. PICK c \in Nat, d \in Nat : m.serial = <<c, d>>
  <2>1. m.serial \in Byte \X Byte
    BY Good(m) DEF Good, Message
  <2>2. PICK c \in Byte, d \in Byte : m.serial = <<c, d>>
    BY ONLY <2>1
  <2> QED
    BY ONLY <2>2 DEF Byte
<1>2. PICK s : s = m.serial
  OBVIOUS
<1>3. h.serial = s /\ s = <<c, d>> /\ s \in Seq(Nat)
  <2>1. h.serial = s /\ s = <<c, d>>
    BY ONLY <1>1, <1>2, Parsed(h, m) DEF Parsed
  <2> QED
    BY ONLY <2>1, c \in Nat, d \in Nat
<1>4. PICK z : z = <<0>>
  OBVIOUS
<1>5. z \in Seq(Nat) /\ Len(z) = 1
  BY ONLY <1>4
<1>6. PICK u \in Seq(Nat) : u = AuthCode /\ Len(u) = 8
  <2>1. AuthCode \in Seq(Nat) /\ Len(AuthCode) = 8
    BY DEF AuthCode
  <2> QED
    BY ONLY <2>1
<1>7. PICK v : v = U16(h.id)
  OBVIOUS
<1>8. v \in Seq(Nat) /\ Len(v) = 2
  <2>1. PICK x, a, e : x = m.id /\ a = x \div 256 /\ e = x % 256
    OBVIOUS
  <2>2. x \in Word
    BY <2>1, SMT DEF Good, Message
  <2>3. a \in Byte /\ e \in Byte
    BY ONLY <2>1, <2>2, WordParts
  <2>4. h.id = x
    BY ONLY <2>1, Parsed(h, m) DEF Parsed
  <2>5. v = <<a, e>> /\ a \in Nat /\ e \in Nat
    BY ONLY <1>7, <2>1, <2>3, <2>4 DEF U16, Byte
  <2> QED
    BY ONLY <2>5
<1>9. CASE h.id = \h0100
  <2>1. PICK id : id = \h8100
    OBVIOUS
  <2>2. PICK t, w : t = z \o u /\ w = s \o t
    OBVIOUS
  <2>3. t \in Seq(Nat) /\ Len(t) = 9
    <3>1. /\ t \in Seq(Nat) /\ Len(t) = Len(z) + Len(u)
          /\ \A i \in 1..Len(z) : t[i] = z[i]
          /\ \A i \in 1..Len(u) : t[Len(z) + i] = u[i]
      <4>1. z \in Seq(Nat) /\ u \in Seq(Nat) /\ t = z \o u
        BY ONLY <1>5, <2>2, u \in Seq(Nat)
      <4> QED
        BY ONLY <4>1, AppendedBytes
    <3> QED
      BY ONLY <1>5, <1>6, <3>1
  <2>4. Leads(w, s, Len(t))
    <3>1. t \in Seq(Nat) /\ s = <<c, d>> /\ w = s \o t
      BY ONLY <1>3, <2>2, <2>3
    <3> QED
      BY ONLY <3>1, c \in Nat, d \in Nat, SerialFirst
  <2>5. w \in Seq(Nat) /\ Len(w) = 11 /\ SubSeq(w, 1, 2) = s
    BY ONLY <2>3, <2>4 DEF Leads
  <2>6. A = WriteJTT808Msg(id, w, h)
    <3>1. (s \o z) \o u = s \o (z \o u)
      BY ONLY <1>3, <1>5, u \in Seq(Nat), Grouped
    <3>2. A = WriteJTT808Msg(id, (h.serial \o <<0>>) \o AuthCode, h)
      BY ONLY A = Reply(h), <1>9, <2>1 DEF Reply
    <3> QED
      BY ONLY <1>3, <1>4, <1>6, <2>2, <3>1, <3>2
  <2>7. id \in Word
    BY ONLY <2>1, Is8100
  <2>8. Begins(id, w)
    <3>1. w \in Seq(Nat) /\ Len(w) >= 3
      BY ONLY <2>5
    <3>2. Begins(\h8100, w)
      BY ONLY <3>1, Begins8100
    <3> QED
      BY ONLY <2>1, <3>2
  <2>9. Len(w) < 256
    BY ONLY <2>5
  <2>10. SubSeq(w, 1, 2) = m.serial /\ w \in Seq(Nat)
    BY ONLY <1>2, <2>5
  <2> QED
    BY ONLY Good(m), h = ParseJTT808MsgHeader(b), Parsed(h, m), Unescaped(A, h), <2>6, <2>7, <2>8,
            <2>9, <2>10, WrittenReadable
<1>10. CASE h.id # \h0100
  <2>1. PICK id : id = \h8001
    OBVIOUS
  <2>2. PICK t, w : t = v \o z /\ w = s \o t
    OBVIOUS
  <2>3. t \in Seq(Nat) /\ Len(t) = 3
    <3>1. /\ t \in Seq(Nat) /\ Len(t) = Len(v) + Len(z)
          /\ \A i \in 1..Len(v) : t[i] = v[i]
          /\ \A i \in 1..Len(z) : t[Len(v) + i] = z[i]
      <4>1. z \in Seq(Nat) /\ v \in Seq(Nat) /\ t = v \o z
        BY ONLY <1>5, <1>8, <2>2
      <4> QED
        BY ONLY <4>1, AppendedBytes
    <3> QED
      BY ONLY <1>5, <1>8, <3>1
  <2>4. Leads(w, s, Len(t))
    <3>1. t \in Seq(Nat) /\ s = <<c, d>> /\ w = s \o t
      BY ONLY <1>3, <2>2, <2>3
    <3> QED
      BY ONLY <3>1, c \in Nat, d \in Nat, SerialFirst
  <2>5. w \in Seq(Nat) /\ Len(w) = 5 /\ SubSeq(w, 1, 2) = s
    BY ONLY <2>3, <2>4 DEF Leads
  <2>6. A = WriteJTT808Msg(id, w, h)
    <3>1. (s \o v) \o z = s \o (v \o z)
      BY ONLY <1>3, <1>5, <1>8, Grouped
    <3>2. A = WriteJTT808Msg(id, (h.serial \o U16(h.id)) \o <<0>>, h)
      BY ONLY A = Reply(h), <1>10, <2>1 DEF Reply
    <3> QED
      BY ONLY <1>3, <1>4, <1>7, <2>2, <3>1, <3>2
  <2>7. id \in Word
    BY ONLY <2>1, Is8001
  <2>8. Begins(id, w)
    <3>1. w \in Seq(Nat) /\ Len(w) >= 5
      BY ONLY <2>5
    <3>2. Begins(\h8001, w)
      BY ONLY <3>1, Begins8001
    <3> QED
      BY ONLY <2>1, <3>2
  <2>9. Len(w) < 256
    BY ONLY <2>5
  <2>10. SubSeq(w, 1, 2) = m.serial /\ w \in Seq(Nat)
    BY ONLY <1>2, <2>5
  <2> QED
    BY ONLY Good(m), h = ParseJTT808MsgHeader(b), Parsed(h, m), Unescaped(A, h), <2>6, <2>7, <2>8,
            <2>9, <2>10, WrittenReadable
<1> QED
  BY ONLY <1>9, <1>10

-----------------------------------------------------------------------------
(* What has been asked, and that each of it has been answered.              *)
Asks(x)    == x.cmd.ok /\ x.header.id \in {\h0100, \h0102}
AskOf(x)   == IF Asks(x) THEN <<x.header>> ELSE <<>>
Asking(hs) == FlattenSeq([k \in DOMAIN hs |-> AskOf(hs[k])])

Askers(hs) == {hs[k].header : k \in {j \in DOMAIN hs : Asks(hs[j])}}

LEMMA AskedIs == Asked = Asking(handled) /\ Asked' = Asking(handled')
<1>1. Asked = Asking(handled)
  BY ONLY Zenon DEF Asked, Asking, AskOf, Asks
<1>2. Asked' = Asking(handled')
  BY ONLY Zenon DEF Asked, Asking, AskOf, Asks
<1> QED
  BY ONLY <1>1, <1>2

LEMMA AskingParts ==
  ASSUME NEW R, NEW hs \in Seq(R), NEW D, D = [k \in DOMAIN hs |-> AskOf(hs[k])]
  PROVE  D \in Seq(Seq(Askers(hs))) /\ Len(D) = Len(hs)
<1>1. PICK n \in Nat : n = Len(hs) /\ DOMAIN hs = 1..n
  OBVIOUS
<1>2. PICK T : T = Askers(hs)
  OBVIOUS
<1>3. ASSUME NEW k \in 1..n
      PROVE  AskOf(hs[k]) \in Seq(T)
  <2>1. PICK y : y = hs[k].header
    OBVIOUS
  <2>2. CASE Asks(hs[k])
    <3>1. y \in T
      BY ONLY <1>1, <1>2, <2>1, <2>2, k \in 1..n DEF Askers
    <3>2. <<y>> \in Seq(T)
      BY ONLY <3>1
    <3> QED
      BY ONLY <2>1, <2>2, <3>2 DEF AskOf
  <2>3. CASE ~Asks(hs[k])
    <3>1. <<>> \in Seq(T)
      OBVIOUS
    <3> QED
      BY ONLY <2>3, <3>1 DEF AskOf
  <2> QED
    BY ONLY <2>2, <2>3
<1>4. D \in [1..n -> Seq(T)]
  BY ONLY <1>1, <1>3, D = [k \in DOMAIN hs |-> AskOf(hs[k])]
<1> QED
  BY ONLY <1>1, <1>2, <1>4, n \in Nat

LEMMA AskingType ==
  ASSUME NEW R, NEW hs \in Seq(R)
  PROVE  Asking(hs) \in Seq(Askers(hs))
<1>1. PICK D : D = [k \in DOMAIN hs |-> AskOf(hs[k])]
  OBVIOUS
<1>2. D \in Seq(Seq(Askers(hs)))
  BY ONLY hs \in Seq(R), <1>1, AskingParts
<1>3. FlattenSeq(D) \in Seq(Askers(hs))
  BY ONLY <1>2, FlattenType
<1> QED
  BY ONLY <1>1, <1>3 DEF Asking

LEMMA AskingMore ==
  ASSUME NEW R, NEW hs \in Seq(R), NEW x \in R, NEW ks, ks = Append(hs, x)
  PROVE  Asking(ks) = Asking(hs) \o AskOf(x)
<1>1. PICK n \in Nat : n = Len(hs) /\ DOMAIN hs = 1..n
  OBVIOUS
<1>2. PICK i : i = n + 1
  OBVIOUS
<1>3. i \in Nat /\ i - 1 = n /\ i \in 1..i
  BY ONLY <1>2, n \in Nat
<1>4. /\ ks \in Seq(R) /\ Len(ks) = i /\ DOMAIN ks = 1..i
      /\ ks[i] = x /\ \A k \in 1..n : ks[k] = hs[k]
  BY ONLY hs \in Seq(R), x \in R, ks = Append(hs, x), <1>1, <1>2, n \in Nat
<1>5. PICK C, D : C = [k \in DOMAIN hs |-> AskOf(hs[k])] /\ D = [k \in DOMAIN ks |-> AskOf(ks[k])]
  OBVIOUS
<1>6. PICK T : T = Askers(ks)
  OBVIOUS
<1>7. D \in Seq(Seq(T)) /\ Len(D) = i
  <2>1. ks \in Seq(R) /\ D = [k \in DOMAIN ks |-> AskOf(ks[k])]
    BY ONLY <1>4, <1>5
  <2>2. D \in Seq(Seq(Askers(ks))) /\ Len(D) = Len(ks)
    BY ONLY <2>1, AskingParts
  <2> QED
    BY ONLY <1>4, <1>6, <2>2
<1>8. FlattenSeq(SubSeq(D, 1, i)) = FlattenSeq(SubSeq(D, 1, i - 1)) \o D[i]
  <2>1. D \in Seq(Seq(T)) /\ i \in 1..Len(D)
    BY ONLY <1>3, <1>7
  <2> QED
    BY ONLY <2>1, FlattenStep
<1>9. D[i] = AskOf(x)
  BY ONLY <1>3, <1>4, <1>5
<1>10. SubSeq(D, 1, i) = D
  BY ONLY <1>7, <1>3
<1>11. SubSeq(D, 1, n) = C
  <2>1. PICK U : U = Seq(T)
    OBVIOUS
  <2>2. D \in Seq(U) /\ n \in 0..Len(D)
    BY ONLY <1>2, <1>7, <2>1, n \in Nat
  <2>3. PICK E : E = SubSeq(D, 1, n)
    OBVIOUS
  <2>4. E \in Seq(U) /\ Len(E) = n /\ \A k \in 1..n : E[k] = D[k]
    BY ONLY <2>2, <2>3
  <2>5. \A k \in 1..n : k \in 1..i
    BY ONLY <1>2, n \in Nat
  <2>6. \A k \in 1..n : E[k] = AskOf(hs[k])
    BY ONLY <1>4, <1>5, <2>4, <2>5
  <2>7. E = [k \in 1..n |-> AskOf(hs[k])]
    <3>1. E = [k \in 1..n |-> E[k]]
      BY ONLY <2>4
    <3> QED
      BY ONLY <2>6, <3>1
  <2> QED
    BY ONLY <1>1, <1>5, <2>3, <2>7
<1> QED
  BY ONLY <1>3, <1>5, <1>8, <1>9, <1>10, <1>11 DEF Asking

(* Each request has its answer, in the order of the requests.               *)
Replies(a) == [k \in 1..Len(a) |-> Reply(a[k])]

Answering == answers = Replies(Asked)

LEMMA AnswerIsReply ==
  ASSUME NEW h
  PROVE  Answer(h) = IF h.id \in {\h0100, \h0102} THEN <<Reply(h)>> ELSE <<>>
<1>1. CASE h.id = \h0100
  BY ONLY <1>1, SMT DEF Answer, Reply
<1>2. CASE h.id = \h0102
  BY ONLY <1>2, SMT DEF Answer, Reply
<1>3. CASE ~(h.id \in {\h0100, \h0102})
  BY ONLY <1>3, SMT DEF Answer
<1> QED
  BY ONLY <1>1, <1>2, <1>3

LEMMA RepliesMore ==
  ASSUME NEW T, NEW a \in Seq(T), NEW h \in T
  PROVE  Replies(a \o <<h>>) = Replies(a) \o <<Reply(h)>>
<1>1. PICK n \in Nat : n = Len(a)
  OBVIOUS
<1>2. PICK b : b = a \o <<h>>
  OBVIOUS
<1>3. /\ b \in Seq(T) /\ Len(b) = n + 1 /\ b[n + 1] = h
      /\ \A k \in 1..n : b[k] = a[k]
  BY ONLY <1>1, <1>2, a \in Seq(T), h \in T
<1> DEFINE V == {Reply(y) : y \in T}
<1>4. \A k \in 1..n : Reply(a[k]) \in V
  BY ONLY <1>1, a \in Seq(T)
<1>5. Reply(h) \in V
  BY ONLY h \in T
<1> HIDE DEF V
<1>6. PICK p, q, r : p = Replies(a) /\ q = Replies(b) /\ r = Reply(h)
  OBVIOUS
<1>7. p \in Seq(V) /\ Len(p) = n /\ \A k \in 1..n : p[k] = Reply(a[k])
  BY ONLY <1>1, <1>4, <1>6, n \in Nat DEF Replies
<1>8. PICK s : s = p \o <<r>>
  OBVIOUS
<1>9. /\ s \in Seq(V) /\ Len(s) = n + 1 /\ s[n + 1] = r
      /\ \A k \in 1..n : s[k] = p[k]
  <2>1. r \in V /\ p \in Seq(V) /\ Len(p) = n
    BY ONLY <1>5, <1>6, <1>7
  <2> QED
    BY ONLY <1>8, <2>1, n \in Nat
<1>10. ASSUME NEW k \in 1..(n + 1)
       PROVE  s[k] = Reply(b[k])
  <2>1. k \in 1..n \/ k = n + 1
    BY ONLY n \in Nat, k \in 1..(n + 1)
  <2>2. CASE k \in 1..n
    BY ONLY <1>3, <1>7, <1>9, <2>2
  <2>3. CASE k = n + 1
    BY ONLY <1>3, <1>6, <1>9, <2>3
  <2> QED
    BY ONLY <2>1, <2>2, <2>3
<1>11. s = [k \in 1..(n + 1) |-> Reply(b[k])]
  <2>1. s = [k \in 1..(n + 1) |-> s[k]]
    BY ONLY <1>9
  <2> QED
    BY ONLY <1>10, <2>1
<1> QED
  BY ONLY <1>2, <1>3, <1>6, <1>8, <1>11 DEF Replies

LEMMA HandleAnswers ==
  ASSUME FramesInv, Answering, cmdHandle
  PROVE  Answering'
<1>1. PICK W, at, G, g : /\ Laying(W, at, G, g)
                         /\ \E r, c, p, h : Reading(W, at, r, c, p) /\ Passing(G, g, c, h)
  BY ONLY FramesInv DEF FramesInv
<1>2. PICK r, c, p, h : Reading(W, at, r, c, p) /\ Passing(G, g, c, h)
  BY ONLY <1>1
<1>3. h \in Nat /\ handled = [x \in 1..h |-> Parse(G[x])]
  BY ONLY <1>2 DEF Passing
<1>4. PICK x : x = Parse(Head(datach))
  OBVIOUS
<1>5. /\ handled' = Append(handled, x)
      /\ answers' = IF x.cmd.ok THEN answers \o Answer(x.header) ELSE answers
  BY ONLY cmdHandle, <1>4, Zenon DEF cmdHandle
<1>6. PICK R : R = {Parse(G[k]) : k \in 1..h} \cup {x}
  OBVIOUS
<1>7. handled \in Seq(R) /\ x \in R
  <2>1. x \in R /\ \A k \in 1..h : Parse(G[k]) \in R
    BY ONLY <1>6
  <2>2. handled \in [1..h -> R]
    BY ONLY <1>3, <2>1
  <2> QED
    BY ONLY <1>3, <2>1, <2>2
<1>8. PICK a, b : a = Asked /\ b = Asked'
  OBVIOUS
<1>9. b = a \o AskOf(x)
  <2>1. Asking(handled') = Asking(handled) \o AskOf(x)
    BY ONLY <1>5, <1>7, AskingMore
  <2> QED
    BY ONLY <1>8, <2>1, AskedIs
<1>10. PICK T : T = Askers(handled) \cup {x.header}
  OBVIOUS
<1>11. a \in Seq(T) /\ x.header \in T
  <2>1. Asking(handled) \in Seq(Askers(handled))
    BY ONLY <1>7, AskingType
  <2>2. PICK Q : Q = Askers(handled)
    OBVIOUS
  <2>3. a \in Seq(Q) /\ Q \subseteq T /\ x.header \in T
    BY ONLY <1>8, <1>10, <2>1, <2>2, AskedIs
  <2> QED
    BY ONLY <2>3
<1>12. answers = Replies(a)
  BY ONLY Answering, <1>8 DEF Answering
<1>13. answers' = Replies(b)
  <2>1. PICK y : y = x.header
    OBVIOUS
  <2>2. CASE Asks(x)
    <3>1. AskOf(x) = <<y>> /\ x.cmd.ok /\ y.id \in {\h0100, \h0102}
      BY ONLY <2>1, <2>2 DEF AskOf, Asks
    <3>2. Answer(y) = <<Reply(y)>>
      BY ONLY <3>1, AnswerIsReply
    <3>3. Replies(a \o <<y>>) = Replies(a) \o <<Reply(y)>>
      BY ONLY <1>11, <2>1, RepliesMore
    <3> QED
      BY ONLY <1>5, <1>9, <1>12, <2>1, <3>1, <3>2, <3>3
  <2>3. CASE ~Asks(x)
    <3>1. a \o <<>> = a
      BY ONLY <1>11
    <3>2. b = a
      BY ONLY <1>9, <2>3, <3>1 DEF AskOf
    <3>3. PICK s : s = answers
      OBVIOUS
    <3>4. s \o <<>> = s
      <4>1. PICK V : V = {Reply(a[k]) : k \in 1..Len(a)}
        OBVIOUS
      <4>2. \A k \in 1..Len(a) : Reply(a[k]) \in V
        BY ONLY <4>1
      <4>3. s \in [1..Len(a) -> V] /\ Len(a) \in Nat
        BY ONLY <1>11, <1>12, <3>3, <4>2 DEF Replies
      <4>4. s \in Seq(V)
        BY ONLY <4>3
      <4> QED
        BY ONLY <4>4
    <3>5. x.cmd.ok => Answer(y) = <<>>
      <4>1. x.cmd.ok => ~(y.id \in {\h0100, \h0102})
        BY ONLY <2>1, <2>3 DEF Asks
      <4>2. Answer(y) = IF y.id \in {\h0100, \h0102} THEN <<Reply(y)>> ELSE <<>>
        BY ONLY AnswerIsReply
      <4> QED
        BY ONLY <4>1, <4>2
    <3> QED
      BY ONLY <1>5, <1>12, <2>1, <3>2, <3>3, <3>4, <3>5
  <2> QED
    BY ONLY <2>2, <2>3
<1> QED
  BY ONLY <1>8, <1>13 DEF Answering

LEMMA AnsweringInit == Init => Answering
<1> SUFFICES ASSUME Init
             PROVE  Answering
  OBVIOUS
<1>1. handled = <<>> /\ answers = <<>>
  BY ONLY Init, Zenon DEF Init
<1>2. [k \in DOMAIN <<>> |-> AskOf(handled[k])] = <<>>
  OBVIOUS
<1>3. Asking(handled) = <<>>
  BY ONLY <1>1, <1>2, FlattenEmpty DEF Asking
<1>4. Asked = <<>>
  BY ONLY <1>3, AskedIs
<1>5. Replies(<<>>) = <<>>
  BY ONLY SMT DEF Replies
<1> QED
  BY ONLY <1>1, <1>4, <1>5 DEF Answering

-----------------------------------------------------------------------------
(* What has been handled is what was due.                                   *)
HandledIs(m, x) ==
  /\ Good(m) /\ \E i \in 1..Len(stream) : m = stream[i]
  /\ x = Parse(Got(m)) /\ x.header = ParseJTT808MsgHeader(Got(m).header)
  /\ Parsed(x.header, m)

Handling(due, hs) ==
  /\ DOMAIN hs = 1..Len(hs) /\ Len(hs) \in Nat
  /\ \A k \in 1..Len(hs) : HandledIs(due[k], hs[k])

LEMMA HandledDue ==
  ASSUME FramesInv, NEW due, due = Deliverable
  PROVE  Handling(due, handled)
<1>1. PICK W, at, G, g : /\ Laying(W, at, G, g)
                         /\ \E r, c, p, h : Reading(W, at, r, c, p) /\ Passing(G, g, c, h)
  BY ONLY FramesInv DEF FramesInv
<1>2. PICK r, c, p, h : Reading(W, at, r, c, p) /\ Passing(G, g, c, h)
  BY ONLY <1>1
<1>3. Matches(due, G, g[c])
  <2>1. Matches(Deliverable, G, g[c])
    BY ONLY <1>1, <1>2, DueIs
  <2> QED
    BY ONLY <2>1, due = Deliverable
<1>4. PICK n : n = g[c]
  OBVIOUS
<1>5. \A k \in 1..n : \E i \in 1..Len(stream) : due[k] = stream[i] /\ G[k] = Got(stream[i])
  BY ONLY <1>3, <1>4 DEF Matches
<1>6. h \in Nat /\ h <= n /\ handled = [x \in 1..h |-> Parse(G[x])]
  BY ONLY <1>2, <1>4 DEF Passing
<1>7. n \in Nat
  <2>1. Laid(W, stream, at, G, g)
    BY ONLY <1>1 DEF Laying
  <2>2. c \in 0..Len(stream)
    BY ONLY <1>2 DEF Reading, Complete
  <2>3. \A i \in 0..Len(stream) : g[i] \in Nat
    BY ONLY <2>1 DEF Laid
  <2> QED
    BY ONLY <1>4, <2>2, <2>3
<1>8. Len(handled) = h /\ DOMAIN handled = 1..h
  BY ONLY <1>6
<1>9. ASSUME NEW k \in 1..h
      PROVE  HandledIs(due[k], handled[k])
  <2>1. k \in 1..n
    BY ONLY <1>6, <1>7, k \in 1..h
  <2>2. PICK i \in 1..Len(stream) : due[k] = stream[i] /\ G[k] = Got(stream[i])
    BY ONLY <1>5, <2>1
  <2>3. PICK m, x : m = due[k] /\ x = handled[k]
    OBVIOUS
  <2>4. m = stream[i] /\ x = Parse(Got(m))
    BY ONLY <1>6, <2>2, <2>3, k \in 1..h
  <2>5. Good(m)
    <3>1. stream \in Streams
      BY ONLY <1>1 DEF Laying
    <3>2. stream \in Seq(Message) /\ \A y \in 1..Len(stream) : Good(stream[y])
      BY ONLY <3>1, GoodStream
    <3> QED
      BY ONLY <2>4, <3>2, i \in 1..Len(stream)
  <2>6. PICK b, q : b = Got(m).header /\ q = ParseJTT808MsgHeader(b)
    OBVIOUS
  <2>7. x.header = q
    BY ONLY <2>4, <2>6 DEF Parse
  <2>8. Header(m, b)
    <3>1. Header(m, b) /\ Got(m).body = Write(m.id, m.n, m.base)
      BY ONLY <2>5, <2>6, GotHeader
    <3> QED
      BY ONLY <3>1
  <2>9. Parsed(q, m)
    BY ONLY <2>5, <2>6, <2>8, HeaderParsed
  <2>10. Parsed(x.header, m)
    BY ONLY <2>7, <2>9
  <2>11. x.header = ParseJTT808MsgHeader(Got(m).header)
    BY ONLY <2>6, <2>7
  <2>12. HandledIs(m, x)
    BY ONLY <2>4, <2>5, <2>10, <2>11, i \in 1..Len(stream) DEF HandledIs
  <2> QED
    BY ONLY <2>3, <2>12
<1> QED
  BY ONLY <1>6, <1>8, <1>9 DEF Handling

LEMMA InvAnswers ==
  ASSUME FramesInv, Answering
  PROVE  AnswersReadable
<1>1. PICK due : due = Deliverable
  OBVIOUS
<1>2. PICK n \in Nat : n = Len(handled) /\ DOMAIN handled = 1..n
                        /\ \A k \in 1..n : HandledIs(due[k], handled[k])
  <2>1. Handling(due, handled)
    BY ONLY FramesInv, <1>1, HandledDue
  <2> QED
    BY ONLY <2>1 DEF Handling
<1>3. PICK a, T : a = Asked /\ T = Askers(handled)
  OBVIOUS
<1>4. a \in Seq(T)
  <2>1. PICK R : R = {handled[k] : k \in 1..n}
    OBVIOUS
  <2>2. handled \in Seq(R)
    <3>1. handled = [k \in 1..n |-> handled[k]]
      <4>1. PICK W, at, G, g : \E r, c, p, h : Reading(W, at, r, c, p) /\ Passing(G, g, c, h)
        BY ONLY FramesInv DEF FramesInv
      <4>2. PICK r, c, p, h : Passing(G, g, c, h)
        BY ONLY <4>1
      <4>3. h \in Nat /\ handled = [x \in 1..h |-> Parse(G[x])]
        BY ONLY <4>2 DEF Passing
      <4> QED
        BY ONLY <1>2, <4>3
    <3>2. \A k \in 1..n : handled[k] \in R
      BY ONLY <2>1
    <3>3. handled \in [1..n -> R]
      BY ONLY <3>1, <3>2
    <3> QED
      BY ONLY <3>3, n \in Nat
  <2>3. Asking(handled) \in Seq(Askers(handled))
    BY ONLY <2>2, AskingType
  <2> QED
    BY ONLY <1>3, <2>3, AskedIs
<1>5. PICK s : s = answers
  OBVIOUS
<1>6. s = [k \in 1..Len(a) |-> Reply(a[k])]
  BY ONLY Answering, <1>3, <1>5 DEF Answering, Replies
<1>7. Len(s) = Len(a) /\ DOMAIN s = 1..Len(a)
  <2>1. Len(a) \in Nat
    BY ONLY <1>4
  <2> QED
    BY ONLY <1>6, <2>1
<1>8. ASSUME NEW k \in 1..Len(a), NEW h, h = a[k], Unescaped(s[k], h)
      PROVE  Readable(s[k], h)
  <2>1. h \in T
    BY ONLY <1>4, <1>8, k \in 1..Len(a)
  <2>2. PICK j \in 1..n : h = handled[j].header /\ Asks(handled[j])
    BY ONLY <1>2, <1>3, <2>1 DEF Askers
  <2>3. h.id \in {\h0100, \h0102}
    BY ONLY <2>2 DEF Asks
  <2>4. HandledIs(due[j], handled[j])
    BY ONLY <1>2, j \in 1..n
  <2>5. PICK m, b : m = due[j] /\ b = Got(m).header
    OBVIOUS
  <2>6. Good(m) /\ h = ParseJTT808MsgHeader(b) /\ Parsed(h, m)
    BY ONLY <2>2, <2>4, <2>5 DEF HandledIs
  <2>7. PICK A : A = s[k]
    OBVIOUS
  <2>8. A = Reply(h)
    BY ONLY <1>6, <1>8, <2>7, k \in 1..Len(a)
  <2>9. Unescaped(A, h)
    BY ONLY <1>8, <2>7
  <2>10. Readable(A, h)
    BY ONLY <2>3, <2>6, <2>8, <2>9, ReplyReadable
  <2> QED
    BY ONLY <2>7, <2>10
<1>9. Len(answers) = Len(Asked) /\ DOMAIN answers = 1..Len(a)
  BY ONLY <1>3, <1>5, <1>7
<1>10. \A k \in DOMAIN answers : Unescaped(answers[k], Asked[k]) => Readable(answers[k], Asked[k])
  BY ONLY <1>3, <1>5, <1>8, <1>9
<1> QED
  BY ONLY <1>9, <1>10, Zenon DEF AnswersReadable, Unescaped, Readable

(* A registration or an authentication is answered, in the order they came, *)
(* with a frame GetNextJTT808Msg and Parse take apart again, to the same    *)
(* phone number and about the same serial number, unless the request came   *)
(* in packages or the answer needs an escape (WriteJTT808Msg, cmdHandle).   *)
THEOREM AnswersRead == Spec => []AnswersReadable
<1>1. FramesInv /\ Answering /\ [Next]_vars => Answering'
  <2> SUFFICES ASSUME FramesInv, Answering, [Next]_vars
               PROVE  Answering'
    OBVIOUS
  <2>1. CASE cmdHandle
    BY ONLY FramesInv, Answering, <2>1, HandleAnswers
  <2>2. CASE handled' = handled /\ answers' = answers
    <3>1. Asked' = Asked
      BY ONLY <2>2, AskedIs
    <3> QED
      BY ONLY Answering, <2>2, <3>1 DEF Answering
  <2>3. ASSUME NEW k \in Chunks, Read(k)
        PROVE  Answering'
    <3>1. handled' = handled /\ answers' = answers
      BY ONLY <2>3, Zenon DEF Read
    <3> QED
      BY ONLY <2>2, <3>1
  <2>4. CASE UNCHANGED vars
    <3>1. handled' = handled /\ answers' = answers
      BY ONLY <2>4 DEF vars
    <3> QED
      BY ONLY <2>2, <3>1
  <2> QED
    BY <2>1, <2>3, <2>4 DEF Next
<1>2. FramesInv /\ Answering => AnswersReadable
  BY InvAnswers
<1> QED
  BY <1>1, <1>2, AnsweringInit, FramesInductive, PTL DEF Spec

-----------------------------------------------------------------------------
(* The fields of a body, written one behind the other.                      *)
Fields == [size : Nat, own : BOOLEAN, holds : Nat]

Spread(at, w, b, base) ==
  /\ at[0] = 0 /\ at[Len(w)] = Len(b) /\ b \in Seq(Nat)
  /\ \A i \in 0..Len(w) : at[i] \in Nat /\ at[i] <= Len(b)
  /\ \A i \in 1..Len(w) :
       /\ at[i] = at[i - 1] + w[i].size
       /\ \A j \in 1..w[i].size : b[at[i - 1] + j] = FieldBytes(w[i], i, base)[j]

LEMMA FieldType ==
  ASSUME NEW f \in Fields, NEW i \in Nat, NEW base \in Nat
  PROVE  FieldBytes(f, i, base) \in Seq(Nat) /\ Len(FieldBytes(f, i, base)) = f.size
<1>1. PICK s \in Nat : s = f.size
  BY DEF Fields
<1>2. PICK v : v = FieldBytes(f, i, base)
  OBVIOUS
<1>3. v = [j \in 1..s |-> IF f.own THEN base + i ELSE IF j = s THEN f.holds ELSE 0]
  BY ONLY <1>1, <1>2 DEF FieldBytes
<1>4. f.holds \in Nat /\ base + i \in Nat
  BY DEF Fields
<1>5. v \in [1..s -> Nat]
  <2>1. CASE f.own
    <3>1. v = [j \in 1..s |-> base + i]
      BY ONLY <1>3, <2>1
    <3> QED
      BY ONLY <1>4, <3>1
  <2>2. CASE ~f.own
    <3>1. v = [j \in 1..s |-> IF j = s THEN f.holds ELSE 0]
      BY ONLY <1>3, <2>2
    <3> QED
      BY ONLY <1>4, <3>1
  <2> QED
    BY ONLY <2>1, <2>2
<1>6. v \in Seq(Nat) /\ Len(v) = s
  BY ONLY <1>5, s \in Nat
<1> QED
  BY ONLY <1>1, <1>2, <1>6

LEMMA SpreadExists ==
  ASSUME NEW w \in Seq(Fields), NEW base \in Nat,
         NEW F, F = [i \in DOMAIN w |-> FieldBytes(w[i], i, base)],
         NEW b, b = FlattenSeq(F)
  PROVE  \E at : Spread(at, w, b, base)
<1>1. PICK n \in Nat : n = Len(w) /\ DOMAIN w = 1..n
  OBVIOUS
<1>2. ASSUME NEW i \in 1..n
      PROVE  F[i] = FieldBytes(w[i], i, base) /\ F[i] \in Seq(Nat) /\ Len(F[i]) = w[i].size
  <2>1. PICK f : f = w[i]
    OBVIOUS
  <2>2. f \in Fields /\ i \in Nat
    BY ONLY <1>1, <2>1, w \in Seq(Fields), i \in 1..n
  <2>3. FieldBytes(f, i, base) \in Seq(Nat) /\ Len(FieldBytes(f, i, base)) = f.size
    BY ONLY <2>2, base \in Nat, FieldType
  <2>4. F[i] = FieldBytes(f, i, base)
    BY ONLY <1>1, <2>1, F = [k \in DOMAIN w |-> FieldBytes(w[k], k, base)], i \in 1..n
  <2> QED
    BY ONLY <2>1, <2>3, <2>4
<1>3. F \in Seq(Seq(Nat)) /\ Len(F) = n
  <2>1. F = [i \in 1..n |-> F[i]]
    BY ONLY <1>1, F = [k \in DOMAIN w |-> FieldBytes(w[k], k, base)]
  <2>2. F \in [1..n -> Seq(Nat)]
    BY ONLY <1>2, <2>1
  <2> QED
    BY ONLY <2>2, n \in Nat
<1>4. PICK at : Places(at, F, b)
  <2>1. \E at : Places(at, F, FlattenSeq(F))
    BY ONLY <1>3, FlattenPlaces
  <2> QED
    BY ONLY <2>1, b = FlattenSeq(F)
<1>5. b \in Seq(Nat)
  <2>1. FlattenSeq(F) \in Seq(Nat)
    BY ONLY <1>3, FlattenType
  <2> QED
    BY ONLY <2>1, b = FlattenSeq(F)
<1>6. /\ at \in [0..n -> 0..Len(b)] /\ at[0] = 0 /\ at[n] = Len(b)
      /\ \A i \in 1..n : /\ at[i] = at[i - 1] + Len(F[i])
                         /\ \A k \in 1..Len(F[i]) : b[at[i - 1] + k] = F[i][k]
  BY ONLY <1>3, <1>4 DEF Places
<1>7. \A i \in 0..n : at[i] \in Nat /\ at[i] <= Len(b)
  <2>1. Len(b) \in Nat
    BY ONLY <1>5
  <2> QED
    BY ONLY <1>6, <2>1
<1>8. \A i \in 1..n : /\ at[i] = at[i - 1] + w[i].size
                      /\ \A j \in 1..w[i].size : b[at[i - 1] + j] = FieldBytes(w[i], i, base)[j]
  <2> SUFFICES ASSUME NEW i \in 1..n
               PROVE  /\ at[i] = at[i - 1] + w[i].size
                      /\ \A j \in 1..w[i].size :
                           b[at[i - 1] + j] = FieldBytes(w[i], i, base)[j]
    OBVIOUS
  <2>1. PICK u, z : u = F[i] /\ z = w[i].size
    OBVIOUS
  <2>2. u = FieldBytes(w[i], i, base) /\ Len(u) = z
    BY ONLY <1>2, <2>1, i \in 1..n
  <2>3. at[i] = at[i - 1] + Len(u) /\ \A k \in 1..Len(u) : b[at[i - 1] + k] = u[k]
    BY ONLY <1>6, <2>1, i \in 1..n
  <2> QED
    BY ONLY <2>1, <2>2, <2>3
<1>9. Spread(at, w, b, base)
  BY ONLY <1>1, <1>5, <1>6, <1>7, <1>8 DEF Spread
<1> QED
  BY ONLY <1>9

(* A body is read as it was written where one field is asked for behind the *)
(* other, each of its length.                                               *)
Consecutive(w, r) ==
  /\ DOMAIN r = 1..Len(w)
  /\ \A i \in 1..Len(w) : r[i].n = w[i].size
  /\ Len(w) # 0 => r[1].pos = 0
  /\ \A i \in 2..Len(w) : r[i].pos = r[i - 1].pos + r[i - 1].n

Located(w, r, b, base) ==
  /\ [i \in DOMAIN r |-> ReadByteSlice(b, r[i].pos, r[i].n)] =
       [i \in DOMAIN w |-> FieldBytes(w[i], i, base)]
  /\ b \in Seq(Nat)
  /\ Len(w) = 0 => Len(b) = 0
  /\ Len(w) # 0 => Len(b) = r[Len(w)].pos + r[Len(w)].n
  /\ \A i \in 1..Len(w) :
       ~w[i].own /\ w[i].size # 0 => U8(b, r[i].pos + w[i].size - 1) = w[i].holds

LEMMA FieldsRead ==
  ASSUME NEW w \in Seq(Fields), NEW base \in Nat, NEW b, NEW at, Spread(at, w, b, base),
         NEW r, Consecutive(w, r)
  PROVE  Located(w, r, b, base)
<1>1. PICK n \in Nat : n = Len(w) /\ DOMAIN w = 1..n
  OBVIOUS
<1>2. /\ at[0] = 0 /\ at[n] = Len(b) /\ b \in Seq(Nat)
      /\ \A i \in 0..n : at[i] \in Nat /\ at[i] <= Len(b)
      /\ \A i \in 1..n :
           /\ at[i] = at[i - 1] + w[i].size
           /\ \A j \in 1..w[i].size : b[at[i - 1] + j] = FieldBytes(w[i], i, base)[j]
  BY ONLY Spread(at, w, b, base), <1>1 DEF Spread
<1>3. /\ DOMAIN r = 1..n
      /\ \A i \in 1..n : r[i].n = w[i].size
      /\ n # 0 => r[1].pos = 0
      /\ \A i \in 2..n : r[i].pos = r[i - 1].pos + r[i - 1].n
  BY ONLY Consecutive(w, r), <1>1 DEF Consecutive
<1> DEFINE S == {i \in Nat : i + 1 <= n => r[i + 1].pos = at[i]}
<1>4. 0 \in S
  <2>1. 0 + 1 <= n => n # 0 /\ 0 + 1 = 1
    BY ONLY n \in Nat
  <2>2. 0 + 1 <= n => r[0 + 1].pos = at[0]
    BY ONLY <1>2, <1>3, <2>1
  <2> QED
    BY <2>2
<1>5. ASSUME NEW j \in Nat, j \in S
      PROVE  j + 1 \in S
  <2> SUFFICES ASSUME (j + 1) + 1 <= n
               PROVE  r[(j + 1) + 1].pos = at[j + 1]
    OBVIOUS
  <2>1. PICK i : i = j + 1
    OBVIOUS
  <2>2. i \in 1..n /\ i + 1 \in 2..n /\ i - 1 = j /\ (i + 1) - 1 = i /\ j + 1 <= n
    BY ONLY <2>1, (j + 1) + 1 <= n, j \in Nat, n \in Nat
  <2>3. r[i].pos = at[j]
    BY <1>5, <2>1, <2>2
  <2>4. r[i + 1].pos = r[i].pos + r[i].n
    BY ONLY <1>3, <2>2
  <2>5. at[i] = at[j] + r[i].n
    BY ONLY <1>2, <1>3, <2>2
  <2> QED
    BY ONLY <2>1, <2>3, <2>4, <2>5
<1>6. Nat \subseteq S
  <2> HIDE DEF S
  <2> QED
    BY ONLY <1>4, <1>5, SetInduction
<1>7. ASSUME NEW i \in 1..n
      PROVE  r[i].pos = at[i - 1]
  <2>1. i - 1 \in Nat /\ (i - 1) + 1 = i /\ i <= n
    BY ONLY n \in Nat, i \in 1..n
  <2>2. i - 1 \in S
    <3> HIDE DEF S
    <3> QED
      BY ONLY <1>6, <2>1
  <2>3. r[(i - 1) + 1].pos = at[i - 1]
    BY <2>1, <2>2
  <2> QED
    BY ONLY <2>1, <2>3
<1>8. ASSUME NEW i \in 1..n
      PROVE  ReadByteSlice(b, r[i].pos, r[i].n) = FieldBytes(w[i], i, base)
  <2>1. PICK f, p, z : f = w[i] /\ p = at[i - 1] /\ z = w[i].size
    OBVIOUS
  <2>2. i - 1 \in Nat /\ (i - 1) + 1 = i /\ i <= n /\ i - 1 \in 0..n /\ i \in 0..n /\ i \in Nat
    BY ONLY n \in Nat, i \in 1..n
  <2>3. r[i].pos = p
    BY ONLY <1>7, <2>1, i \in 1..n
  <2>4. r[i].n = z
    BY ONLY <1>3, <2>1, i \in 1..n
  <2>5. f \in Fields /\ z \in Nat /\ z = f.size
    <3>1. f \in Fields
      BY ONLY <1>1, <2>1, w \in Seq(Fields), i \in 1..n
    <3> QED
      BY ONLY <2>1, <3>1 DEF Fields
  <2>6. p \in Nat /\ p + z <= Len(b)
    <3>1. p \in Nat /\ at[i] <= Len(b) /\ at[i] = p + z
      BY ONLY <1>2, <2>1, <2>2, i \in 1..n
    <3> QED
      BY ONLY <3>1
  <2>7. PICK u, v : u = SubSeq(b, p + 1, p + z) /\ v = FieldBytes(f, i, base)
    OBVIOUS
  <2>8. u \in Seq(Nat) /\ Len(u) = z /\ \A k \in 1..z : u[k] = b[p + k]
    <3>1. b \in Seq(Nat) /\ z \in Nat
      BY ONLY <1>2, <2>5
    <3>2. /\ SubSeq(b, p + 1, p + z) \in Seq(Nat) /\ Len(SubSeq(b, p + 1, p + z)) = z
          /\ \A k \in 1..z : SubSeq(b, p + 1, p + z)[k] = b[p + k]
      BY ONLY <2>6, <3>1, Slice
    <3> QED
      BY ONLY <2>7, <3>2
  <2>9. v \in Seq(Nat) /\ Len(v) = z
    <3>1. FieldBytes(f, i, base) \in Seq(Nat) /\ Len(FieldBytes(f, i, base)) = f.size
      BY ONLY <2>2, <2>5, base \in Nat, FieldType
    <3> QED
      BY ONLY <2>5, <2>7, <3>1
  <2>10. \A k \in 1..z : b[p + k] = v[k]
    BY ONLY <1>2, <2>1, <2>7, i \in 1..n
  <2>11. u = v
    <3>1. u \in Seq(Nat) /\ v \in Seq(Nat) /\ Len(u) = Len(v) /\ \A k \in 1..Len(u) : u[k] = v[k]
      BY ONLY <2>8, <2>9, <2>10
    <3> QED
      BY ONLY <3>1, SeqEqual
  <2>12. ReadByteSlice(b, p, z) = u
    BY ONLY <2>6, <2>7 DEF ReadByteSlice
  <2> QED
    BY ONLY <2>1, <2>3, <2>4, <2>7, <2>11, <2>12
<1> HIDE DEF S
<1>9. [i \in DOMAIN r |-> ReadByteSlice(b, r[i].pos, r[i].n)] =
        [i \in DOMAIN w |-> FieldBytes(w[i], i, base)]
  BY ONLY <1>1, <1>3, <1>8
<1>10. n = 0 => Len(b) = 0
  BY ONLY <1>2
<1>11. n # 0 => Len(b) = r[n].pos + r[n].n
  <2> SUFFICES ASSUME n # 0
               PROVE  Len(b) = r[n].pos + r[n].n
    OBVIOUS
  <2>1. n \in 1..n
    BY ONLY n \in Nat, n # 0
  <2> QED
    BY ONLY <1>2, <1>3, <1>7, <2>1
<1>12. ASSUME NEW i \in 1..n, ~w[i].own, w[i].size # 0
       PROVE  U8(b, r[i].pos + w[i].size - 1) = w[i].holds
  <2>1. PICK f, p, z : f = w[i] /\ p = at[i - 1] /\ z = w[i].size
    OBVIOUS
  <2>2. f \in Fields /\ z \in Nat /\ z # 0 /\ ~f.own /\ f.size = z
    <3>1. f \in Fields
      BY ONLY <1>1, <2>1, w \in Seq(Fields), i \in 1..n
    <3> QED
      BY ONLY <1>12, <2>1, <3>1 DEF Fields
  <2>3. i - 1 \in 0..n /\ i \in 0..n
    BY ONLY n \in Nat, i \in 1..n
  <2>4. p \in Nat /\ p + z <= Len(b)
    <3>1. p \in Nat /\ at[i] <= Len(b) /\ at[i] = p + z
      BY ONLY <1>2, <2>1, <2>3, i \in 1..n
    <3> QED
      BY ONLY <3>1
  <2>5. z \in 1..z
    BY ONLY <2>2
  <2>6. b[p + z] = FieldBytes(f, i, base)[z]
    BY ONLY <1>2, <2>1, <2>5, i \in 1..n
  <2>7. FieldBytes(f, i, base)[z] = f.holds
    BY ONLY <2>2, <2>5 DEF FieldBytes
  <2>8. PICK q : q = p + z - 1
    OBVIOUS
  <2>9. q < Len(b) /\ q + 1 = p + z
    <3>1. Len(b) \in Nat
      BY ONLY <1>2
    <3> QED
      BY ONLY <2>2, <2>4, <2>8, <3>1
  <2>10. U8(b, q) = f.holds
    BY ONLY <2>6, <2>7, <2>9 DEF U8
  <2> QED
    BY ONLY <1>7, <2>1, <2>8, <2>10, i \in 1..n
<1> QED
  BY ONLY <1>1, <1>2, <1>9, <1>10, <1>11, <1>12 DEF Located

-----------------------------------------------------------------------------
(* What is read of a body is what was written.                              *)
Reads(id, n, base) ==
  ParseCmd(id, Write(id, n, base)) = [ok |-> TRUE, fields |-> FieldsOf(id, n, base)]

LEMMA Finds ==
  ASSUME NEW id, NEW n, NEW base \in Nat, NEW w \in Seq(Fields), w = Cmd(id, n, <<>>).writes,
         NEW b, b = Write(id, n, base), NEW q, Consecutive(w, q)
  PROVE  Located(w, q, b, base)
<1>1. PICK F : F = [i \in DOMAIN w |-> FieldBytes(w[i], i, base)]
  OBVIOUS
<1>2. b = FlattenSeq(F)
  BY ONLY <1>1, w = Cmd(id, n, <<>>).writes, b = Write(id, n, base), Zenon DEF Write, FieldsOf
<1>3. PICK at : Spread(at, w, b, base)
  <2>1. \E at : Spread(at, w, b, base)
    BY ONLY w \in Seq(Fields), base \in Nat, <1>1, <1>2, SpreadExists
  <2> QED
    BY ONLY <2>1
<1> QED
  BY ONLY w \in Seq(Fields), base \in Nat, Consecutive(w, q), <1>3, FieldsRead

LEMMA Parses ==
  ASSUME NEW id \in Known, NEW b, NEW l, l = Cmd(id, 0, b), ~(Len(b) < l.least)
  PROVE  ParseCmd(id, b) = [ok |-> TRUE, fields |->
           [i \in DOMAIN l.reads |-> ReadByteSlice(b, l.reads[i].pos, l.reads[i].n)]]
BY ONLY id \in Known, l = Cmd(id, 0, b), ~(Len(b) < l.least), Zenon DEF ParseCmd

LEMMA ComesBack ==
  ASSUME NEW id \in Known, NEW n, NEW base \in Nat, NEW w \in Seq(Fields),
         w = Cmd(id, n, <<>>).writes, NEW b, b = Write(id, n, base),
         NEW l, l = Cmd(id, 0, b), Consecutive(w, l.reads), ~(Len(b) < l.least)
  PROVE  Reads(id, n, base)
<1>1. Located(w, l.reads, b, base)
  BY ONLY base \in Nat, w \in Seq(Fields), w = Cmd(id, n, <<>>).writes, b = Write(id, n, base),
          Consecutive(w, l.reads), Finds
<1>2. [i \in DOMAIN l.reads |-> ReadByteSlice(b, l.reads[i].pos, l.reads[i].n)] =
        [i \in DOMAIN w |-> FieldBytes(w[i], i, base)]
  BY ONLY <1>1 DEF Located
<1>3. [i \in DOMAIN w |-> FieldBytes(w[i], i, base)] = FieldsOf(id, n, base)
  BY ONLY w = Cmd(id, n, <<>>).writes, Zenon DEF FieldsOf
<1>4. ParseCmd(id, b) = [ok |-> TRUE, fields |->
        [i \in DOMAIN l.reads |-> ReadByteSlice(b, l.reads[i].pos, l.reads[i].n)]]
  BY ONLY id \in Known, l = Cmd(id, 0, b), ~(Len(b) < l.least), Parses
<1> QED
  BY ONLY b = Write(id, n, base), <1>2, <1>3, <1>4 DEF Reads

LEMMA TooShort ==
  ASSUME NEW id, NEW n, NEW base, NEW b, b = Write(id, n, base),
         NEW l, l = Cmd(id, 0, b), Len(b) < l.least
  PROVE  ~Reads(id, n, base)
<1>1. ParseCmd(id, b) = [ok |-> FALSE]
  BY ONLY l = Cmd(id, 0, b), Len(b) < l.least, Zenon DEF ParseCmd
<1>2. PICK F : F = FieldsOf(id, n, base)
  OBVIOUS
<1>3. [ok |-> FALSE] # [ok |-> TRUE, fields |-> F]
  <2>1. PICK x, y : x = [ok |-> FALSE] /\ y = [ok |-> TRUE, fields |-> F]
    OBVIOUS
  <2>2. ~x.ok /\ y.ok
    BY ONLY <2>1
  <2>3. x # y
    BY ONLY <2>2
  <2> QED
    BY ONLY <2>1, <2>3
<1> QED
  BY ONLY b = Write(id, n, base), <1>1, <1>2, <1>3 DEF Reads

LEMMA WrongSize ==
  ASSUME NEW id, NEW n, NEW base \in Nat, NEW w \in Seq(Fields), w = Cmd(id, n, <<>>).writes,
         NEW b, b = Write(id, n, base), b \in Seq(Nat), NEW l, l = Cmd(id, 0, b),
         NEW i \in DOMAIN w, NEW r, r = l.reads[i], r.pos \in Nat, r.n \in Nat,
         r.n # w[i].size, w[i].size # 0
  PROVE  ~Reads(id, n, base)
<1> SUFFICES ASSUME Reads(id, n, base)
             PROVE  FALSE
  OBVIOUS
<1>1. PICK F, x : F = FieldsOf(id, n, base) /\ x = ParseCmd(id, b)
  OBVIOUS
<1>2. x = [ok |-> TRUE, fields |-> F]
  BY ONLY Reads(id, n, base), b = Write(id, n, base), <1>1 DEF Reads
<1>3. x.ok /\ x.fields = F
  BY ONLY <1>2
<1>4. x = [ok |-> FALSE] \/ x = [ok |-> TRUE, fields |->
        [k \in DOMAIN l.reads |-> ReadByteSlice(b, l.reads[k].pos, l.reads[k].n)]]
  BY ONLY l = Cmd(id, 0, b), <1>1, Zenon DEF ParseCmd
<1>5. F = [k \in DOMAIN l.reads |-> ReadByteSlice(b, l.reads[k].pos, l.reads[k].n)]
  <2>1. PICK R : R = [k \in DOMAIN l.reads |-> ReadByteSlice(b, l.reads[k].pos, l.reads[k].n)]
    OBVIOUS
  <2>2. x # [ok |-> FALSE]
    BY ONLY <1>3
  <2>3. x = [ok |-> TRUE, fields |-> R]
    BY ONLY <1>4, <2>1, <2>2
  <2> QED
    BY ONLY <1>3, <2>1, <2>3
<1>6. F = [k \in DOMAIN w |-> FieldBytes(w[k], k, base)]
  BY ONLY w = Cmd(id, n, <<>>).writes, <1>1, Zenon DEF FieldsOf
<1>7. PICK f, u : f = w[i] /\ u = F[i]
  OBVIOUS
<1>8. u = FieldBytes(f, i, base)
  BY ONLY <1>6, <1>7, i \in DOMAIN w
<1>9. u = ReadByteSlice(b, r.pos, r.n)
  <2>1. i \in DOMAIN l.reads
    <3>1. DOMAIN F = DOMAIN l.reads
      BY ONLY <1>5
    <3>2. DOMAIN F = DOMAIN w
      BY ONLY <1>6
    <3> QED
      BY ONLY <3>1, <3>2, i \in DOMAIN w
  <2> QED
    BY ONLY <1>5, <1>7, <2>1, r = l.reads[i]
<1>10. f \in Fields /\ i \in Nat
  BY ONLY <1>7, w \in Seq(Fields), i \in DOMAIN w
<1>11. Len(u) = f.size
  BY ONLY <1>8, <1>10, base \in Nat, FieldType
<1>12. Len(u) = r.n \/ Len(u) = 0
  <2>1. PICK p, z : p = r.pos /\ z = r.n
    OBVIOUS
  <2>2. CASE p + z <= Len(b)
    <3>1. p \in Nat /\ z \in Nat
      BY ONLY <2>1, r.pos \in Nat, r.n \in Nat
    <3>2. /\ SubSeq(b, p + 1, p + z) \in Seq(Nat) /\ Len(SubSeq(b, p + 1, p + z)) = z
          /\ \A k \in 1..z : SubSeq(b, p + 1, p + z)[k] = b[p + k]
      BY ONLY <2>2, <3>1, b \in Seq(Nat), Slice
    <3>3. u = SubSeq(b, p + 1, p + z)
      BY ONLY <1>9, <2>1, <2>2 DEF ReadByteSlice
    <3> QED
      BY ONLY <2>1, <3>2, <3>3
  <2>3. CASE ~(p + z <= Len(b))
    <3>1. u = <<>>
      BY ONLY <1>9, <2>1, <2>3 DEF ReadByteSlice
    <3> QED
      BY ONLY <3>1
  <2> QED
    BY ONLY <2>2, <2>3
<1> QED
  BY ONLY <1>7, <1>11, <1>12, r.n # w[i].size, w[i].size # 0

-----------------------------------------------------------------------------
(* The commands without a list, of which no length differs between what is  *)
(* written and what is read: what they need to find in a body b, and when   *)
(* the body is too short.                                                   *)
Fixed == {\h0001, \h0002, \h0200, \h0800, \h1005, \h1206, \h8001, \h8105, \h9102, \h9207,
          \hB040, \hB050, \hB051}
Sized == {\h0102, \h1211, \h1212, \h9101, \h9208}
Ended == {\h0100, \h0801, \h0900, \h8100, \h8300, \h8900}
Plain == Fixed \cup Sized \cup Ended \cup {\h0702, \h8800}

Before(id) ==
  CASE id = \h0100 -> 76 [] id = \h0801 -> 36 [] id = \h0900 -> 1
    [] id = \h8100 -> 3  [] id = \h8300 -> 2  [] id = \h8900 -> 1

Says(id, n, b) ==
  /\ id \in Sized => U8(b, 0) = n
  /\ id = \h0702 => U8(b, 8) = n /\ U8(b, 29 + n) = n
  /\ id = \h8800 => U8(b, 4) = n
  /\ id \in Ended => Len(b) = Before(id) + n

Short(id, n) ==
  \/ id = \hB051
  \/ id \in {\h0900, \h8300, \h8900} /\ n = 0
  \/ id = \h9101 /\ n < 4

Suits(id, n, w, l) ==
  /\ w \in Seq(Fields) /\ Consecutive(w, l.reads) /\ l.least \in Nat
  /\ Len(w) = 0 => l.least = 0 /\ ~Short(id, n)
  /\ Len(w) # 0 => (Short(id, n) <=> l.reads[Len(w)].pos + l.reads[Len(w)].n < l.least)

LEMMA Suits0001 ==
  ASSUME NEW n \in Nat, NEW b
  PROVE  Suits(\h0001, n, Cmd0001(n, <<>>).writes, Cmd0001(0, b))
BY SMTT(30) DEF Cmd0001, Layout, At, Own, Holds, Rest, Fields, Consecutive, Suits, Short, TimeDigits, StringToBCDLen

LEMMA Suits0002 ==
  ASSUME NEW n \in Nat, NEW b
  PROVE  Suits(\h0002, n, Cmd0002(n, <<>>).writes, Cmd0002(0, b))
BY SMTT(30) DEF Cmd0002, Layout, At, Own, Holds, Rest, Fields, Consecutive, Suits, Short, TimeDigits, StringToBCDLen

LEMMA Suits0200 ==
  ASSUME NEW n \in Nat, NEW b
  PROVE  Suits(\h0200, n, Cmd0200(n, <<>>).writes, Cmd0200(0, b))
BY SMTT(30) DEF Cmd0200, Layout, At, Own, Holds, Rest, Fields, Consecutive, Suits, Short, TimeDigits, StringToBCDLen

LEMMA Suits0800 ==
  ASSUME NEW n \in Nat, NEW b
  PROVE  Suits(\h0800, n, Cmd0800(n, <<>>).writes, Cmd0800(0, b))
BY SMTT(30) DEF Cmd0800, Layout, At, Own, Holds, Rest, Fields, Consecutive, Suits, Short, TimeDigits, StringToBCDLen

LEMMA Suits1005 ==
  ASSUME NEW n \in Nat, NEW b
  PROVE  Suits(\h1005, n, Cmd1005(n, <<>>).writes, Cmd1005(0, b))
BY SMTT(30) DEF Cmd1005, Layout, At, Own, Holds, Rest, Fields, Consecutive, Suits, Short, TimeDigits, StringToBCDLen

LEMMA Suits1206 ==
  ASSUME NEW n \in Nat, NEW b
  PROVE  Suits(\h1206, n, Cmd1206(n, <<>>).writes, Cmd1206(0, b))
BY SMTT(30) DEF Cmd1206, Layout, At, Own, Holds, Rest, Fields, Consecutive, Suits, Short, TimeDigits, StringToBCDLen

LEMMA Suits8001 ==
  ASSUME NEW n \in Nat, NEW b
  PROVE  Suits(\h8001, n, Cmd8001(n, <<>>).writes, Cmd8001(0, b))
BY SMTT(30) DEF Cmd8001, Layout, At, Own, Holds, Rest, Fields, Consecutive, Suits, Short, TimeDigits, StringToBCDLen

LEMMA Suits8105 ==
  ASSUME NEW n \in Nat, NEW b
  PROVE  Suits(\h8105, n, Cmd8105(n, <<>>).writes, Cmd8105(0, b))
BY SMTT(30) DEF Cmd8105, Layout, At, Own, Holds, Rest, Fields, Consecutive, Suits, Short, TimeDigits, StringToBCDLen

LEMMA Suits9102 ==
  ASSUME NEW n \in Nat, NEW b
  PROVE  Suits(\h9102, n, Cmd9102(n, <<>>).writes, Cmd9102(0, b))
BY SMTT(30) DEF Cmd9102, Layout, At, Own, Holds, Rest, Fields, Consecutive, Suits, Short, TimeDigits, StringToBCDLen

LEMMA Suits9207 ==
  ASSUME NEW n \in Nat, NEW b
  PROVE  Suits(\h9207, n, Cmd9207(n, <<>>).writes, Cmd9207(0, b))
BY SMTT(30) DEF Cmd9207, Layout, At, Own, Holds, Rest, Fields, Consecutive, Suits, Short, TimeDigits, StringToBCDLen

LEMMA SuitsB040 ==
  ASSUME NEW n \in Nat, NEW b
  PROVE  Suits(\hB040, n, CmdB040(n, <<>>).writes, CmdB040(0, b))
BY SMTT(30) DEF CmdB040, Layout, At, Own, Holds, Rest, Fields, Consecutive, Suits, Short, TimeDigits, StringToBCDLen

LEMMA SuitsB050 ==
  ASSUME NEW n \in Nat, NEW b
  PROVE  Suits(\hB050, n, CmdB050(n, <<>>).writes, CmdB050(0, b))
BY SMTT(30) DEF CmdB050, Layout, At, Own, Holds, Rest, Fields, Consecutive, Suits, Short, TimeDigits, StringToBCDLen

LEMMA SuitsB051 ==
  ASSUME NEW n \in Nat, NEW b
  PROVE  Suits(\hB051, n, CmdB051(n, <<>>).writes, CmdB051(0, b))
BY SMTT(30) DEF CmdB051, Layout, At, Own, Holds, Rest, Fields, Consecutive, Suits, Short, TimeDigits, StringToBCDLen

LEMMA Suits0100 ==
  ASSUME NEW n \in Nat, NEW b, Len(b) = 76 + n
  PROVE  Suits(\h0100, n, Cmd0100(n, <<>>).writes, Cmd0100(0, b))
BY SMTT(30) DEF Cmd0100, Layout, At, Own, Holds, Rest, Fields, Consecutive, Suits, Short, TimeDigits, StringToBCDLen

LEMMA Suits0102 ==
  ASSUME NEW n \in Nat, NEW b, U8(b, 0) = n
  PROVE  Suits(\h0102, n, Cmd0102(n, <<>>).writes, Cmd0102(0, b))
BY SMTT(30) DEF Cmd0102, Layout, At, Own, Holds, Rest, Fields, Consecutive, Suits, Short, TimeDigits, StringToBCDLen

LEMMA Suits0702 ==
  ASSUME NEW n \in Nat, NEW b, U8(b, 8) = n, U8(b, 29 + n) = n
  PROVE  Suits(\h0702, n, Cmd0702(n, <<>>).writes, Cmd0702(0, b))
BY SMTT(30) DEF Cmd0702, Layout, At, Own, Holds, Rest, Fields, Consecutive, Suits, Short, TimeDigits, StringToBCDLen

LEMMA Suits0801 ==
  ASSUME NEW n \in Nat, NEW b, Len(b) = 36 + n
  PROVE  Suits(\h0801, n, Cmd0801(n, <<>>).writes, Cmd0801(0, b))
BY SMTT(30) DEF Cmd0801, Layout, At, Own, Holds, Rest, Fields, Consecutive, Suits, Short, TimeDigits, StringToBCDLen

LEMMA Suits0900 ==
  ASSUME NEW n \in Nat, NEW b, Len(b) = 1 + n
  PROVE  Suits(\h0900, n, Cmd0900(n, <<>>).writes, Cmd0900(0, b))
BY SMTT(30) DEF Cmd0900, Layout, At, Own, Holds, Rest, Fields, Consecutive, Suits, Short, TimeDigits, StringToBCDLen

LEMMA Suits1211 ==
  ASSUME NEW n \in Nat, NEW b, U8(b, 0) = n
  PROVE  Suits(\h1211, n, Cmd1211(n, <<>>).writes, Cmd1211(0, b))
BY SMTT(30) DEF Cmd1211, Layout, At, Own, Holds, Rest, Fields, Consecutive, Suits, Short, TimeDigits, StringToBCDLen

LEMMA Suits1212 ==
  ASSUME NEW n \in Nat, NEW b, U8(b, 0) = n
  PROVE  Suits(\h1212, n, Cmd1212(n, <<>>).writes, Cmd1212(0, b))
BY SMTT(30) DEF Cmd1212, Layout, At, Own, Holds, Rest, Fields, Consecutive, Suits, Short, TimeDigits, StringToBCDLen

LEMMA Suits8100 ==
  ASSUME NEW n \in Nat, NEW b, Len(b) = 3 + n
  PROVE  Suits(\h8100, n, Cmd8100(n, <<>>).writes, Cmd8100(0, b))
BY SMTT(30) DEF Cmd8100, Layout, At, Own, Holds, Rest, Fields, Consecutive, Suits, Short, TimeDigits, StringToBCDLen

LEMMA Suits8300 ==
  ASSUME NEW n \in Nat, NEW b, Len(b) = 2 + n
  PROVE  Suits(\h8300, n, Cmd8300(n, <<>>).writes, Cmd8300(0, b))
BY SMTT(30) DEF Cmd8300, Layout, At, Own, Holds, Rest, Fields, Consecutive, Suits, Short, TimeDigits, StringToBCDLen

LEMMA Suits8800 ==
  ASSUME NEW n \in Nat, NEW b, U8(b, 4) = n
  PROVE  Suits(\h8800, n, Cmd8800(n, <<>>).writes, Cmd8800(0, b))
BY SMTT(30) DEF Cmd8800, Layout, At, Own, Holds, Rest, Fields, Consecutive, Suits, Short, TimeDigits, StringToBCDLen

LEMMA Suits8900 ==
  ASSUME NEW n \in Nat, NEW b, Len(b) = 1 + n
  PROVE  Suits(\h8900, n, Cmd8900(n, <<>>).writes, Cmd8900(0, b))
BY SMTT(30) DEF Cmd8900, Layout, At, Own, Holds, Rest, Fields, Consecutive, Suits, Short, TimeDigits, StringToBCDLen

LEMMA Suits9101 ==
  ASSUME NEW n \in Nat, NEW b, U8(b, 0) = n
  PROVE  Suits(\h9101, n, Cmd9101(n, <<>>).writes, Cmd9101(0, b))
BY SMTT(30) DEF Cmd9101, Layout, At, Own, Holds, Rest, Fields, Consecutive, Suits, Short, TimeDigits, StringToBCDLen

LEMMA Suits9208 ==
  ASSUME NEW n \in Nat, NEW b, U8(b, 0) = n
  PROVE  Suits(\h9208, n, Cmd9208(n, <<>>).writes, Cmd9208(0, b))
BY SMTT(30) DEF Cmd9208, Layout, At, Own, Holds, Rest, Fields, Consecutive, Suits, Short, TimeDigits, StringToBCDLen

LEMMA PlainSuits ==
  ASSUME NEW n \in Nat, NEW b, NEW id \in Plain, Says(id, n, b)
  PROVE  Suits(id, n, Cmd(id, n, <<>>).writes, Cmd(id, 0, b))
<1>1. CASE id = \h0001
  <2>1. Cmd(id, n, <<>>) = Cmd0001(n, <<>>) /\ Cmd(id, 0, b) = Cmd0001(0, b)
    BY ONLY <1>1, SMT DEF Cmd
  <2>2. Suits(\h0001, n, Cmd0001(n, <<>>).writes, Cmd0001(0, b))
    BY ONLY n \in Nat, Suits0001
  <2> QED
    BY ONLY <1>1, <2>1, <2>2
<1>2. CASE id = \h0002
  <2>1. Cmd(id, n, <<>>) = Cmd0002(n, <<>>) /\ Cmd(id, 0, b) = Cmd0002(0, b)
    BY ONLY <1>2, SMT DEF Cmd
  <2>2. Suits(\h0002, n, Cmd0002(n, <<>>).writes, Cmd0002(0, b))
    BY ONLY n \in Nat, Suits0002
  <2> QED
    BY ONLY <1>2, <2>1, <2>2
<1>3. CASE id = \h0100
  <2>1. Cmd(id, n, <<>>) = Cmd0100(n, <<>>) /\ Cmd(id, 0, b) = Cmd0100(0, b)
    BY ONLY <1>3, SMT DEF Cmd
  <2>2. Len(b) = 76 + n
    BY ONLY <1>3, Says(id, n, b), SMT DEF Says, Ended, Before
  <2>3. Suits(\h0100, n, Cmd0100(n, <<>>).writes, Cmd0100(0, b))
    BY ONLY <2>2, n \in Nat, Suits0100
  <2> QED
    BY ONLY <1>3, <2>1, <2>3
<1>4. CASE id = \h0102
  <2>1. Cmd(id, n, <<>>) = Cmd0102(n, <<>>) /\ Cmd(id, 0, b) = Cmd0102(0, b)
    BY ONLY <1>4, SMT DEF Cmd
  <2>2. U8(b, 0) = n
    BY ONLY <1>4, Says(id, n, b), SMT DEF Says, Sized
  <2>3. Suits(\h0102, n, Cmd0102(n, <<>>).writes, Cmd0102(0, b))
    BY ONLY <2>2, n \in Nat, Suits0102
  <2> QED
    BY ONLY <1>4, <2>1, <2>3
<1>5. CASE id = \h0200
  <2>1. Cmd(id, n, <<>>) = Cmd0200(n, <<>>) /\ Cmd(id, 0, b) = Cmd0200(0, b)
    BY ONLY <1>5, SMT DEF Cmd
  <2>2. Suits(\h0200, n, Cmd0200(n, <<>>).writes, Cmd0200(0, b))
    BY ONLY n \in Nat, Suits0200
  <2> QED
    BY ONLY <1>5, <2>1, <2>2
<1>6. CASE id = \h0702
  <2>1. Cmd(id, n, <<>>) = Cmd0702(n, <<>>) /\ Cmd(id, 0, b) = Cmd0702(0, b)
    BY ONLY <1>6, SMT DEF Cmd
  <2>2. U8(b, 8) = n /\ U8(b, 29 + n) = n
    BY ONLY <1>6, Says(id, n, b), SMT DEF Says
  <2>3. Suits(\h0702, n, Cmd0702(n, <<>>).writes, Cmd0702(0, b))
    BY ONLY <2>2, n \in Nat, Suits0702
  <2> QED
    BY ONLY <1>6, <2>1, <2>3
<1>7. CASE id = \h0800
  <2>1. Cmd(id, n, <<>>) = Cmd0800(n, <<>>) /\ Cmd(id, 0, b) = Cmd0800(0, b)
    BY ONLY <1>7, SMT DEF Cmd
  <2>2. Suits(\h0800, n, Cmd0800(n, <<>>).writes, Cmd0800(0, b))
    BY ONLY n \in Nat, Suits0800
  <2> QED
    BY ONLY <1>7, <2>1, <2>2
<1>8. CASE id = \h0801
  <2>1. Cmd(id, n, <<>>) = Cmd0801(n, <<>>) /\ Cmd(id, 0, b) = Cmd0801(0, b)
    BY ONLY <1>8, SMT DEF Cmd
  <2>2. Len(b) = 36 + n
    BY ONLY <1>8, Says(id, n, b), SMT DEF Says, Ended, Before
  <2>3. Suits(\h0801, n, Cmd0801(n, <<>>).writes, Cmd0801(0, b))
    BY ONLY <2>2, n \in Nat, Suits0801
  <2> QED
    BY ONLY <1>8, <2>1, <2>3
<1>9. CASE id = \h0900
  <2>1. Cmd(id, n, <<>>) = Cmd0900(n, <<>>) /\ Cmd(id, 0, b) = Cmd0900(0, b)
    BY ONLY <1>9, SMT DEF Cmd
  <2>2. Len(b) = 1 + n
    BY ONLY <1>9, Says(id, n, b), SMT DEF Says, Ended, Before
  <2>3. Suits(\h0900, n, Cmd0900(n, <<>>).writes, Cmd0900(0, b))
    BY ONLY <2>2, n \in Nat, Suits0900
  <2> QED
    BY ONLY <1>9, <2>1, <2>3
<1>10. CASE id = \h1005
  <2>1. Cmd(id, n, <<>>) = Cmd1005(n, <<>>) /\ Cmd(id, 0, b) = Cmd1005(0, b)
    BY ONLY <1>10, SMT DEF Cmd
  <2>2. Suits(\h1005, n, Cmd1005(n, <<>>).writes, Cmd1005(0, b))
    BY ONLY n \in Nat, Suits1005
  <2> QED
    BY ONLY <1>10, <2>1, <2>2
<1>11. CASE id = \h1206
  <2>1. Cmd(id, n, <<>>) = Cmd1206(n, <<>>) /\ Cmd(id, 0, b) = Cmd1206(0, b)
    BY ONLY <1>11, SMT DEF Cmd
  <2>2. Suits(\h1206, n, Cmd1206(n, <<>>).writes, Cmd1206(0, b))
    BY ONLY n \in Nat, Suits1206
  <2> QED
    BY ONLY <1>11, <2>1, <2>2
<1>12. CASE id = \h1211
  <2>1. Cmd(id, n, <<>>) = Cmd1211(n, <<>>) /\ Cmd(id, 0, b) = Cmd1211(0, b)
    BY ONLY <1>12, SMT DEF Cmd
  <2>2. U8(b, 0) = n
    BY ONLY <1>12, Says(id, n, b), SMT DEF Says, Sized
  <2>3. Suits(\h1211, n, Cmd1211(n, <<>>).writes, Cmd1211(0, b))
    BY ONLY <2>2, n \in Nat, Suits1211
  <2> QED
    BY ONLY <1>12, <2>1, <2>3
<1>13. CASE id = \h1212
  <2>1. Cmd(id, n, <<>>) = Cmd1212(n, <<>>) /\ Cmd(id, 0, b) = Cmd1212(0, b)
    BY ONLY <1>13, SMT DEF Cmd
  <2>2. U8(b, 0) = n
    BY ONLY <1>13, Says(id, n, b), SMT DEF Says, Sized
  <2>3. Suits(\h1212, n, Cmd1212(n, <<>>).writes, Cmd1212(0, b))
    BY ONLY <2>2, n \in Nat, Suits1212
  <2> QED
    BY ONLY <1>13, <2>1, <2>3
<1>14. CASE id = \h8001
  <2>1. Cmd(id, n, <<>>) = Cmd8001(n, <<>>) /\ Cmd(id, 0, b) = Cmd8001(0, b)
    BY ONLY <1>14, SMT DEF Cmd
  <2>2. Suits(\h8001, n, Cmd8001(n, <<>>).writes, Cmd8001(0, b))
    BY ONLY n \in Nat, Suits8001
  <2> QED
    BY ONLY <1>14, <2>1, <2>2
<1>15. CASE id = \h8100
  <2>1. Cmd(id, n, <<>>) = Cmd8100(n, <<>>) /\ Cmd(id, 0, b) = Cmd8100(0, b)
    BY ONLY <1>15, SMT DEF Cmd
  <2>2. Len(b) = 3 + n
    BY ONLY <1>15, Says(id, n, b), SMT DEF Says, Ended, Before
  <2>3. Suits(\h8100, n, Cmd8100(n, <<>>).writes, Cmd8100(0, b))
    BY ONLY <2>2, n \in Nat, Suits8100
  <2> QED
    BY ONLY <1>15, <2>1, <2>3
<1>16. CASE id = \h8105
  <2>1. Cmd(id, n, <<>>) = Cmd8105(n, <<>>) /\ Cmd(id, 0, b) = Cmd8105(0, b)
    BY ONLY <1>16, SMT DEF Cmd
  <2>2. Suits(\h8105, n, Cmd8105(n, <<>>).writes, Cmd8105(0, b))
    BY ONLY n \in Nat, Suits8105
  <2> QED
    BY ONLY <1>16, <2>1, <2>2
<1>17. CASE id = \h8300
  <2>1. Cmd(id, n, <<>>) = Cmd8300(n, <<>>) /\ Cmd(id, 0, b) = Cmd8300(0, b)
    BY ONLY <1>17, SMT DEF Cmd
  <2>2. Len(b) = 2 + n
    BY ONLY <1>17, Says(id, n, b), SMT DEF Says, Ended, Before
  <2>3. Suits(\h8300, n, Cmd8300(n, <<>>).writes, Cmd8300(0, b))
    BY ONLY <2>2, n \in Nat, Suits8300
  <2> QED
    BY ONLY <1>17, <2>1, <2>3
<1>18. CASE id = \h8800
  <2>1. Cmd(id, n, <<>>) = Cmd8800(n, <<>>) /\ Cmd(id, 0, b) = Cmd8800(0, b)
    BY ONLY <1>18, SMT DEF Cmd
  <2>2. U8(b, 4) = n
    BY ONLY <1>18, Says(id, n, b), SMT DEF Says
  <2>3. Suits(\h8800, n, Cmd8800(n, <<>>).writes, Cmd8800(0, b))
    BY ONLY <2>2, n \in Nat, Suits8800
  <2> QED
    BY ONLY <1>18, <2>1, <2>3
<1>19. CASE id = \h8900
  <2>1. Cmd(id, n, <<>>) = Cmd8900(n, <<>>) /\ Cmd(id, 0, b) = Cmd8900(0, b)
    BY ONLY <1>19, SMT DEF Cmd
  <2>2. Len(b) = 1 + n
    BY ONLY <1>19, Says(id, n, b), SMT DEF Says, Ended, Before
  <2>3. Suits(\h8900, n, Cmd8900(n, <<>>).writes, Cmd8900(0, b))
    BY ONLY <2>2, n \in Nat, Suits8900
  <2> QED
    BY ONLY <1>19, <2>1, <2>3
<1>20. CASE id = \h9101
  <2>1. Cmd(id, n, <<>>) = Cmd9101(n, <<>>) /\ Cmd(id, 0, b) = Cmd9101(0, b)
    BY ONLY <1>20, SMT DEF Cmd
  <2>2. U8(b, 0) = n
    BY ONLY <1>20, Says(id, n, b), SMT DEF Says, Sized
  <2>3. Suits(\h9101, n, Cmd9101(n, <<>>).writes, Cmd9101(0, b))
    BY ONLY <2>2, n \in Nat, Suits9101
  <2> QED
    BY ONLY <1>20, <2>1, <2>3
<1>21. CASE id = \h9102
  <2>1. Cmd(id, n, <<>>) = Cmd9102(n, <<>>) /\ Cmd(id, 0, b) = Cmd9102(0, b)
    BY ONLY <1>21, SMT DEF Cmd
  <2>2. Suits(\h9102, n, Cmd9102(n, <<>>).writes, Cmd9102(0, b))
    BY ONLY n \in Nat, Suits9102
  <2> QED
    BY ONLY <1>21, <2>1, <2>2
<1>22. CASE id = \h9207
  <2>1. Cmd(id, n, <<>>) = Cmd9207(n, <<>>) /\ Cmd(id, 0, b) = Cmd9207(0, b)
    BY ONLY <1>22, SMT DEF Cmd
  <2>2. Suits(\h9207, n, Cmd9207(n, <<>>).writes, Cmd9207(0, b))
    BY ONLY n \in Nat, Suits9207
  <2> QED
    BY ONLY <1>22, <2>1, <2>2
<1>23. CASE id = \h9208
  <2>1. Cmd(id, n, <<>>) = Cmd9208(n, <<>>) /\ Cmd(id, 0, b) = Cmd9208(0, b)
    BY ONLY <1>23, SMT DEF Cmd
  <2>2. U8(b, 0) = n
    BY ONLY <1>23, Says(id, n, b), SMT DEF Says, Sized
  <2>3. Suits(\h9208, n, Cmd9208(n, <<>>).writes, Cmd9208(0, b))
    BY ONLY <2>2, n \in Nat, Suits9208
  <2> QED
    BY ONLY <1>23, <2>1, <2>3
<1>24. CASE id = \hB040
  <2>1. Cmd(id, n, <<>>) = CmdB040(n, <<>>) /\ Cmd(id, 0, b) = CmdB040(0, b)
    BY ONLY <1>24, SMT DEF Cmd
  <2>2. Suits(\hB040, n, CmdB040(n, <<>>).writes, CmdB040(0, b))
    BY ONLY n \in Nat, SuitsB040
  <2> QED
    BY ONLY <1>24, <2>1, <2>2
<1>25. CASE id = \hB050
  <2>1. Cmd(id, n, <<>>) = CmdB050(n, <<>>) /\ Cmd(id, 0, b) = CmdB050(0, b)
    BY ONLY <1>25, SMT DEF Cmd
  <2>2. Suits(\hB050, n, CmdB050(n, <<>>).writes, CmdB050(0, b))
    BY ONLY n \in Nat, SuitsB050
  <2> QED
    BY ONLY <1>25, <2>1, <2>2
<1>26. CASE id = \hB051
  <2>1. Cmd(id, n, <<>>) = CmdB051(n, <<>>) /\ Cmd(id, 0, b) = CmdB051(0, b)
    BY ONLY <1>26, SMT DEF Cmd
  <2>2. Suits(\hB051, n, CmdB051(n, <<>>).writes, CmdB051(0, b))
    BY ONLY n \in Nat, SuitsB051
  <2> QED
    BY ONLY <1>26, <2>1, <2>2
<1> QED
  BY ONLY id \in Plain, <1>1, <1>2, <1>3, <1>4, <1>5, <1>6, <1>7, <1>8, <1>9, <1>10, <1>11,
          <1>12, <1>13, <1>14, <1>15, <1>16, <1>17, <1>18, <1>19, <1>20, <1>21, <1>22, <1>23,
          <1>24, <1>25, <1>26 DEF Plain, Fixed, Sized, Ended

LEMMA SaysExample ==
  ASSUME NEW n \in Nat, NEW id
  PROVE  \E e : Says(id, n, e)
<1>1. CASE id \in Ended
  <2>1. PICK k \in Nat : k = Before(id) + n
    <3>1. Before(id) \in Nat
      BY ONLY <1>1, SMT DEF Before, Ended
    <3> QED
      BY ONLY <3>1, n \in Nat
  <2>2. PICK e : e = [i \in 1..k |-> n]
    OBVIOUS
  <2>3. Len(e) = k
    BY ONLY <2>2, k \in Nat
  <2>4. ~(id \in Sized) /\ id # \h0702 /\ id # \h8800
    BY ONLY <1>1, SMT DEF Ended, Sized
  <2>5. Says(id, n, e)
    BY ONLY <2>1, <2>3, <2>4 DEF Says
  <2> QED
    BY ONLY <2>5
<1>2. CASE ~(id \in Ended)
  <2>1. PICK e : e = [i \in 1..(30 + n) |-> n]
    OBVIOUS
  <2>2. Len(e) = 30 + n /\ \A i \in 1..(30 + n) : e[i] = n
    BY ONLY <2>1, n \in Nat
  <2>3. ASSUME NEW q \in Nat, q < 30 + n
        PROVE  U8(e, q) = n
    <3>1. q + 1 \in 1..(30 + n)
      BY ONLY <2>3, n \in Nat, q \in Nat
    <3> QED
      BY ONLY <2>2, <2>3, <3>1 DEF U8
  <2>4. /\ 0 < 30 + n /\ 4 < 30 + n /\ 8 < 30 + n /\ 29 + n < 30 + n
        /\ 0 \in Nat /\ 4 \in Nat /\ 8 \in Nat /\ 29 + n \in Nat
    BY ONLY n \in Nat
  <2>5. U8(e, 0) = n /\ U8(e, 4) = n /\ U8(e, 8) = n /\ U8(e, 29 + n) = n
    BY ONLY <2>3, <2>4
  <2>6. Says(id, n, e)
    BY ONLY <1>2, <2>5 DEF Says
  <2> QED
    BY ONLY <2>6
<1> QED
  BY ONLY <1>1, <1>2

LEMMA SaysWritten ==
  ASSUME NEW n \in Nat, NEW id \in Plain, NEW base \in Nat, NEW b, b = Write(id, n, base)
  PROVE  Says(id, n, b)
<1>1. PICK e : Says(id, n, e)
  <2>1. \E e : Says(id, n, e)
    BY ONLY n \in Nat, SaysExample
  <2> QED
    BY ONLY <2>1
<1>2. PICK w, r : w = Cmd(id, n, <<>>).writes /\ r = Cmd(id, 0, e).reads
  OBVIOUS
<1>3. w \in Seq(Fields) /\ Consecutive(w, r)
  <2>1. Suits(id, n, Cmd(id, n, <<>>).writes, Cmd(id, 0, e))
    BY ONLY n \in Nat, id \in Plain, <1>1, PlainSuits
  <2> QED
    BY ONLY <1>2, <2>1 DEF Suits
<1>4. Located(w, r, b, base)
  BY ONLY base \in Nat, b = Write(id, n, base), <1>2, <1>3, Finds
<1>5. /\ Len(w) # 0 => Len(b) = r[Len(w)].pos + r[Len(w)].n
      /\ \A i \in 1..Len(w) :
           ~w[i].own /\ w[i].size # 0 => U8(b, r[i].pos + w[i].size - 1) = w[i].holds
  BY ONLY <1>4 DEF Located
<1>6. ASSUME NEW i \in 1..Len(w), w[i] = Holds(1, n), NEW p \in Nat, r[i].pos = p
      PROVE  U8(b, p) = n
  <2>1. ~w[i].own /\ w[i].size = 1 /\ w[i].holds = n
    BY ONLY <1>6 DEF Holds
  <2>2. U8(b, r[i].pos + w[i].size - 1) = n
    BY ONLY <1>5, <2>1, i \in 1..Len(w)
  <2>3. p + 1 - 1 = p
    BY ONLY p \in Nat
  <2> QED
    BY ONLY <1>6, <2>1, <2>2, <2>3
<1>7. ASSUME id \in Sized
      PROVE  U8(b, 0) = n
  <2>1. id = \h0102 => Len(w) = 4 /\ w[1] = Holds(1, n)
    <3> SUFFICES ASSUME id = \h0102
                 PROVE  Len(w) = 4 /\ w[1] = Holds(1, n)
      OBVIOUS
    <3>1. Cmd(id, n, <<>>) = Cmd0102(n, <<>>)
      BY ONLY id = \h0102, SMT DEF Cmd
    <3> QED
      BY ONLY <1>2, <3>1, SMT DEF Cmd0102, Layout
  <2>2. id = \h1211 => Len(w) = 4 /\ w[1] = Holds(1, n)
    <3> SUFFICES ASSUME id = \h1211
                 PROVE  Len(w) = 4 /\ w[1] = Holds(1, n)
      OBVIOUS
    <3>1. Cmd(id, n, <<>>) = Cmd1211(n, <<>>)
      BY ONLY id = \h1211, SMT DEF Cmd
    <3> QED
      BY ONLY <1>2, <3>1, SMT DEF Cmd1211, Layout
  <2>3. id = \h1212 => Len(w) = 4 /\ w[1] = Holds(1, n)
    <3> SUFFICES ASSUME id = \h1212
                 PROVE  Len(w) = 4 /\ w[1] = Holds(1, n)
      OBVIOUS
    <3>1. Cmd(id, n, <<>>) = Cmd1212(n, <<>>)
      BY ONLY id = \h1212, SMT DEF Cmd
    <3> QED
      BY ONLY <1>2, <3>1, SMT DEF Cmd1212, Layout
  <2>4. id = \h9101 => Len(w) = 7 /\ w[1] = Holds(1, n)
    <3> SUFFICES ASSUME id = \h9101
                 PROVE  Len(w) = 7 /\ w[1] = Holds(1, n)
      OBVIOUS
    <3>1. Cmd(id, n, <<>>) = Cmd9101(n, <<>>)
      BY ONLY id = \h9101, SMT DEF Cmd
    <3> QED
      BY ONLY <1>2, <3>1, SMT DEF Cmd9101, Layout
  <2>5. id = \h9208 => Len(w) = 7 /\ w[1] = Holds(1, n)
    <3> SUFFICES ASSUME id = \h9208
                 PROVE  Len(w) = 7 /\ w[1] = Holds(1, n)
      OBVIOUS
    <3>1. Cmd(id, n, <<>>) = Cmd9208(n, <<>>)
      BY ONLY id = \h9208, SMT DEF Cmd
    <3> QED
      BY ONLY <1>2, <3>1, SMT DEF Cmd9208, Layout
  <2>6. Len(w) \in {4, 7} /\ w[1] = Holds(1, n)
    BY ONLY <1>7, <2>1, <2>2, <2>3, <2>4, <2>5 DEF Sized
  <2>7. 1 \in 1..Len(w) /\ Len(w) # 0
    BY ONLY <2>6
  <2>8. r[1].pos = 0
    BY ONLY <1>3, <2>7 DEF Consecutive
  <2> QED
    BY ONLY <1>6, <2>6, <2>7, <2>8
<1>8. ASSUME id = \h0702
      PROVE  U8(b, 8) = n /\ U8(b, 29 + n) = n
  <2>1. Cmd(id, n, <<>>) = Cmd0702(n, <<>>) /\ Cmd(id, 0, e) = Cmd0702(0, e)
    BY ONLY <1>8, SMT DEF Cmd
  <2>2. U8(e, 8) = n /\ U8(e, 29 + n) = n
    BY ONLY <1>1, <1>8 DEF Says
  <2>3. Len(w) = 10 /\ w[4] = Holds(1, n) /\ w[7] = Holds(1, n)
    BY ONLY <1>2, <2>1, SMT DEF Cmd0702, Layout
  <2>4. r[4].pos = 8 /\ r[7].pos = 29 + n
    <3>1. r[4] = At(8, 1) /\ r[7] = At(29 + U8(e, 8), 1)
      BY ONLY <1>2, <2>1, SMTT(30) DEF Cmd0702, Layout
    <3> QED
      BY ONLY <2>2, <3>1 DEF At
  <2>5. 4 \in 1..Len(w) /\ 7 \in 1..Len(w) /\ 8 \in Nat /\ 29 + n \in Nat
    BY ONLY <2>3, n \in Nat
  <2> QED
    BY ONLY <1>6, <2>3, <2>4, <2>5
<1>9. ASSUME id = \h8800
      PROVE  U8(b, 4) = n
  <2>1. Cmd(id, n, <<>>) = Cmd8800(n, <<>>) /\ Cmd(id, 0, e) = Cmd8800(0, e)
    BY ONLY <1>9, SMT DEF Cmd
  <2>2. Len(w) = 3 /\ w[2] = Holds(1, n)
    BY ONLY <1>2, <2>1, SMT DEF Cmd8800, Layout
  <2>3. r[2].pos = 4
    BY ONLY <1>2, <2>1, SMT DEF Cmd8800, Layout, At
  <2>4. 2 \in 1..Len(w) /\ 4 \in Nat
    BY ONLY <2>2
  <2> QED
    BY ONLY <1>6, <2>2, <2>3, <2>4
<1>10. ASSUME id \in Ended
       PROVE  Len(b) = Before(id) + n
  <2>1. Len(e) = Before(id) + n
    BY ONLY <1>1, <1>10 DEF Says
  <2>2. CASE id = \h0100
    <3>1. Cmd(id, n, <<>>) = Cmd0100(n, <<>>) /\ Cmd(id, 0, e) = Cmd0100(0, e)
      BY ONLY <2>2, SMT DEF Cmd
    <3>2. Before(id) = 76
      BY ONLY <2>2, SMT DEF Before
    <3>3. Len(w) = 7
      BY ONLY <1>2, <3>1, SMT DEF Cmd0100, Layout
    <3>4. r[7].pos = 76 /\ r[7].n = n
      BY ONLY <1>2, <2>1, <3>1, <3>2, n \in Nat, SMT DEF Cmd0100, Layout, Rest, At
    <3> QED
      BY ONLY <1>5, <3>2, <3>3, <3>4
  <2>3. CASE id = \h0801
    <3>1. Cmd(id, n, <<>>) = Cmd0801(n, <<>>) /\ Cmd(id, 0, e) = Cmd0801(0, e)
      BY ONLY <2>3, SMT DEF Cmd
    <3>2. Before(id) = 36
      BY ONLY <2>3, SMT DEF Before
    <3>3. Len(w) = 7
      BY ONLY <1>2, <3>1, SMT DEF Cmd0801, Layout
    <3>4. r[7].pos = 36 /\ r[7].n = n
      BY ONLY <1>2, <2>1, <3>1, <3>2, n \in Nat, SMT DEF Cmd0801, Layout, Rest, At
    <3> QED
      BY ONLY <1>5, <3>2, <3>3, <3>4
  <2>4. CASE id = \h0900
    <3>1. Cmd(id, n, <<>>) = Cmd0900(n, <<>>) /\ Cmd(id, 0, e) = Cmd0900(0, e)
      BY ONLY <2>4, SMT DEF Cmd
    <3>2. Before(id) = 1
      BY ONLY <2>4, SMT DEF Before
    <3>3. Len(w) = 2
      BY ONLY <1>2, <3>1, SMT DEF Cmd0900, Layout
    <3>4. r[2].pos = 1 /\ r[2].n = n
      BY ONLY <1>2, <2>1, <3>1, <3>2, n \in Nat, SMT DEF Cmd0900, Layout, Rest, At
    <3> QED
      BY ONLY <1>5, <3>2, <3>3, <3>4
  <2>5. CASE id = \h8100
    <3>1. Cmd(id, n, <<>>) = Cmd8100(n, <<>>) /\ Cmd(id, 0, e) = Cmd8100(0, e)
      BY ONLY <2>5, SMT DEF Cmd
    <3>2. Before(id) = 3
      BY ONLY <2>5, SMT DEF Before
    <3>3. Len(w) = 3
      BY ONLY <1>2, <3>1, SMT DEF Cmd8100, Layout
    <3>4. r[3].pos = 3 /\ r[3].n = n
      BY ONLY <1>2, <2>1, <3>1, <3>2, n \in Nat, SMT DEF Cmd8100, Layout, Rest, At
    <3> QED
      BY ONLY <1>5, <3>2, <3>3, <3>4
  <2>6. CASE id = \h8300
    <3>1. Cmd(id, n, <<>>) = Cmd8300(n, <<>>) /\ Cmd(id, 0, e) = Cmd8300(0, e)
      BY ONLY <2>6, SMT DEF Cmd
    <3>2. Before(id) = 2
      BY ONLY <2>6, SMT DEF Before
    <3>3. Len(w) = 3
      BY ONLY <1>2, <3>1, SMT DEF Cmd8300, Layout
    <3>4. r[3].pos = 2 /\ r[3].n = n
      BY ONLY <1>2, <2>1, <3>1, <3>2, n \in Nat, SMT DEF Cmd8300, Layout, Rest, At
    <3> QED
      BY ONLY <1>5, <3>2, <3>3, <3>4
  <2>7. CASE id = \h8900
    <3>1. Cmd(id, n, <<>>) = Cmd8900(n, <<>>) /\ Cmd(id, 0, e) = Cmd8900(0, e)
      BY ONLY <2>7, SMT DEF Cmd
    <3>2. Before(id) = 1
      BY ONLY <2>7, SMT DEF Before
    <3>3. Len(w) = 2
      BY ONLY <1>2, <3>1, SMT DEF Cmd8900, Layout
    <3>4. r[2].pos = 1 /\ r[2].n = n
      BY ONLY <1>2, <2>1, <3>1, <3>2, n \in Nat, SMT DEF Cmd8900, Layout, Rest, At
    <3> QED
      BY ONLY <1>5, <3>2, <3>3, <3>4
  <2> QED
    BY ONLY <1>10, <2>2, <2>3, <2>4, <2>5, <2>6, <2>7 DEF Ended
<1> QED
  BY ONLY <1>7, <1>8, <1>9, <1>10 DEF Says

LEMMA PlainReads ==
  ASSUME NEW n \in Nat, NEW id \in Plain, NEW base \in Nat
  PROVE  Reads(id, n, base) <=> ~Short(id, n)
<1>1. PICK b, w, l : b = Write(id, n, base) /\ w = Cmd(id, n, <<>>).writes /\ l = Cmd(id, 0, b)
  OBVIOUS
<1>2. Suits(id, n, w, l)
  <2>1. Says(id, n, b)
    BY ONLY n \in Nat, id \in Plain, base \in Nat, <1>1, SaysWritten
  <2>2. Suits(id, n, Cmd(id, n, <<>>).writes, Cmd(id, 0, b))
    BY ONLY n \in Nat, id \in Plain, <2>1, PlainSuits
  <2> QED
    BY ONLY <1>1, <2>2
<1>3. w \in Seq(Fields) /\ Consecutive(w, l.reads) /\ l.least \in Nat
  BY ONLY <1>2 DEF Suits
<1>4. /\ Len(w) = 0 => l.least = 0 /\ ~Short(id, n)
      /\ Len(w) # 0 => (Short(id, n) <=> l.reads[Len(w)].pos + l.reads[Len(w)].n < l.least)
  BY ONLY <1>2 DEF Suits
<1>5. Located(w, l.reads, b, base)
  BY ONLY base \in Nat, <1>1, <1>3, Finds
<1>6. /\ Len(w) = 0 => Len(b) = 0
      /\ Len(w) # 0 => Len(b) = l.reads[Len(w)].pos + l.reads[Len(w)].n
  BY ONLY <1>5 DEF Located
<1>7. Short(id, n) <=> Len(b) < l.least
  <2>1. CASE Len(w) = 0
    <3>1. ~(0 < 0)
      OBVIOUS
    <3> QED
      BY ONLY <1>4, <1>6, <2>1, <3>1
  <2>2. CASE Len(w) # 0
    BY ONLY <1>4, <1>6, <2>2
  <2> QED
    BY ONLY <2>1, <2>2
<1>8. CASE Short(id, n)
  <2>1. Len(b) < l.least
    BY ONLY <1>7, <1>8
  <2>2. ~Reads(id, n, base)
    BY ONLY <1>1, <2>1, TooShort
  <2> QED
    BY ONLY <1>8, <2>2
<1>9. CASE ~Short(id, n)
  <2>1. ~(Len(b) < l.least)
    BY ONLY <1>7, <1>9
  <2>2. id \in Known
    BY ONLY id \in Plain, SMT DEF Plain, Fixed, Sized, Ended, Known
  <2>3. Reads(id, n, base)
    BY ONLY base \in Nat, <1>1, <1>3, <2>1, <2>2, ComesBack
  <2> QED
    BY ONLY <1>9, <2>3
<1> QED
  BY ONLY <1>8, <1>9

-----------------------------------------------------------------------------
(* The commands that are not read as they were written: a time of 12 digits *)
(* read as 6 bytes, a report with a length in front of it that is not there.*)
LEMMA ByteType ==
  ASSUME NEW b \in Seq(Nat), NEW p \in Nat
  PROVE  U8(b, p) \in Nat
<1>1. CASE p < Len(b)
  <2>1. p + 1 \in 1..Len(b)
    BY ONLY <1>1, b \in Seq(Nat), p \in Nat
  <2>2. b[p + 1] \in Nat
    BY ONLY <2>1, b \in Seq(Nat)
  <2> QED
    BY ONLY <1>1, <2>2 DEF U8
<1>2. CASE ~(p < Len(b))
  BY ONLY <1>2 DEF U8
<1> QED
  BY ONLY <1>1, <1>2

(* There are always places where everything is.                             *)
LEMMA FieldsLie ==
  ASSUME NEW id, NEW n, NEW base \in Nat, NEW w \in Seq(Fields), w = Cmd(id, n, <<>>).writes,
         NEW b, b = Write(id, n, base)
  PROVE  b \in Seq(Nat) /\ \E q : Consecutive(w, q) /\ Located(w, q, b, base)
<1>1. PICK F : F = [i \in DOMAIN w |-> FieldBytes(w[i], i, base)]
  OBVIOUS
<1>2. b = FlattenSeq(F)
  BY ONLY <1>1, w = Cmd(id, n, <<>>).writes, b = Write(id, n, base), Zenon DEF Write, FieldsOf
<1>3. PICK at : Spread(at, w, b, base)
  <2>1. \E at : Spread(at, w, b, base)
    BY ONLY w \in Seq(Fields), base \in Nat, <1>1, <1>2, SpreadExists
  <2> QED
    BY ONLY <2>1
<1>4. PICK l \in Nat : l = Len(w)
  BY ONLY w \in Seq(Fields)
<1>5. at[0] = 0 /\ b \in Seq(Nat) /\ \A i \in 1..l : at[i] = at[i - 1] + w[i].size
  BY ONLY <1>3, <1>4 DEF Spread
<1>6. PICK q : q = [i \in 1..l |-> At(at[i - 1], w[i].size)]
  OBVIOUS
<1>7. \A i \in 1..l : q[i].pos = at[i - 1] /\ q[i].n = w[i].size
  BY ONLY <1>6 DEF At
<1>8. Consecutive(w, q)
  <2>1. l # 0 => q[1].pos = 0
    <3>1. l # 0 => 1 \in 1..l /\ 1 - 1 = 0
      BY ONLY l \in Nat
    <3> QED
      BY ONLY <1>5, <1>7, <3>1
  <2>2. \A i \in 2..l : q[i].pos = q[i - 1].pos + q[i - 1].n
    <3> SUFFICES ASSUME NEW i \in 2..l
                 PROVE  q[i].pos = q[i - 1].pos + q[i - 1].n
      OBVIOUS
    <3>1. PICK j : j = i - 1
      OBVIOUS
    <3>2. i \in 1..l /\ j \in 1..l
      BY ONLY <3>1, i \in 2..l, l \in Nat
    <3>3. q[i].pos = at[j] /\ at[j] = at[j - 1] + w[j].size
      BY ONLY <1>5, <1>7, <3>1, <3>2
    <3>4. q[j].pos = at[j - 1] /\ q[j].n = w[j].size
      BY ONLY <1>7, <3>2
    <3> QED
      BY ONLY <3>1, <3>3, <3>4
  <2>3. DOMAIN q = 1..l
    BY ONLY <1>6
  <2> QED
    BY ONLY <1>4, <1>7, <2>1, <2>2, <2>3 DEF Consecutive
<1>9. Located(w, q, b, base)
  BY ONLY base \in Nat, w = Cmd(id, n, <<>>).writes, w \in Seq(Fields), b = Write(id, n, base),
          <1>8, Finds
<1> QED
  BY ONLY <1>5, <1>8, <1>9

LEMMA Unread9201 ==
  ASSUME NEW n \in Nat, NEW base \in Nat
  PROVE  ~Reads(\h9201, n, base)
<1>1. PICK id : id = \h9201
  OBVIOUS
<1>2. PICK b, w, l : b = Write(id, n, base) /\ w = Cmd(id, n, <<>>).writes /\ l = Cmd(id, 0, b)
  OBVIOUS
<1>3. w = Cmd9201(n, <<>>).writes /\ l = Cmd9201(0, b)
  BY ONLY <1>1, <1>2, SMT DEF Cmd
<1>4. w \in Seq(Fields) /\ 11 \in DOMAIN w /\ w[11].size = 12
  BY ONLY <1>3, n \in Nat, SMT DEF Cmd9201, Layout, Own, Holds, TimeDigits, Fields
<1>5. b \in Seq(Nat)
  <2>1. b \in Seq(Nat) /\ \E q : Consecutive(w, q) /\ Located(w, q, b, base)
    <3>1. w \in Seq(Fields)
      BY ONLY <1>4
    <3> QED
      BY ONLY base \in Nat, <1>2, <3>1, FieldsLie
  <2> QED
    BY ONLY <2>1
<1>6. PICK r : r = l.reads[11]
  OBVIOUS
<1>7. r.pos \in Nat /\ r.n = 6
  <2>1. PICK k \in Nat : k = U8(b, 0)
    <3>1. 0 \in Nat
      OBVIOUS
    <3> QED
      BY ONLY <1>5, <3>1, ByteType
  <2>2. r = At(1 + k + 10, 6)
    BY ONLY <1>3, <1>6, <2>1, SMT DEF Cmd9201, Layout
  <2> QED
    BY ONLY <2>2, k \in Nat DEF At
<1>8. PICK i : i = 11
  OBVIOUS
<1>9. /\ i \in DOMAIN w /\ r = l.reads[i] /\ r.n \in Nat /\ r.n # w[i].size
      /\ w[i].size # 0 /\ r.pos \in Nat /\ w \in Seq(Fields)
  BY ONLY <1>4, <1>6, <1>7, <1>8
<1>10. ~Reads(id, n, base)
  BY ONLY base \in Nat, <1>2, <1>5, <1>9, WrongSize
<1> QED
  BY ONLY <1>1, <1>10

LEMMA Unread9202 ==
  ASSUME NEW n \in Nat, NEW base \in Nat
  PROVE  ~Reads(\h9202, n, base)
<1>1. PICK id : id = \h9202
  OBVIOUS
<1>2. PICK b, w, l : b = Write(id, n, base) /\ w = Cmd(id, n, <<>>).writes /\ l = Cmd(id, 0, b)
  OBVIOUS
<1>3. w = Cmd9202(n, <<>>).writes /\ l = Cmd9202(0, b)
  BY ONLY <1>1, <1>2, SMT DEF Cmd
<1>4. w \in Seq(Fields) /\ 4 \in DOMAIN w /\ w[4].size = 12
  BY ONLY <1>3, n \in Nat, SMT DEF Cmd9202, Layout, Own, Holds, TimeDigits, Fields
<1>5. b \in Seq(Nat)
  <2>1. b \in Seq(Nat) /\ \E q : Consecutive(w, q) /\ Located(w, q, b, base)
    <3>1. w \in Seq(Fields)
      BY ONLY <1>4
    <3> QED
      BY ONLY base \in Nat, <1>2, <3>1, FieldsLie
  <2> QED
    BY ONLY <2>1
<1>6. PICK r : r = l.reads[4]
  OBVIOUS
<1>7. r.pos \in Nat /\ r.n = 6
  BY ONLY <1>3, <1>6, SMT DEF Cmd9202, Layout, At
<1>8. PICK i : i = 4
  OBVIOUS
<1>9. /\ i \in DOMAIN w /\ r = l.reads[i] /\ r.n \in Nat /\ r.n # w[i].size
      /\ w[i].size # 0 /\ r.pos \in Nat /\ w \in Seq(Fields)
  BY ONLY <1>4, <1>6, <1>7, <1>8
<1>10. ~Reads(id, n, base)
  BY ONLY base \in Nat, <1>2, <1>5, <1>9, WrongSize
<1> QED
  BY ONLY <1>1, <1>10

LEMMA Unread9205 ==
  ASSUME NEW n \in Nat, NEW base \in Nat
  PROVE  ~Reads(\h9205, n, base)
<1>1. PICK id : id = \h9205
  OBVIOUS
<1>2. PICK b, w, l : b = Write(id, n, base) /\ w = Cmd(id, n, <<>>).writes /\ l = Cmd(id, 0, b)
  OBVIOUS
<1>3. w = Cmd9205(n, <<>>).writes /\ l = Cmd9205(0, b)
  BY ONLY <1>1, <1>2, SMT DEF Cmd
<1>4. w \in Seq(Fields) /\ 2 \in DOMAIN w /\ w[2].size = 12
  BY ONLY <1>3, n \in Nat, SMT DEF Cmd9205, Layout, Own, Holds, TimeDigits, Fields
<1>5. b \in Seq(Nat)
  <2>1. b \in Seq(Nat) /\ \E q : Consecutive(w, q) /\ Located(w, q, b, base)
    <3>1. w \in Seq(Fields)
      BY ONLY <1>4
    <3> QED
      BY ONLY base \in Nat, <1>2, <3>1, FieldsLie
  <2> QED
    BY ONLY <2>1
<1>6. PICK r : r = l.reads[2]
  OBVIOUS
<1>7. r.pos \in Nat /\ r.n = 6
  BY ONLY <1>3, <1>6, SMT DEF Cmd9205, Layout, At
<1>8. PICK i : i = 2
  OBVIOUS
<1>9. /\ i \in DOMAIN w /\ r = l.reads[i] /\ r.n \in Nat /\ r.n # w[i].size
      /\ w[i].size # 0 /\ r.pos \in Nat /\ w \in Seq(Fields)
  BY ONLY <1>4, <1>6, <1>7, <1>8
<1>10. ~Reads(id, n, base)
  BY ONLY base \in Nat, <1>2, <1>5, <1>9, WrongSize
<1> QED
  BY ONLY <1>1, <1>10

LEMMA Unread9206 ==
  ASSUME NEW n \in Nat, NEW base \in Nat
  PROVE  ~Reads(\h9206, n, base)
<1>1. PICK id : id = \h9206
  OBVIOUS
<1>2. PICK b, w, l : b = Write(id, n, base) /\ w = Cmd(id, n, <<>>).writes /\ l = Cmd(id, 0, b)
  OBVIOUS
<1>3. w = Cmd9206(n, <<>>).writes /\ l = Cmd9206(0, b)
  BY ONLY <1>1, <1>2, SMT DEF Cmd
<1>4. w \in Seq(Fields) /\ 11 \in DOMAIN w /\ w[11].size = 12
  BY ONLY <1>3, n \in Nat, SMT DEF Cmd9206, Layout, Own, Holds, TimeDigits, Fields
<1>5. b \in Seq(Nat)
  <2>1. b \in Seq(Nat) /\ \E q : Consecutive(w, q) /\ Located(w, q, b, base)
    <3>1. w \in Seq(Fields)
      BY ONLY <1>4
    <3> QED
      BY ONLY base \in Nat, <1>2, <3>1, FieldsLie
  <2> QED
    BY ONLY <2>1
<1>6. PICK r : r = l.reads[11]
  OBVIOUS
<1>7. r.pos \in Nat /\ r.n = 6
  <2>1. \A p \in Nat : U8(b, p) \in Nat
    BY ONLY <1>5, ByteType
  <2>2. PICK user : user = 1 + U8(b, 0) + 2
    OBVIOUS
  <2>3. PICK pass : pass = user + 1 + U8(b, user)
    OBVIOUS
  <2>4. PICK path : path = pass + 1 + U8(b, pass)
    OBVIOUS
  <2>5. PICK k : k = path + 1 + U8(b, path)
    OBVIOUS
  <2>6. user \in Nat
    <3>1. U8(b, 0) \in Nat
      BY ONLY <2>1, SMT
    <3> QED
      BY ONLY <2>2, <3>1
  <2>7. pass \in Nat
    <3>1. U8(b, user) \in Nat
      BY ONLY <2>1, <2>6
    <3> QED
      BY ONLY <2>3, <2>6, <3>1
  <2>8. path \in Nat
    <3>1. U8(b, pass) \in Nat
      BY ONLY <2>1, <2>7
    <3> QED
      BY ONLY <2>4, <2>7, <3>1
  <2>9. k \in Nat
    <3>1. U8(b, path) \in Nat
      BY ONLY <2>1, <2>8
    <3> QED
      BY ONLY <2>5, <2>8, <3>1
  <2>10. r = At(k + 1, 6)
    BY ONLY <1>3, <1>6, <2>2, <2>3, <2>4, <2>5, SMT DEF Cmd9206, Layout
  <2> QED
    BY ONLY <2>9, <2>10 DEF At
<1>8. PICK i : i = 11
  OBVIOUS
<1>9. /\ i \in DOMAIN w /\ r = l.reads[i] /\ r.n \in Nat /\ r.n # w[i].size
      /\ w[i].size # 0 /\ r.pos \in Nat /\ w \in Seq(Fields)
  BY ONLY <1>4, <1>6, <1>7, <1>8
<1>10. ~Reads(id, n, base)
  BY ONLY base \in Nat, <1>2, <1>5, <1>9, WrongSize
<1> QED
  BY ONLY <1>1, <1>10

LEMMA Unread0704 ==
  ASSUME NEW n \in Nat, NEW base \in Nat
  PROVE  ~Reads(\h0704, n, base)
<1>1. PICK id : id = \h0704
  OBVIOUS
<1>2. PICK b, w, l : b = Write(id, n, base) /\ w = Cmd(id, n, <<>>).writes /\ l = Cmd(id, 0, b)
  OBVIOUS
<1>3. w = Cmd0704(n, <<>>).writes /\ l = Cmd0704(0, b)
  BY ONLY <1>1, <1>2, SMT DEF Cmd
<1>4. PICK u, v : u = <<Own(2), Own(1)>> /\ v = Cmd0200(n, <<>>).writes
  OBVIOUS
<1>5. w = u \o v
  BY ONLY <1>3, <1>4 DEF Cmd0704, Layout
<1>6. u \in Seq(Fields) /\ Len(u) = 2 /\ u[1].size = 2 /\ u[2].size = 1
  BY ONLY <1>4, SMT DEF Own, Fields
<1>7. /\ v \in Seq(Fields) /\ Len(v) = 8
      /\ v[1].size = 4 /\ v[2].size = 4 /\ v[3].size = 4 /\ v[4].size = 4
      /\ v[5].size = 2 /\ v[6].size = 2 /\ v[7].size = 2 /\ v[8].size = 6
  BY ONLY <1>4, SMT DEF Cmd0200, Layout, Own, Fields
<1>8. /\ w \in Seq(Fields) /\ Len(w) = 2 + 8
      /\ \A i \in 1..2 : w[i] = u[i]
      /\ \A i \in 1..8 : w[2 + i] = v[i]
  <2>1. u \in Seq(Fields) /\ v \in Seq(Fields)
    BY ONLY <1>6, <1>7
  <2>2. /\ u \o v \in Seq(Fields) /\ Len(u \o v) = Len(u) + Len(v)
        /\ \A i \in 1..Len(u) : (u \o v)[i] = u[i]
        /\ \A i \in 1..Len(v) : (u \o v)[Len(u) + i] = v[i]
    BY ONLY <2>1, Appended
  <2>3. Len(u) = 2 /\ Len(v) = 8
    BY ONLY <1>6, <1>7
  <2> QED
    BY ONLY <1>5, <2>2, <2>3
<1>9. /\ Len(w) = 10 /\ w[1].size = 2 /\ w[2].size = 1
      /\ w[3].size = 4 /\ w[4].size = 4 /\ w[5].size = 4 /\ w[6].size = 4
      /\ w[7].size = 2 /\ w[8].size = 2 /\ w[9].size = 2 /\ w[10].size = 6
  <2>1. Len(w) = 10 /\ w[1] = u[1] /\ w[2] = u[2]
    BY ONLY <1>8
  <2>2. /\ w[2 + 1] = v[1] /\ w[2 + 2] = v[2] /\ w[2 + 3] = v[3] /\ w[2 + 4] = v[4]
        /\ w[2 + 5] = v[5] /\ w[2 + 6] = v[6] /\ w[2 + 7] = v[7] /\ w[2 + 8] = v[8]
    BY ONLY <1>8
  <2> QED
    BY ONLY <1>6, <1>7, <2>1, <2>2
<1>10. PICK q : q = <<At(0, 2), At(2, 1), At(3, 4), At(7, 4), At(11, 4), At(15, 4), At(19, 2),
                      At(21, 2), At(23, 2), At(25, 6)>>
  OBVIOUS
<1>11. Consecutive(w, q)
  BY ONLY <1>9, <1>10, SMT DEF Consecutive, At
<1>12. Len(b) = 31
  <2>1. Located(w, q, b, base)
    <3>1. w \in Seq(Fields)
      BY ONLY <1>8
    <3> QED
      BY ONLY base \in Nat, <1>2, <1>11, <3>1, Finds
  <2>2. Len(b) = q[10].pos + q[10].n
    BY ONLY <1>9, <2>1 DEF Located
  <2>3. q[10] = At(25, 6)
    BY ONLY <1>10
  <2> QED
    BY ONLY <2>2, <2>3 DEF At
<1>13. l.least = 32
  BY ONLY <1>3, SMT DEF Cmd0704, Cmd0200, Layout
<1>14. Len(b) < l.least
  BY ONLY <1>12, <1>13
<1>15. ~Reads(id, n, base)
  BY ONLY <1>2, <1>14, TooShort
<1> QED
  BY ONLY <1>1, <1>15

-----------------------------------------------------------------------------
(* Lists: rows of fields, and where the fields of each row are.             *)
Spots == [pos : Nat, n : Nat]

Runs(w, r, o, e) ==
  /\ w \in Seq(Fields) /\ r \in Seq(Spots) /\ Len(r) = Len(w)
  /\ \A i \in 1..Len(w) : r[i].n = w[i].size
  /\ Len(w) = 0 => o = e
  /\ Len(w) # 0 => r[1].pos = o /\ r[Len(w)].pos + r[Len(w)].n = e
  /\ \A i \in 2..Len(w) : r[i].pos = r[i - 1].pos + r[i - 1].n

LEMMA RunsJoin ==
  ASSUME NEW w, NEW r, NEW v, NEW s, NEW o, NEW m, NEW e, Runs(w, r, o, m), Runs(v, s, m, e)
  PROVE  Runs(w \o v, r \o s, o, e)
<1>1. /\ w \in Seq(Fields) /\ r \in Seq(Spots) /\ Len(r) = Len(w)
      /\ \A i \in 1..Len(w) : r[i].n = w[i].size
      /\ Len(w) = 0 => o = m
      /\ Len(w) # 0 => r[1].pos = o /\ r[Len(w)].pos + r[Len(w)].n = m
      /\ \A i \in 2..Len(w) : r[i].pos = r[i - 1].pos + r[i - 1].n
  BY ONLY Runs(w, r, o, m) DEF Runs
<1>2. /\ v \in Seq(Fields) /\ s \in Seq(Spots) /\ Len(s) = Len(v)
      /\ \A i \in 1..Len(v) : s[i].n = v[i].size
      /\ Len(v) = 0 => m = e
      /\ Len(v) # 0 => s[1].pos = m /\ s[Len(v)].pos + s[Len(v)].n = e
      /\ \A i \in 2..Len(v) : s[i].pos = s[i - 1].pos + s[i - 1].n
  BY ONLY Runs(v, s, m, e) DEF Runs
<1>3. PICK W, R : W = w \o v /\ R = r \o s
  OBVIOUS
<1>4. PICK a \in Nat, c \in Nat : a = Len(w) /\ c = Len(v)
  BY ONLY <1>1, <1>2
<1>5. /\ W \in Seq(Fields) /\ Len(W) = a + c
      /\ \A i \in 1..a : W[i] = w[i]
      /\ \A i \in 1..c : W[a + i] = v[i]
  <2>1. /\ w \o v \in Seq(Fields) /\ Len(w \o v) = Len(w) + Len(v)
        /\ \A k \in 1..Len(w) : (w \o v)[k] = w[k]
        /\ \A k \in 1..Len(v) : (w \o v)[Len(w) + k] = v[k]
    <3>1. w \in Seq(Fields) /\ v \in Seq(Fields)
      BY ONLY <1>1, <1>2
    <3> QED
      BY ONLY <3>1, Appended
  <2> QED
    BY ONLY <1>3, <1>4, <2>1
<1>6. /\ R \in Seq(Spots) /\ Len(R) = a + c
      /\ \A i \in 1..a : R[i] = r[i]
      /\ \A i \in 1..c : R[a + i] = s[i]
  <2>1. /\ r \o s \in Seq(Spots) /\ Len(r \o s) = Len(r) + Len(s)
        /\ \A k \in 1..Len(r) : (r \o s)[k] = r[k]
        /\ \A k \in 1..Len(s) : (r \o s)[Len(r) + k] = s[k]
    <3>1. r \in Seq(Spots) /\ s \in Seq(Spots)
      BY ONLY <1>1, <1>2
    <3> QED
      BY ONLY <3>1, Appended
  <2>2. Len(r) = a /\ Len(s) = c
    BY ONLY <1>1, <1>2, <1>4
  <2> QED
    BY ONLY <1>3, <2>1, <2>2
<1>7. ASSUME NEW i \in 1..(a + c), i > a
      PROVE  \E k \in 1..c : i = a + k
  <2>1. i - a \in 1..c /\ i = a + (i - a)
    BY ONLY a \in Nat, c \in Nat, i \in 1..(a + c), i > a
  <2> QED
    BY ONLY <2>1
<1>8. \A i \in 1..(a + c) : R[i].n = W[i].size
  <2> SUFFICES ASSUME NEW i \in 1..(a + c)
               PROVE  R[i].n = W[i].size
    OBVIOUS
  <2>1. CASE i <= a
    <3>1. i \in 1..a
      BY ONLY <2>1, a \in Nat, i \in 1..(a + c)
    <3> QED
      BY ONLY <1>1, <1>4, <1>5, <1>6, <3>1
  <2>2. CASE i > a
    <3>1. PICK k \in 1..c : i = a + k
      BY ONLY <1>7, <2>2, i \in 1..(a + c)
    <3>2. R[i] = s[k] /\ W[i] = v[k]
      BY ONLY <1>5, <1>6, <3>1
    <3> QED
      BY ONLY <1>2, <1>4, <3>2, k \in 1..c
  <2> QED
    BY ONLY <2>1, <2>2, a \in Nat, i \in 1..(a + c), c \in Nat
<1>9. a + c = 0 => o = e
  BY ONLY <1>1, <1>2, <1>4, a \in Nat, c \in Nat
<1>10. a + c # 0 => R[1].pos = o
  <2>1. CASE a = 0
    <3>1. c # 0 => R[a + 1] = s[1] /\ s[1].pos = m
      <4>1. c # 0 => 1 \in 1..c
        BY ONLY c \in Nat
      <4> QED
        BY ONLY <1>2, <1>4, <1>6, <4>1
    <3>2. a + 1 = 1 /\ a + c = c /\ o = m
      BY ONLY <1>1, <1>4, <2>1, c \in Nat
    <3> QED
      BY ONLY <3>1, <3>2
  <2>2. CASE a # 0
    <3>1. 1 \in 1..a
      BY ONLY <2>2, a \in Nat
    <3>2. R[1] = r[1] /\ r[1].pos = o
      BY ONLY <1>1, <1>4, <1>6, <2>2, <3>1
    <3> QED
      BY ONLY <3>2
  <2> QED
    BY ONLY <2>1, <2>2
<1>11. a + c # 0 => R[a + c].pos + R[a + c].n = e
  <2>1. CASE c = 0
    <3>1. a + c = a /\ m = e
      BY ONLY <1>2, <1>4, <2>1, a \in Nat
    <3>2. a # 0 => R[a] = r[a] /\ r[a].pos + r[a].n = m
      <4>1. a # 0 => a \in 1..a
        BY ONLY a \in Nat
      <4> QED
        BY ONLY <1>1, <1>4, <1>6, <4>1
    <3> QED
      BY ONLY <3>1, <3>2
  <2>2. CASE c # 0
    <3>1. c \in 1..c
      BY ONLY <2>2, c \in Nat
    <3>2. R[a + c] = s[c] /\ s[c].pos + s[c].n = e
      BY ONLY <1>2, <1>4, <1>6, <2>2, <3>1
    <3> QED
      BY ONLY <3>2
  <2> QED
    BY ONLY <2>1, <2>2
<1>12. \A i \in 2..(a + c) : R[i].pos = R[i - 1].pos + R[i - 1].n
  <2> SUFFICES ASSUME NEW i \in 2..(a + c)
               PROVE  R[i].pos = R[i - 1].pos + R[i - 1].n
    OBVIOUS
  <2>1. CASE i <= a
    <3>1. i \in 1..a /\ i - 1 \in 1..a /\ i \in 2..a
      BY ONLY <2>1, a \in Nat, c \in Nat, i \in 2..(a + c)
    <3>2. R[i] = r[i] /\ R[i - 1] = r[i - 1]
      BY ONLY <1>6, <3>1
    <3>3. r[i].pos = r[i - 1].pos + r[i - 1].n
      BY ONLY <1>1, <1>4, <3>1
    <3> QED
      BY ONLY <3>2, <3>3
  <2>2. CASE i = a + 1
    <3>1. a \in 1..a /\ 1 \in 1..c /\ i - 1 = a /\ a # 0 /\ c # 0
      BY ONLY <2>2, a \in Nat, c \in Nat, i \in 2..(a + c)
    <3>2. R[a + 1] = s[1] /\ R[a] = r[a]
      BY ONLY <1>6, <3>1
    <3>3. s[1].pos = m /\ r[a].pos + r[a].n = m
      BY ONLY <1>1, <1>2, <1>4, <3>1
    <3> QED
      BY ONLY <2>2, <3>1, <3>2, <3>3
  <2>3. CASE i > a + 1
    <3>1. PICK k \in 1..c : i = a + k
      <4>1. i \in 1..(a + c) /\ i > a
        BY ONLY <2>3, a \in Nat, c \in Nat, i \in 2..(a + c)
      <4> QED
        BY ONLY <1>7, <4>1
    <3>2. k \in 2..c /\ k - 1 \in 1..c /\ i - 1 = a + (k - 1)
      BY ONLY <2>3, <3>1, a \in Nat, c \in Nat
    <3>3. R[i] = s[k] /\ R[i - 1] = s[k - 1]
      BY ONLY <1>6, <3>1, <3>2
    <3>4. s[k].pos = s[k - 1].pos + s[k - 1].n
      BY ONLY <1>2, <1>4, <3>2
    <3> QED
      BY ONLY <3>3, <3>4
  <2> QED
    BY ONLY <2>1, <2>2, <2>3, a \in Nat, c \in Nat, i \in 2..(a + c)
<1>13. Runs(W, R, o, e)
  BY ONLY <1>5, <1>6, <1>8, <1>9, <1>10, <1>11, <1>12 DEF Runs
<1> QED
  BY ONLY <1>3, <1>13

LEMMA RunsRows ==
  ASSUME NEW W \in Seq(Seq(Fields)), NEW R \in Seq(Seq(Spots)), Len(R) = Len(W), NEW p,
         \A i \in 1..Len(W) : Runs(W[i], R[i], p[i], p[i + 1])
  PROVE  \A i \in 0..Len(W) : Runs(FlattenSeq(SubSeq(W, 1, i)), FlattenSeq(SubSeq(R, 1, i)),
                                   p[1], p[i + 1])
<1> DEFINE fw(i) == FlattenSeq(SubSeq(W, 1, i))
           fr(i) == FlattenSeq(SubSeq(R, 1, i))
           S == {i \in Nat : i <= Len(W) => Runs(fw(i), fr(i), p[1], p[i + 1])}
<1>1. 0 \in S
  <2>1. SubSeq(W, 1, 0) = <<>> /\ SubSeq(R, 1, 0) = <<>>
    OBVIOUS
  <2>2. fw(0) = <<>> /\ fr(0) = <<>>
    BY ONLY <2>1, FlattenEmpty
  <2>3. Runs(<<>>, <<>>, p[1], p[0 + 1])
    <3>1. 0 + 1 = 1
      OBVIOUS
    <3> QED
      BY ONLY <3>1 DEF Runs
  <2> QED
    BY ONLY <2>2, <2>3
<1>2. ASSUME NEW j \in Nat, j \in S
      PROVE  j + 1 \in S
  <2> SUFFICES ASSUME j + 1 <= Len(W)
               PROVE  Runs(fw(j + 1), fr(j + 1), p[1], p[(j + 1) + 1])
    OBVIOUS
  <2>1. PICK i : i = j + 1
    OBVIOUS
  <2>2. i \in 1..Len(W) /\ i \in 1..Len(R) /\ i - 1 = j /\ j <= Len(W)
    BY ONLY <2>1, j \in Nat, j + 1 <= Len(W), W \in Seq(Seq(Fields)), Len(R) = Len(W)
  <2>3. Runs(fw(j), fr(j), p[1], p[i])
    BY <1>2, <2>1, <2>2
  <2>4. Runs(W[i], R[i], p[i], p[i + 1])
    BY ONLY <2>2, \A k \in 1..Len(W) : Runs(W[k], R[k], p[k], p[k + 1])
  <2>5. fw(i) = fw(i - 1) \o W[i]
    <3>1. FlattenSeq(SubSeq(W, 1, i)) = FlattenSeq(SubSeq(W, 1, i - 1)) \o W[i]
      BY ONLY <2>2, W \in Seq(Seq(Fields)), FlattenStep
    <3> QED
      BY ONLY <3>1
  <2>6. fr(i) = fr(i - 1) \o R[i]
    <3>1. FlattenSeq(SubSeq(R, 1, i)) = FlattenSeq(SubSeq(R, 1, i - 1)) \o R[i]
      BY ONLY <2>2, R \in Seq(Seq(Spots)), FlattenStep
    <3> QED
      BY ONLY <3>1
  <2> HIDE DEF fw, fr
  <2>7. Runs(fw(j) \o W[i], fr(j) \o R[i], p[1], p[i + 1])
    BY ONLY <2>3, <2>4, RunsJoin
  <2> QED
    BY ONLY <2>1, <2>2, <2>5, <2>6, <2>7
<1>3. Nat \subseteq S
  <2> HIDE DEF S
  <2> QED
    BY ONLY <1>1, <1>2, SetInduction
<1>4. ASSUME NEW i \in 0..Len(W)
      PROVE  Runs(fw(i), fr(i), p[1], p[i + 1])
  <2>1. i \in Nat /\ i <= Len(W)
    BY ONLY i \in 0..Len(W), W \in Seq(Seq(Fields))
  <2>2. i \in S
    <3> HIDE DEF S
    <3> QED
      BY ONLY <1>3, <2>1
  <2> HIDE DEF fw, fr
  <2> QED
    BY <2>1, <2>2
<1> QED
  BY <1>4

LEMMA RowsRun ==
  ASSUME NEW W \in Seq(Seq(Fields)), NEW R \in Seq(Seq(Spots)), Len(R) = Len(W), NEW p,
         \A i \in 1..Len(W) : Runs(W[i], R[i], p[i], p[i + 1])
  PROVE  Runs(FlattenSeq(W), FlattenSeq(R), p[1], p[Len(W) + 1])
<1>1. \A i \in 0..Len(W) : Runs(FlattenSeq(SubSeq(W, 1, i)), FlattenSeq(SubSeq(R, 1, i)),
                                 p[1], p[i + 1])
  BY ONLY W \in Seq(Seq(Fields)), R \in Seq(Seq(Spots)), Len(R) = Len(W),
          \A i \in 1..Len(W) : Runs(W[i], R[i], p[i], p[i + 1]), RunsRows
<1>2. Len(W) \in 0..Len(W)
  BY ONLY W \in Seq(Seq(Fields))
<1>3. SubSeq(W, 1, Len(W)) = W
  BY ONLY W \in Seq(Seq(Fields))
<1>4. SubSeq(R, 1, Len(W)) = R
  <2>1. SubSeq(R, 1, Len(R)) = R
    BY ONLY R \in Seq(Seq(Spots))
  <2> QED
    BY ONLY <2>1, Len(R) = Len(W)
<1> QED
  BY ONLY <1>1, <1>2, <1>3, <1>4

LEMMA RowPlaces ==
  ASSUME NEW W \in Seq(Seq(Fields)), NEW R \in Seq(Seq(Spots)), Len(R) = Len(W), NEW p,
         \A i \in 1..Len(W) : Runs(W[i], R[i], p[i], p[i + 1])
  PROVE  \A i \in 1..Len(W) : \A j \in 1..Len(W[i]) :
           \E x \in 1..Len(FlattenSeq(W)) :
             FlattenSeq(W)[x] = W[i][j] /\ FlattenSeq(R)[x] = R[i][j]
<1>1. PICK N \in Nat : N = Len(W)
  BY ONLY W \in Seq(Seq(Fields))
<1>2. PICK A, C : A = FlattenSeq(W) /\ C = FlattenSeq(R)
  OBVIOUS
<1>3. PICK at : Places(at, W, A)
  <2>1. \E at : Places(at, W, FlattenSeq(W))
    BY ONLY W \in Seq(Seq(Fields)), FlattenPlaces
  <2> QED
    BY ONLY <1>2, <2>1
<1>4. PICK to : Places(to, R, C)
  <2>1. \E to : Places(to, R, FlattenSeq(R))
    BY ONLY R \in Seq(Seq(Spots)), FlattenPlaces
  <2> QED
    BY ONLY <1>2, <2>1
<1>5. \A i \in 0..N : at[i] = to[i]
  <2>1. \A i \in 0..N : Runs(FlattenSeq(SubSeq(W, 1, i)), FlattenSeq(SubSeq(R, 1, i)),
                              p[1], p[i + 1])
    <3>1. \A i \in 0..Len(W) : Runs(FlattenSeq(SubSeq(W, 1, i)), FlattenSeq(SubSeq(R, 1, i)),
                                     p[1], p[i + 1])
      BY ONLY W \in Seq(Seq(Fields)), R \in Seq(Seq(Spots)), Len(R) = Len(W),
              \A i \in 1..Len(W) : Runs(W[i], R[i], p[i], p[i + 1]), RunsRows
    <3> QED
      BY ONLY <1>1, <3>1
  <2> SUFFICES ASSUME NEW i \in 0..N
               PROVE  at[i] = to[i]
    OBVIOUS
  <2>2. PICK u, v : u = FlattenSeq(SubSeq(W, 1, i)) /\ v = FlattenSeq(SubSeq(R, 1, i))
    OBVIOUS
  <2>3. Len(v) = Len(u)
    <3>1. Runs(u, v, p[1], p[i + 1])
      BY ONLY <2>1, <2>2, i \in 0..N
    <3> QED
      BY ONLY <3>1 DEF Runs
  <2>4. at[i] = Len(u)
    BY ONLY <1>1, <1>3, <2>2, i \in 0..N DEF Places
  <2>5. to[i] = Len(v)
    BY ONLY <1>1, <1>4, <2>2, i \in 0..N, Len(R) = Len(W) DEF Places
  <2> QED
    BY ONLY <2>3, <2>4, <2>5
<1>6. A \in Seq(Fields)
  <2>1. FlattenSeq(W) \in Seq(Fields)
    BY ONLY W \in Seq(Seq(Fields)), FlattenType
  <2> QED
    BY ONLY <1>2, <2>1
<1>7. ASSUME NEW i \in 1..N, NEW j \in 1..Len(W[i])
      PROVE  \E x \in 1..Len(A) : A[x] = W[i][j] /\ C[x] = R[i][j]
  <2>1. PICK a, o, z : a = at[i - 1] /\ o = W[i] /\ z = R[i]
    OBVIOUS
  <2>2. i - 1 \in 0..N /\ i \in 0..N
    BY ONLY N \in Nat, i \in 1..N
  <2>3. Len(z) = Len(o) /\ o \in Seq(Fields)
    <3>1. Runs(W[i], R[i], p[i], p[i + 1])
      BY ONLY <1>1, i \in 1..N, \A k \in 1..Len(W) : Runs(W[k], R[k], p[k], p[k + 1])
    <3> QED
      BY ONLY <2>1, <3>1 DEF Runs
  <2>4. to[i - 1] = a
    BY ONLY <1>5, <2>1, <2>2
  <2>5. A[a + j] = o[j] /\ a \in 0..Len(A) /\ at[i] \in 0..Len(A) /\ at[i] = a + Len(o)
    BY ONLY <1>1, <1>3, <2>1, <2>2, i \in 1..N, j \in 1..Len(W[i]) DEF Places
  <2>6. C[a + j] = z[j]
    <3>1. i \in 1..Len(R) /\ j \in 1..Len(R[i])
      BY ONLY <1>1, <2>1, <2>3, i \in 1..N, j \in 1..Len(W[i]), Len(R) = Len(W)
    <3>2. C[to[i - 1] + j] = R[i][j]
      BY ONLY <1>4, <3>1 DEF Places
    <3> QED
      BY ONLY <2>1, <2>4, <3>2
  <2>7. a + j \in 1..Len(A)
    <3>1. Len(A) \in Nat /\ Len(o) \in Nat /\ j \in 1..Len(o)
      BY ONLY <1>6, <2>1, <2>3, j \in 1..Len(W[i])
    <3> QED
      BY ONLY <2>5, <3>1
  <2> QED
    BY ONLY <2>1, <2>5, <2>6, <2>7
<1> QED
  BY ONLY <1>1, <1>2, <1>7

(* The number a field holds is found in its last byte.                      *)
LEMMA HeldAt ==
  ASSUME NEW w, NEW q, NEW b, NEW base, Located(w, q, b, base), NEW i \in 1..Len(w),
         NEW s \in Nat \ {0}, NEW v, w[i] = Holds(s, v), NEW p, p = q[i].pos + s - 1
  PROVE  U8(b, p) = v
<1>1. ~w[i].own /\ w[i].size = s /\ w[i].holds = v /\ s # 0
  BY ONLY w[i] = Holds(s, v), s \in Nat \ {0} DEF Holds
<1>2. U8(b, q[i].pos + w[i].size - 1) = w[i].holds
  BY ONLY Located(w, q, b, base), <1>1, i \in 1..Len(w) DEF Located
<1> QED
  BY ONLY <1>1, <1>2, p = q[i].pos + s - 1

(* A command that is found where it is read.                                *)
LEMMA RunBack ==
  ASSUME NEW id \in Known, NEW n, NEW base \in Nat, NEW w, w = Cmd(id, n, <<>>).writes,
         NEW b, b = Write(id, n, base), NEW l, l = Cmd(id, 0, b), NEW e \in Nat,
         Runs(w, l.reads, 0, e), Len(w) # 0, l.least \in Nat, l.least <= e
  PROVE  Reads(id, n, base)
<1>1. /\ w \in Seq(Fields) /\ l.reads \in Seq(Spots) /\ Len(l.reads) = Len(w)
      /\ \A i \in 1..Len(w) : l.reads[i].n = w[i].size
      /\ l.reads[1].pos = 0 /\ l.reads[Len(w)].pos + l.reads[Len(w)].n = e
      /\ \A i \in 2..Len(w) : l.reads[i].pos = l.reads[i - 1].pos + l.reads[i - 1].n
  BY ONLY Runs(w, l.reads, 0, e), Len(w) # 0 DEF Runs
<1>2. Consecutive(w, l.reads)
  <2>1. DOMAIN l.reads = 1..Len(w)
    BY ONLY <1>1
  <2> QED
    BY ONLY <1>1, <2>1 DEF Consecutive
<1>3. w \in Seq(Fields)
  BY ONLY <1>1
<1>4. Located(w, l.reads, b, base)
  BY ONLY base \in Nat, w = Cmd(id, n, <<>>).writes, b = Write(id, n, base), <1>2, <1>3, Finds
<1>5. Len(b) = e
  BY ONLY <1>1, <1>4, Len(w) # 0 DEF Located
<1>6. ~(Len(b) < l.least)
  BY ONLY <1>5, e \in Nat, l.least \in Nat, l.least <= e
<1> QED
  BY ONLY id \in Known, base \in Nat, w = Cmd(id, n, <<>>).writes, b = Write(id, n, base),
          l = Cmd(id, 0, b), <1>2, <1>3, <1>6, ComesBack

LEMMA Read9212 ==
  ASSUME NEW n \in Nat, NEW base \in Nat
  PROVE  Reads(\h9212, n, base)
<1>1. PICK id : id = \h9212
  OBVIOUS
<1>2. PICK b, w, l : b = Write(id, n, base) /\ w = Cmd(id, n, <<>>).writes /\ l = Cmd(id, 0, b)
  OBVIOUS
<1>3. w = Cmd9212(n, <<>>).writes /\ l = Cmd9212(0, b)
  BY ONLY <1>1, <1>2, SMT DEF Cmd
<1>4. PICK f : f = <<Own(4), Own(4)>>
  OBVIOUS
<1>5. PICK H, W : /\ H = <<Holds(1, n), Own(n), Own(1), Own(1), Holds(1, n)>>
                  /\ W = [i \in 1..n |-> f]
  OBVIOUS
<1>6. w = H \o FlattenSeq(W)
  BY ONLY <1>3, <1>4, <1>5 DEF Cmd9212, Layout, Items
<1>7. f \in Seq(Fields) /\ H \in Seq(Fields) /\ Len(H) = 5
  BY ONLY <1>4, <1>5, n \in Nat, SMT DEF Own, Holds, Fields
<1>8. W \in Seq(Seq(Fields)) /\ Len(W) = n
  <2>1. W \in [1..n -> Seq(Fields)]
    BY ONLY <1>5, <1>7
  <2> QED
    BY ONLY <2>1, n \in Nat
<1>9. /\ w \in Seq(Fields) /\ Len(w) >= 5
      /\ w[1] = H[1] /\ w[2] = H[2] /\ w[3] = H[3] /\ w[4] = H[4] /\ w[5] = H[5]
  <2>1. PICK V \in Seq(Fields) : V = FlattenSeq(W)
    BY ONLY <1>8, FlattenType
  <2>2. /\ H \o V \in Seq(Fields) /\ Len(H \o V) = Len(H) + Len(V)
        /\ \A k \in 1..Len(H) : (H \o V)[k] = H[k]
    <3>1. H \in Seq(Fields)
      BY ONLY <1>7
    <3>2. /\ H \o V \in Seq(Fields) /\ Len(H \o V) = Len(H) + Len(V)
          /\ \A k \in 1..Len(H) : (H \o V)[k] = H[k]
          /\ \A k \in 1..Len(V) : (H \o V)[Len(H) + k] = V[k]
      BY ONLY <3>1, V \in Seq(Fields), Appended
    <3> QED
      BY ONLY <3>2
  <2>3. Len(V) \in Nat
    BY ONLY <2>1
  <2> QED
    BY ONLY <1>6, <1>7, <2>1, <2>2, <2>3
<1>10. PICK q : Consecutive(w, q) /\ Located(w, q, b, base)
  <2>1. b \in Seq(Nat) /\ \E q : Consecutive(w, q) /\ Located(w, q, b, base)
    <3>1. w \in Seq(Fields)
      BY ONLY <1>9
    <3> QED
      BY ONLY base \in Nat, <1>2, <3>1, FieldsLie
  <2> QED
    BY ONLY <2>1
<1>11. q[1].pos = 0 /\ q[5].pos = n + 3
  <2>1. /\ w[1].size = 1 /\ w[2].size = n /\ w[3].size = 1 /\ w[4].size = 1
    BY ONLY <1>5, <1>9, SMT DEF Own, Holds
  <2>2. Len(w) # 0 /\ \A i \in 1..5 : i \in 1..Len(w)
    BY ONLY <1>9
  <2>3. q[1].pos = 0 /\ \A i \in 1..5 : q[i].n = w[i].size
    BY ONLY <1>10, <2>2 DEF Consecutive
  <2>4. \A i \in 2..5 : q[i].pos = q[i - 1].pos + q[i - 1].n
    <3>1. \A i \in 2..5 : i \in 2..Len(w)
      BY ONLY <1>9
    <3> QED
      BY ONLY <1>10, <3>1 DEF Consecutive
  <2>5. q[1].n = 1 /\ q[2].n = n /\ q[3].n = 1 /\ q[4].n = 1
    BY ONLY <2>1, <2>3
  <2>6. /\ q[2].pos = q[1].pos + q[1].n /\ q[3].pos = q[2].pos + q[2].n
        /\ q[4].pos = q[3].pos + q[3].n /\ q[5].pos = q[4].pos + q[4].n
    BY ONLY <2>4, SMT
  <2> QED
    BY ONLY <2>3, <2>5, <2>6, n \in Nat
<1>12. U8(b, 0) = n
  <2>1. w[1] = Holds(1, n) /\ 1 \in 1..Len(w) /\ 0 = q[1].pos + 1 - 1 /\ 1 \in Nat \ {0}
    BY ONLY <1>5, <1>9, <1>11
  <2>2. Located(w, q, b, base)
    BY ONLY <1>10
  <2> QED
    BY ONLY <2>1, <2>2, HeldAt
<1>13. U8(b, n + 3) = n
  <2>1. w[5] = Holds(1, n) /\ 5 \in 1..Len(w) /\ n + 3 = q[5].pos + 1 - 1 /\ 1 \in Nat \ {0}
    BY ONLY <1>5, <1>9, <1>11, n \in Nat
  <2>2. Located(w, q, b, base)
    BY ONLY <1>10
  <2> QED
    BY ONLY <2>1, <2>2, HeldAt
<1>14. PICK G, R : /\ G = <<At(0, 1), At(1, n), At(n + 1, 1), At(n + 2, 1), At(n + 3, 1)>>
                   /\ R = [i \in 1..n |-> <<At(n + 4 + 8 * (i - 1), 4),
                                            At(n + 8 + 8 * (i - 1), 4)>>]
  OBVIOUS
<1>15. l.reads = G \o FlattenSeq(R) /\ l.least = n + 4 + 8 * n
  BY ONLY <1>3, <1>12, <1>13, <1>14 DEF Cmd9212, Layout
<1>16. ASSUME NEW i \in 1..n
       PROVE  R[i] \in Seq(Spots) /\ Runs(W[i], R[i], n + 4 + 8 * (i - 1), n + 4 + 8 * i)
  <2>1. R[i] = <<At(n + 4 + 8 * (i - 1), 4), At(n + 8 + 8 * (i - 1), 4)>> /\ W[i] = f
    BY ONLY <1>5, <1>14, i \in 1..n
  <2>2. PICK x, y, z : /\ x = n + 4 + 8 * (i - 1) /\ y = n + 8 + 8 * (i - 1)
                       /\ z = n + 4 + 8 * i
    OBVIOUS
  <2>3. x \in Nat /\ y \in Nat /\ z \in Nat /\ y = x + 4 /\ z = y + 4
    BY ONLY <2>2, n \in Nat, i \in 1..n
  <2>4. PICK r : r = <<At(x, 4), At(y, 4)>>
    OBVIOUS
  <2>5. r \in Seq(Spots) /\ Len(r) = 2 /\ r[1].pos = x /\ r[1].n = 4 /\ r[2].pos = y /\ r[2].n = 4
    BY ONLY <2>3, <2>4, SMT DEF At, Spots
  <2>6. Len(f) = 2 /\ f[1].size = 4 /\ f[2].size = 4
    BY ONLY <1>4, SMT DEF Own
  <2>7. Runs(f, r, x, z)
    BY ONLY <1>7, <2>3, <2>5, <2>6, SMT DEF Runs
  <2> QED
    BY ONLY <2>1, <2>2, <2>4, <2>5, <2>7
<1>17. R \in Seq(Seq(Spots)) /\ Len(R) = n
  <2>1. R \in [1..n -> Seq(Spots)]
    BY ONLY <1>14, <1>16
  <2> QED
    BY ONLY <2>1, n \in Nat
<1>18. PICK p : p = [i \in 1..(n + 1) |-> n + 4 + 8 * (i - 1)]
  OBVIOUS
<1>19. p[1] = n + 4 /\ p[n + 1] = n + 4 + 8 * n
  BY ONLY <1>18, n \in Nat
<1>20. ASSUME NEW i \in 1..n
       PROVE  Runs(W[i], R[i], p[i], p[i + 1])
  <2>1. p[i] = n + 4 + 8 * (i - 1) /\ p[i + 1] = n + 4 + 8 * i
    BY ONLY <1>18, n \in Nat, i \in 1..n
  <2> QED
    BY ONLY <1>16, <2>1, i \in 1..n
<1>21. Runs(FlattenSeq(W), FlattenSeq(R), n + 4, n + 4 + 8 * n)
  <2>1. W \in Seq(Seq(Fields)) /\ R \in Seq(Seq(Spots)) /\ Len(R) = Len(W)
    BY ONLY <1>8, <1>17
  <2>2. Runs(FlattenSeq(W), FlattenSeq(R), p[1], p[Len(W) + 1])
    <3>1. \A i \in 1..Len(W) : Runs(W[i], R[i], p[i], p[i + 1])
      BY ONLY <1>8, <1>20
    <3> QED
      BY ONLY <2>1, <3>1, RowsRun
  <2> QED
    BY ONLY <1>8, <1>19, <2>2
<1>22. Runs(H, G, 0, n + 4)
  BY ONLY <1>5, <1>14, n \in Nat, SMT DEF Runs, At, Own, Holds, Fields, Spots
<1>23. Runs(w, l.reads, 0, n + 4 + 8 * n)
  <2>1. Runs(H \o FlattenSeq(W), G \o FlattenSeq(R), 0, n + 4 + 8 * n)
    BY ONLY <1>21, <1>22, RunsJoin
  <2> QED
    BY ONLY <1>6, <1>15, <2>1
<1>24. /\ id \in Known /\ Len(w) # 0 /\ n + 4 + 8 * n \in Nat /\ l.least \in Nat
       /\ l.least <= n + 4 + 8 * n
  <2>1. id \in Known
    BY ONLY <1>1, SMT DEF Known
  <2> QED
    BY ONLY <1>9, <1>15, <2>1, n \in Nat
<1>25. Reads(id, n, base)
  BY ONLY base \in Nat, <1>2, <1>23, <1>24, RunBack
<1> QED
  BY ONLY <1>1, <1>25

(* The first of the rows.                                                   *)
LEMMA FirstRow ==
  ASSUME NEW T, NEW S \in Seq(Seq(T)), Len(S) # 0, NEW j \in 1..Len(S[1])
  PROVE  j \in 1..Len(FlattenSeq(S)) /\ FlattenSeq(S)[j] = S[1][j]
<1>1. PICK V \in Seq(T) : V = FlattenSeq(S)
  BY ONLY S \in Seq(Seq(T)), FlattenType
<1>2. PICK at : Places(at, S, V)
  <2>1. \E at : Places(at, S, FlattenSeq(S))
    BY ONLY S \in Seq(Seq(T)), FlattenPlaces
  <2> QED
    BY ONLY <1>1, <2>1
<1>3. 1 \in 1..Len(S) /\ 1 - 1 = 0 /\ 1 \in 0..Len(S)
  BY ONLY S \in Seq(Seq(T)), Len(S) # 0
<1>4. /\ at[0] = 0 /\ at[1] \in 0..Len(V) /\ at[1] = at[1 - 1] + Len(S[1])
      /\ \A k \in 1..Len(S[1]) : V[at[1 - 1] + k] = S[1][k]
  BY ONLY <1>2, <1>3 DEF Places
<1>5. V[0 + j] = S[1][j]
  BY ONLY <1>3, <1>4, j \in 1..Len(S[1])
<1>6. j \in 1..Len(V)
  <2>1. Len(S[1]) \in Nat /\ Len(V) \in Nat
    <3>1. S[1] \in Seq(T)
      BY ONLY <1>3, S \in Seq(Seq(T))
    <3> QED
      BY ONLY <3>1, V \in Seq(T)
  <2> QED
    BY ONLY <1>3, <1>4, <2>1, j \in 1..Len(S[1])
<1> QED
  BY ONLY <1>1, <1>5, <1>6, j \in 1..Len(S[1])

LEMMA Read1205 ==
  ASSUME NEW n \in Nat, NEW base \in Nat
  PROVE  Reads(\h1205, n, base) <=> n = 0
<1>1. PICK id : id = \h1205
  OBVIOUS
<1>2. PICK b, w, l : b = Write(id, n, base) /\ w = Cmd(id, n, <<>>).writes /\ l = Cmd(id, 0, b)
  OBVIOUS
<1>3. w = Cmd1205(n, <<>>).writes /\ l = Cmd1205(0, b)
  BY ONLY <1>1, <1>2, SMT DEF Cmd
<1>4. PICK f : f = <<Own(1), Own(TimeDigits), Own(TimeDigits), Own(8), Own(1), Own(1), Own(1),
                     Own(4)>>
  OBVIOUS
<1>5. PICK H, W : H = <<Own(2), Holds(4, n)>> /\ W = [i \in 1..n |-> f]
  OBVIOUS
<1>6. w = H \o FlattenSeq(W)
  BY ONLY <1>3, <1>4, <1>5 DEF Cmd1205, Layout, Items
<1>7. f \in Seq(Fields) /\ H \in Seq(Fields) /\ Len(H) = 2 /\ Len(f) = 8 /\ f[2].size = 12
  BY ONLY <1>4, <1>5, n \in Nat, SMT DEF Own, Holds, Fields, TimeDigits
<1>8. W \in Seq(Seq(Fields)) /\ Len(W) = n
  <2>1. W \in [1..n -> Seq(Fields)]
    BY ONLY <1>5, <1>7
  <2> QED
    BY ONLY <2>1, n \in Nat
<1>9. PICK V \in Seq(Fields) : V = FlattenSeq(W)
  BY ONLY <1>8, FlattenType
<1>10. /\ w \in Seq(Fields) /\ Len(w) = 2 + Len(V) /\ w[1] = H[1] /\ w[2] = H[2]
       /\ \A k \in 1..Len(V) : w[2 + k] = V[k]
  <2>1. H \in Seq(Fields)
    BY ONLY <1>7
  <2>2. /\ H \o V \in Seq(Fields) /\ Len(H \o V) = Len(H) + Len(V)
        /\ \A k \in 1..Len(H) : (H \o V)[k] = H[k]
        /\ \A k \in 1..Len(V) : (H \o V)[Len(H) + k] = V[k]
    BY ONLY <2>1, V \in Seq(Fields), Appended
  <2> QED
    BY ONLY <1>6, <1>7, <1>9, <2>2
<1>11. b \in Seq(Nat) /\ \E q : Consecutive(w, q) /\ Located(w, q, b, base)
  <2>1. w \in Seq(Fields)
    BY ONLY <1>10
  <2> QED
    BY ONLY base \in Nat, <1>2, <2>1, FieldsLie
<1>12. PICK q : Consecutive(w, q) /\ Located(w, q, b, base)
  BY ONLY <1>11
<1>13. U8(b, 5) = n
  <2>1. 1 \in 1..Len(w) /\ 2 \in 1..Len(w) /\ 2 \in 2..Len(w) /\ Len(w) # 0
    BY ONLY <1>10, V \in Seq(Fields)
  <2>2. q[1].pos = 0 /\ q[1].n = w[1].size /\ q[2].pos = q[2 - 1].pos + q[2 - 1].n
    BY ONLY <1>12, <2>1 DEF Consecutive
  <2>3. w[1].size = 2 /\ w[2] = Holds(4, n)
    BY ONLY <1>5, <1>10, SMT DEF Own
  <2>4. 5 = q[2].pos + 4 - 1 /\ 4 \in Nat \ {0}
    <3>1. 2 - 1 = 1
      OBVIOUS
    <3> QED
      BY ONLY <2>2, <2>3, <3>1
  <2>5. Located(w, q, b, base)
    BY ONLY <1>12
  <2> QED
    BY ONLY <2>1, <2>3, <2>4, <2>5, HeldAt
<1>14. PICK G, R : /\ G = <<At(0, 2), At(2, 4)>>
                   /\ R = [i \in 1..n |->
                             LET p == 6 + 32 * (i - 1)
                             IN  <<At(p, 1), At(p + 1, 6), At(p + 7, 6), At(p + 13, 8),
                                   At(p + 21, 1), At(p + 22, 1), At(p + 23, 1),
                                   At(p + 24, 4)>>]
  OBVIOUS
<1>15. l.reads = G \o FlattenSeq(R) /\ l.least = 6
  BY ONLY <1>3, <1>13, <1>14 DEF Cmd1205, Layout
<1>16. CASE n = 0
  <2>1. W = <<>> /\ R = <<>>
    BY ONLY <1>5, <1>14, <1>16
  <2>2. FlattenSeq(W) = <<>> /\ FlattenSeq(R) = <<>>
    BY ONLY <2>1, FlattenEmpty
  <2>3. G \in Seq(Spots)
    BY ONLY <1>14, SMT DEF At, Spots
  <2>4. w = H /\ l.reads = G
    BY ONLY <1>6, <1>7, <1>15, <2>2, <2>3
  <2>5. Runs(H, G, 0, 6)
    BY ONLY <1>5, <1>14, n \in Nat, SMT DEF Runs, At, Own, Holds, Fields, Spots
  <2>6. Runs(w, l.reads, 0, 6) /\ Len(w) # 0 /\ l.least \in Nat /\ l.least <= 6 /\ 6 \in Nat
    <3>1. Runs(w, l.reads, 0, 6)
      BY ONLY <2>4, <2>5
    <3>2. Len(w) # 0 /\ l.least \in Nat /\ l.least <= 6 /\ 6 \in Nat
      <4>1. Len(H) = 2 /\ w = H
        BY ONLY <1>7, <2>4
      <4>2. Len(w) # 0
        BY ONLY <4>1
      <4>3. l.least = 6
        BY ONLY <1>15
      <4> QED
        BY ONLY <4>2, <4>3
    <3> QED
      BY ONLY <3>1, <3>2
  <2>7. id \in Known
    BY ONLY <1>1, SMT DEF Known
  <2>8. Reads(id, n, base)
    BY ONLY base \in Nat, <1>2, <2>6, <2>7, RunBack
  <2> QED
    BY ONLY <1>1, <1>16, <2>8
<1>17. CASE n # 0
  <2>1. ASSUME NEW i \in 1..n
        PROVE  R[i] \in Seq(Spots) /\ Len(R[i]) = 8 /\ R[i][2].n = 6
    <3>1. PICK p \in Nat : p = 6 + 32 * (i - 1)
      BY ONLY n \in Nat, i \in 1..n
    <3>2. R[i] = <<At(p, 1), At(p + 1, 6), At(p + 7, 6), At(p + 13, 8), At(p + 21, 1),
                   At(p + 22, 1), At(p + 23, 1), At(p + 24, 4)>>
      BY ONLY <1>14, <3>1, i \in 1..n
    <3> QED
      BY ONLY <3>2, p \in Nat, SMT DEF At, Spots
  <2>2. R \in Seq(Seq(Spots)) /\ Len(R) = n
    <3>1. R \in [1..n -> Seq(Spots)]
      BY ONLY <1>14, <2>1
    <3> QED
      BY ONLY <3>1, n \in Nat
  <2>3. PICK F \in Seq(Spots) : F = FlattenSeq(R)
    BY ONLY <2>2, FlattenType
  <2>4. 1 \in 1..n
    BY ONLY <1>17, n \in Nat
  <2>5. 2 \in 1..Len(V) /\ V[2] = f[2]
    <3>1. W[1] = f /\ Len(W) # 0 /\ 2 \in 1..Len(W[1]) /\ W \in Seq(Seq(Fields))
      <4>1. W[1] = f
        BY ONLY <1>5, <2>4
      <4>2. 2 \in 1..Len(f)
        BY ONLY <1>7
      <4> QED
        BY ONLY <1>8, <1>17, <4>1, <4>2
    <3>2. 2 \in 1..Len(FlattenSeq(W)) /\ FlattenSeq(W)[2] = W[1][2]
      BY ONLY <3>1, FirstRow
    <3> QED
      BY ONLY <1>9, <3>1, <3>2
  <2>6. 2 \in 1..Len(F) /\ F[2] = R[1][2]
    <3>1. Len(R) # 0 /\ 2 \in 1..Len(R[1]) /\ R \in Seq(Seq(Spots))
      BY ONLY <1>17, <2>1, <2>2, <2>4
    <3>2. 2 \in 1..Len(FlattenSeq(R)) /\ FlattenSeq(R)[2] = R[1][2]
      BY ONLY <3>1, FirstRow
    <3> QED
      BY ONLY <2>3, <3>2
  <2>7. PICK i, r : i = 4 /\ r = F[2]
    OBVIOUS
  <2>8. i \in DOMAIN w /\ w[i].size = 12
    <3>1. w[2 + 2] = V[2] /\ 2 + 2 = i /\ i \in 1..Len(w)
      BY ONLY <1>10, <2>5, <2>7, V \in Seq(Fields)
    <3>2. DOMAIN w = 1..Len(w)
      BY ONLY <1>10
    <3> QED
      BY ONLY <1>7, <2>5, <3>1, <3>2
  <2>9. r = l.reads[i]
    <3>1. G \in Seq(Spots) /\ Len(G) = 2
      BY ONLY <1>14, SMT DEF At, Spots
    <3>2. /\ G \o F \in Seq(Spots) /\ Len(G \o F) = Len(G) + Len(F)
          /\ \A k \in 1..Len(G) : (G \o F)[k] = G[k]
          /\ \A k \in 1..Len(F) : (G \o F)[Len(G) + k] = F[k]
      <4>1. G \in Seq(Spots)
        BY ONLY <3>1
      <4> QED
        BY ONLY <4>1, F \in Seq(Spots), Appended
    <3>3. (G \o F)[2 + 2] = F[2] /\ 2 + 2 = i
      BY ONLY <2>6, <2>7, <3>1, <3>2
    <3> QED
      BY ONLY <1>15, <2>3, <2>7, <3>3
  <2>10. r.pos \in Nat /\ r.n \in Nat /\ r.n = 6
    <3>1. r \in Spots
      BY ONLY <2>6, <2>7, F \in Seq(Spots)
    <3>2. r.n = 6
      BY ONLY <2>1, <2>4, <2>6, <2>7
    <3> QED
      BY ONLY <3>1, <3>2 DEF Spots
  <2>11. r.n # w[i].size /\ w[i].size # 0 /\ b \in Seq(Nat) /\ w \in Seq(Fields)
    BY ONLY <1>10, <1>11, <2>8, <2>10
  <2>12. i \in DOMAIN w /\ r.pos \in Nat /\ r.n \in Nat
    BY ONLY <2>8, <2>10
  <2>13. ~Reads(id, n, base)
    BY ONLY base \in Nat, <1>2, <2>9, <2>11, <2>12, WrongSize
  <2> QED
    BY ONLY <1>1, <1>17, <2>13
<1> QED
  BY ONLY <1>16, <1>17

(* Where the attachments of 1210 begin, as Parse finds them.                *)
Chained(s, b) ==
  s = [i \in 1..256 |-> IF i = 1 THEN 57 ELSE s[i - 1] + U8(b, s[i - 1]) + 5]

Followed(r, s, b) ==
  r = <<At(0, 7), At(7, 16), At(23, 32), At(55, 1), At(56, 1)>>
        \o FlattenSeq([i \in 1..U8(b, 56) |->
             <<At(s[i], 1), At(s[i] + 1, U8(b, s[i])), At(s[i] + 1 + U8(b, s[i]), 4)>>])

LEMMA Cmd1210Def ==
  ASSUME NEW n, NEW b, \E s : Chained(s, b)
  PROVE  \E s : Chained(s, b) /\ Followed(Cmd1210(n, b).reads, s, b)
<1> DEFINE s == CHOOSE s : s = [i \in 1..256 |->
                  IF i = 1 THEN 57 ELSE s[i - 1] + U8(b, s[i - 1]) + 5]
<1>1. Chained(s, b)
  <2>1. \E z : z = [i \in 1..256 |-> IF i = 1 THEN 57 ELSE z[i - 1] + U8(b, z[i - 1]) + 5]
    BY ONLY \E z : Chained(z, b), Zenon DEF Chained
  <2>2. s = [i \in 1..256 |-> IF i = 1 THEN 57 ELSE s[i - 1] + U8(b, s[i - 1]) + 5]
    BY ONLY <2>1, Zenon
  <2> HIDE DEF s
  <2> QED
    BY ONLY <2>2, Zenon DEF Chained
<1>2. Followed(Cmd1210(n, b).reads, s, b)
  BY Zenon DEF Cmd1210, Layout, Followed
<1> HIDE DEF s
<1> QED
  BY ONLY <1>1, <1>2

(* Where they are: as long as their names say, and no more behind the last. *)
Attached(p, n, b) ==
  /\ p[1] = 57 /\ p[n + 1] = Len(b)
  /\ \A i \in 1..(n + 1) : p[i] \in Nat
  /\ \A i \in 1..n : p[i + 1] = p[i] + n + 5 /\ U8(b, p[i]) = n

LEMMA ChainExists ==
  ASSUME NEW b, NEW n \in Nat, NEW p, Attached(p, n, b)
  PROVE  \E s : Chained(s, b)
<1>0. PICK N \in Nat : /\ N = Len(b) /\ p[1] = 57 /\ p[n + 1] = N
                       /\ \A i \in 1..(n + 1) : p[i] \in Nat
                       /\ \A i \in 1..n : p[i + 1] = p[i] + n + 5 /\ U8(b, p[i]) = n
  <2>1. n + 1 \in 1..(n + 1)
    BY ONLY n \in Nat
  <2> QED
    BY ONLY <2>1, Attached(p, n, b) DEF Attached
<1>1. PICK s : s = [i \in 1..256 |-> IF i <= n + 1 THEN p[i] ELSE N + 5 * (i - n - 1)]
  OBVIOUS
<1>2. ASSUME NEW i \in 1..256
      PROVE  s[i] = IF i = 1 THEN 57 ELSE s[i - 1] + U8(b, s[i - 1]) + 5
  <2>1. CASE i = 1
    BY ONLY <1>0, <1>1, <2>1, n \in Nat
  <2>2. CASE i # 1
    <3>1. PICK j \in Nat : j = i - 1
      BY ONLY <2>2, i \in 1..256
    <3>2. j \in 1..256 /\ i = j + 1
      BY ONLY <2>2, <3>1, i \in 1..256
    <3>3. s[j] = IF j <= n + 1 THEN p[j] ELSE N + 5 * (j - n - 1)
      BY ONLY <1>1, <3>2
    <3>4. s[i] = IF i <= n + 1 THEN p[i] ELSE N + 5 * (i - n - 1)
      BY ONLY <1>1
    <3>5. s[i] = s[j] + U8(b, s[j]) + 5
      <4>1. CASE i <= n + 1
        <5>1. j \in 1..n /\ j <= n + 1 /\ j \in 1..(n + 1)
          BY ONLY <3>2, <4>1, n \in Nat, j \in Nat, i \in 1..256
        <5>2. s[j] = p[j] /\ s[i] = p[i]
          BY ONLY <3>3, <3>4, <4>1, <5>1
        <5>3. p[j + 1] = p[j] + n + 5 /\ U8(b, p[j]) = n /\ p[j] \in Nat
          BY ONLY <1>0, <5>1
        <5> QED
          BY ONLY <3>2, <5>2, <5>3, n \in Nat
      <4>2. CASE i > n + 1
        <5>1. s[i] = N + 5 * (i - n - 1)
          BY ONLY <3>4, <4>2, n \in Nat, i \in 1..256
        <5>2. s[j] = N + 5 * (j - n - 1) /\ j >= n + 1
          <6>1. CASE j = n + 1
            <7>1. s[j] = N
              BY ONLY <3>3, <6>1, n \in Nat, <1>0
            <7> QED
              BY ONLY <6>1, <7>1, n \in Nat, N \in Nat
          <6>2. CASE j # n + 1
            <7>1. ~(j <= n + 1)
              BY ONLY <3>2, <4>2, <6>2, n \in Nat, j \in Nat
            <7> QED
              BY ONLY <3>3, <7>1, n \in Nat, j \in Nat
          <6> QED
            BY ONLY <6>1, <6>2
        <5>3. PICK z \in Nat : z = s[j]
          BY ONLY <5>2, n \in Nat, j \in Nat, N \in Nat
        <5>4. ~(z < Len(b))
          BY ONLY <5>2, <5>3, n \in Nat, j \in Nat, N \in Nat, <1>0
        <5>5. U8(b, z) = 0
          BY ONLY <5>4 DEF U8
        <5> QED
          BY ONLY <3>2, <5>1, <5>2, <5>3, <5>5, n \in Nat, j \in Nat, N \in Nat
      <4> QED
        BY ONLY <4>1, <4>2, n \in Nat, i \in 1..256
    <3> QED
      BY ONLY <2>2, <3>1, <3>5
  <2> QED
    BY ONLY <2>1, <2>2
<1>3. s = [i \in 1..256 |-> IF i = 1 THEN 57 ELSE s[i - 1] + U8(b, s[i - 1]) + 5]
  <2>1. s = [i \in 1..256 |-> s[i]]
    BY ONLY <1>1
  <2> QED
    BY ONLY <1>2, <2>1
<1>4. Chained(s, b)
  BY ONLY <1>3 DEF Chained
<1> QED
  BY ONLY <1>4

(* What is asked for of the first, the second, ... attachment.              *)
LEMMA ChainIs ==
  ASSUME NEW s, NEW b, Chained(s, b), NEW n \in Nat, n <= 255, NEW p, Attached(p, n, b)
  PROVE  \A i \in 1..n : s[i] = p[i]
<1>0. /\ p[1] = 57
      /\ \A i \in 1..(n + 1) : p[i] \in Nat
      /\ \A i \in 1..n : p[i + 1] = p[i] + n + 5 /\ U8(b, p[i]) = n
  BY ONLY Attached(p, n, b) DEF Attached
<1> DEFINE S == {k \in Nat : k + 1 <= n => s[k + 1] = p[k + 1]}
<1>1. 0 \in S
  <2>1. 0 + 1 = 1 /\ 1 \in 1..256
    OBVIOUS
  <2>2. s[1] = 57
    BY ONLY <2>1, Chained(s, b) DEF Chained
  <2> QED
    BY ONLY <2>1, <2>2, <1>0
<1>2. ASSUME NEW k \in Nat, k \in S
      PROVE  k + 1 \in S
  <2> SUFFICES ASSUME (k + 1) + 1 <= n
               PROVE  s[(k + 1) + 1] = p[(k + 1) + 1]
    OBVIOUS
  <2>1. PICK j, i : j = k + 1 /\ i = (k + 1) + 1
    OBVIOUS
  <2>2. /\ j \in 1..n /\ i \in 1..256 /\ i # 1 /\ i - 1 = j /\ j + 1 = i /\ k + 1 <= n
        /\ j \in 1..(n + 1)
    BY ONLY <2>1, (k + 1) + 1 <= n, n <= 255, n \in Nat, k \in Nat
  <2>3. s[j] = p[j]
    BY <1>2, <2>1, <2>2
  <2>4. s[i] = s[j] + U8(b, s[j]) + 5
    BY ONLY <2>2, Chained(s, b) DEF Chained
  <2>5. p[i] = p[j] + n + 5 /\ U8(b, p[j]) = n /\ p[j] \in Nat
    BY ONLY <1>0, <2>2
  <2> QED
    BY ONLY <2>1, <2>3, <2>4, <2>5, n \in Nat
<1>3. Nat \subseteq S
  <2> HIDE DEF S
  <2> QED
    BY ONLY <1>1, <1>2, SetInduction
<1>4. ASSUME NEW i \in 1..n
      PROVE  s[i] = p[i]
  <2>1. i - 1 \in Nat /\ (i - 1) + 1 = i /\ i <= n
    BY ONLY n \in Nat, i \in 1..n
  <2>2. i - 1 \in S
    <3> HIDE DEF S
    <3> QED
      BY ONLY <1>3, <2>1
  <2>3. s[(i - 1) + 1] = p[(i - 1) + 1]
    BY <2>1, <2>2
  <2> QED
    BY ONLY <2>1, <2>3
<1> QED
  BY ONLY <1>4

LEMMA Read1210 ==
  ASSUME NEW n \in Nat, NEW base \in Nat, NEW id \in Known,
         NEW b \in Seq(Byte), b = Write(id, n, base),
         NEW w, w = Cmd(id, n, <<>>).writes, w = Cmd1210(n, <<>>).writes,
         NEW l, l = Cmd(id, 0, b), l = Cmd1210(0, b)
  PROVE  Reads(id, n, base)
<1>1. /\ b = Write(id, n, base) /\ w = Cmd(id, n, <<>>).writes /\ l = Cmd(id, 0, b)
  BY ONLY b = Write(id, n, base), w = Cmd(id, n, <<>>).writes, l = Cmd(id, 0, b)
<1>3. w = Cmd1210(n, <<>>).writes /\ l = Cmd1210(0, b)
  BY ONLY w = Cmd1210(n, <<>>).writes, l = Cmd1210(0, b)
<1>4. PICK f : f = <<Holds(1, n), Own(n), Own(4)>>
  OBVIOUS
<1>5. PICK H, W : /\ H = <<Own(7), Own(16), Own(32), Own(1), Holds(1, n)>>
                  /\ W = [i \in 1..n |-> f]
  OBVIOUS
<1>6. w = H \o FlattenSeq(W)
  BY ONLY <1>3, <1>4, <1>5 DEF Cmd1210, Layout, Items
<1>7. /\ f \in Seq(Fields) /\ Len(f) = 3 /\ f[1] = Holds(1, n)
      /\ f[1].size = 1 /\ f[2].size = n /\ f[3].size = 4
  BY ONLY <1>4, n \in Nat, SMT DEF Own, Holds, Fields
<1>8. H \in Seq(Fields) /\ Len(H) = 5
  BY ONLY <1>5, n \in Nat, SMT DEF Own, Holds, Fields
<1>9. W \in Seq(Seq(Fields)) /\ Len(W) = n
  <2>1. W \in [1..n -> Seq(Fields)]
    BY ONLY <1>5, <1>7
  <2> QED
    BY ONLY <2>1, n \in Nat
<1>10. PICK V \in Seq(Fields) : V = FlattenSeq(W)
  BY ONLY <1>9, FlattenType
<1>11. /\ w \in Seq(Fields) /\ Len(w) = 5 + Len(V) /\ w[5] = H[5]
       /\ \A k \in 1..Len(V) : w[5 + k] = V[k]
  <2>1. /\ H \o V \in Seq(Fields) /\ Len(H \o V) = Len(H) + Len(V)
        /\ \A k \in 1..Len(H) : (H \o V)[k] = H[k]
        /\ \A k \in 1..Len(V) : (H \o V)[Len(H) + k] = V[k]
    <3>1. H \in Seq(Fields)
      BY ONLY <1>8
    <3> QED
      BY ONLY <3>1, V \in Seq(Fields), Appended
  <2>2. w = H \o V
    BY ONLY <1>6, <1>10
  <2>3. w \in Seq(Fields) /\ Len(w) = 5 + Len(V)
    BY ONLY <1>8, <2>1, <2>2
  <2>4. w[5] = H[5]
    <3>1. 5 \in 1..Len(H)
      BY ONLY <1>8
    <3> QED
      BY ONLY <2>1, <2>2, <3>1
  <2>5. \A k \in 1..Len(V) : w[5 + k] = V[k]
    BY ONLY <1>8, <2>1, <2>2
  <2> QED
    BY ONLY <2>3, <2>4, <2>5
<1>12. PICK p : p = [i \in 1..(n + 1) |-> 57 + (i - 1) * (n + 5)]
  OBVIOUS
<1>13. /\ p[1] = 57
       /\ \A i \in 1..(n + 1) : p[i] \in Nat
       /\ \A i \in 1..n : p[i + 1] = p[i] + n + 5
  <2>1. p[1] = 57
    <3>1. 1 \in 1..(n + 1) /\ 57 + (1 - 1) * (n + 5) = 57
      BY ONLY n \in Nat
    <3> QED
      BY ONLY <1>12, <3>1
  <2>2. ASSUME NEW i \in 1..(n + 1)
        PROVE  p[i] \in Nat
    <3>1. PICK k \in Nat, m \in Nat : k = i - 1 /\ m = n + 5
      BY ONLY n \in Nat, i \in 1..(n + 1)
    <3>2. 57 + k * m \in Nat
      BY ONLY k \in Nat, m \in Nat
    <3> QED
      BY ONLY <1>12, <3>1, <3>2, i \in 1..(n + 1)
  <2>3. ASSUME NEW i \in 1..n
        PROVE  p[i + 1] = p[i] + n + 5
    <3>1. PICK k \in Nat, m \in Nat : k = i - 1 /\ m = n + 5
      BY ONLY n \in Nat, i \in 1..n
    <3>2. 57 + (k + 1) * m = (57 + k * m) + m
      BY ONLY k \in Nat, m \in Nat
    <3>3. i \in 1..(n + 1) /\ i + 1 \in 1..(n + 1) /\ (i + 1) - 1 = k + 1
      BY ONLY <3>1, n \in Nat, i \in 1..n
    <3>4. p[i] = 57 + k * m /\ p[i + 1] = 57 + (k + 1) * m
      BY ONLY <1>12, <3>1, <3>3
    <3>5. p[i] \in Nat
      BY ONLY <2>2, <3>3
    <3> QED
      BY ONLY <3>1, <3>2, <3>4, <3>5, n \in Nat
  <2> QED
    BY ONLY <2>1, <2>2, <2>3
<1>14. PICK G, R : /\ G = <<At(0, 7), At(7, 16), At(23, 32), At(55, 1), At(56, 1)>>
                   /\ R = [i \in 1..n |-> <<At(p[i], 1), At(p[i] + 1, n),
                                            At(p[i] + 1 + n, 4)>>]
  OBVIOUS
<1>15. ASSUME NEW i \in 1..n
       PROVE  /\ R[i] \in Seq(Spots) /\ R[i][1] = At(p[i], 1) /\ W[i] = f
              /\ Runs(W[i], R[i], p[i], p[i + 1])
  <2>1. PICK x \in Nat : x = p[i]
    BY ONLY <1>13, n \in Nat, i \in 1..n
  <2>2. PICK z : z = p[i + 1]
    OBVIOUS
  <2>3. z = x + n + 5
    BY ONLY <1>13, <2>1, <2>2, i \in 1..n
  <2>4. PICK r : r = <<At(x, 1), At(x + 1, n), At(x + 1 + n, 4)>>
    OBVIOUS
  <2>5. R[i] = r /\ W[i] = f
    BY ONLY <1>5, <1>14, <2>1, <2>4, i \in 1..n
  <2>6. /\ r \in Seq(Spots) /\ Len(r) = 3 /\ r[1].pos = x /\ r[1].n = 1 /\ r[2].pos = x + 1
        /\ r[2].n = n /\ r[3].pos = x + 1 + n /\ r[3].n = 4
    BY ONLY <2>4, n \in Nat, x \in Nat, SMT DEF At, Spots
  <2>7. Runs(f, r, x, z)
    BY ONLY <1>7, <2>3, <2>6, n \in Nat, x \in Nat, SMT DEF Runs
  <2>8. R[i][1] = At(p[i], 1)
    BY ONLY <2>1, <2>4, <2>5
  <2> QED
    BY ONLY <2>1, <2>2, <2>5, <2>6, <2>7, <2>8
<1>16. R \in Seq(Seq(Spots)) /\ Len(R) = n
  <2>1. R \in [1..n -> Seq(Spots)]
    BY ONLY <1>14, <1>15
  <2> QED
    BY ONLY <2>1, n \in Nat
<1>17. /\ W \in Seq(Seq(Fields)) /\ R \in Seq(Seq(Spots)) /\ Len(R) = Len(W)
       /\ \A i \in 1..Len(W) : Runs(W[i], R[i], p[i], p[i + 1])
  BY ONLY <1>9, <1>15, <1>16
<1>18. PICK e : e = p[n + 1]
  OBVIOUS
<1>19. PICK q : q = G \o FlattenSeq(R)
  OBVIOUS
<1>20. Runs(w, q, 0, e)
  <2>1. Runs(FlattenSeq(W), FlattenSeq(R), p[1], p[Len(W) + 1])
    BY ONLY <1>17, RowsRun
  <2>2. Runs(FlattenSeq(W), FlattenSeq(R), 57, e)
    BY ONLY <1>9, <1>13, <1>18, <2>1
  <2>3. Runs(H, G, 0, 57)
    <3>1. /\ H \in Seq(Fields) /\ Len(H) = 5 /\ H[1].size = 7 /\ H[2].size = 16
          /\ H[3].size = 32 /\ H[4].size = 1 /\ H[5].size = 1
      BY ONLY <1>5, <1>8, SMT DEF Own, Holds
    <3>2. /\ G \in Seq(Spots) /\ Len(G) = 5 /\ G[1].pos = 0 /\ G[2].pos = 7
          /\ G[3].pos = 23 /\ G[4].pos = 55 /\ G[5].pos = 56
          /\ G[1].n = 7 /\ G[2].n = 16 /\ G[3].n = 32 /\ G[4].n = 1 /\ G[5].n = 1
      BY ONLY <1>14, SMT DEF At, Spots
    <3>3. \A i \in 1..5 : G[i].n = H[i].size
      BY ONLY <3>1, <3>2, SMT
    <3>4. ASSUME NEW i \in 2..5
          PROVE  G[i].pos = G[i - 1].pos + G[i - 1].n
      <4>1. (i = 2 /\ i - 1 = 1) \/ (i = 3 /\ i - 1 = 2) \/ (i = 4 /\ i - 1 = 3)
              \/ (i = 5 /\ i - 1 = 4)
        BY ONLY i \in 2..5, SMT
      <4>2. CASE i = 2 /\ i - 1 = 1
        BY ONLY <3>2, <4>2
      <4>3. CASE i = 3 /\ i - 1 = 2
        BY ONLY <3>2, <4>3
      <4>4. CASE i = 4 /\ i - 1 = 3
        BY ONLY <3>2, <4>4
      <4>5. CASE i = 5 /\ i - 1 = 4
        BY ONLY <3>2, <4>5
      <4> QED
        BY ONLY <4>1, <4>2, <4>3, <4>4, <4>5
    <3> QED
      BY ONLY <3>1, <3>2, <3>3, <3>4, SMT DEF Runs
  <2>4. Runs(H \o FlattenSeq(W), G \o FlattenSeq(R), 0, e)
    BY ONLY <2>2, <2>3, RunsJoin
  <2> QED
    BY ONLY <1>6, <1>19, <2>4
<1>21. Len(w) # 0 /\ 5 \in 1..Len(w) /\ Len(w) \in 1..Len(w)
  BY ONLY <1>11, V \in Seq(Fields)
<1>22. /\ Len(q) = Len(w) /\ q \in Seq(Spots)
       /\ \A i \in 1..Len(w) : q[i].n = w[i].size
       /\ q[1].pos = 0 /\ q[Len(w)].pos + q[Len(w)].n = e
       /\ \A i \in 2..Len(w) : q[i].pos = q[i - 1].pos + q[i - 1].n
  BY ONLY <1>20, <1>21 DEF Runs
<1>23. Consecutive(w, q)
  <2>1. DOMAIN q = 1..Len(w)
    BY ONLY <1>22
  <2> QED
    BY ONLY <1>22, <2>1 DEF Consecutive
<1>24. Located(w, q, b, base)
  <2>1. w \in Seq(Fields)
    BY ONLY <1>11
  <2> QED
    BY ONLY base \in Nat, <1>1, <1>23, <2>1, Finds
<1>25. Len(b) = e
  BY ONLY <1>21, <1>22, <1>24 DEF Located
<1>26. /\ G \in Seq(Spots) /\ Len(G) = 5 /\ q[5] = G[5]
       /\ \A k \in 1..Len(V) : q[5 + k] = FlattenSeq(R)[k]
  <2>1. G \in Seq(Spots) /\ Len(G) = 5
    BY ONLY <1>14, SMT DEF At, Spots
  <2>2. PICK C \in Seq(Spots) : C = FlattenSeq(R)
    BY ONLY <1>16, FlattenType
  <2>3. /\ G \o C \in Seq(Spots) /\ Len(G \o C) = Len(G) + Len(C)
        /\ \A k \in 1..Len(G) : (G \o C)[k] = G[k]
        /\ \A k \in 1..Len(C) : (G \o C)[Len(G) + k] = C[k]
    <3>1. G \in Seq(Spots)
      BY ONLY <2>1
    <3> QED
      BY ONLY <3>1, C \in Seq(Spots), Appended
  <2>4. Len(C) = Len(V)
    BY ONLY <1>11, <1>19, <1>22, <2>1, <2>2, <2>3, V \in Seq(Fields), C \in Seq(Spots)
  <2> QED
    BY ONLY <1>19, <2>1, <2>2, <2>3, <2>4
<1>27. U8(b, 56) = n
  <2>1. w[5] = Holds(1, n) /\ q[5] = At(56, 1)
    BY ONLY <1>5, <1>11, <1>14, <1>26
  <2>2. 56 = q[5].pos + 1 - 1 /\ 1 \in Nat \ {0}
    BY ONLY <2>1 DEF At
  <2> QED
    BY ONLY <1>21, <1>24, <2>1, <2>2, HeldAt
<1>28. ASSUME NEW i \in 1..n
       PROVE  U8(b, p[i]) = n
  <2>1. i \in 1..Len(W) /\ 1 \in 1..Len(W[i])
    BY ONLY <1>7, <1>9, <1>15, i \in 1..n, 1 \in 1..3
  <2>2. \E x \in 1..Len(FlattenSeq(W)) :
          FlattenSeq(W)[x] = W[i][1] /\ FlattenSeq(R)[x] = R[i][1]
    <3>1. \A k \in 1..Len(W) : \A j \in 1..Len(W[k]) :
            \E x \in 1..Len(FlattenSeq(W)) :
              FlattenSeq(W)[x] = W[k][j] /\ FlattenSeq(R)[x] = R[k][j]
      BY ONLY <1>17, RowPlaces
    <3> QED
      BY ONLY <2>1, <3>1
  <2>3. PICK x \in 1..Len(V) : V[x] = W[i][1] /\ FlattenSeq(R)[x] = R[i][1]
    BY ONLY <1>10, <2>2
  <2>4. PICK y : y = 5 + x
    OBVIOUS
  <2>5. y \in 1..Len(w)
    BY ONLY <1>11, <2>4, V \in Seq(Fields), x \in 1..Len(V)
  <2>6. w[y] = Holds(1, n)
    BY ONLY <1>7, <1>11, <1>15, <2>3, <2>4
  <2>7. q[y] = At(p[i], 1)
    BY ONLY <1>15, <1>26, <2>3, <2>4
  <2>8. p[i] = q[y].pos + 1 - 1 /\ 1 \in Nat \ {0}
    <3>1. p[i] \in Nat
      BY ONLY <1>13, n \in Nat, i \in 1..n
    <3> QED
      BY ONLY <2>7, <3>1 DEF At
  <2> QED
    BY ONLY <1>24, <2>5, <2>6, <2>8, HeldAt
<1>29. n <= 255
  <2>1. b \in Seq(Byte)
    BY ONLY b \in Seq(Byte)
  <2>2. CASE 56 < Len(b)
    <3>1. 57 \in 1..Len(b)
      BY ONLY <2>1, <2>2
    <3>2. b[57] \in Byte
      BY ONLY <2>1, <3>1
    <3>3. U8(b, 56) = b[57]
      BY ONLY <2>2 DEF U8
    <3> QED
      BY ONLY <1>27, <3>2, <3>3 DEF Byte
  <2>3. CASE ~(56 < Len(b))
    <3>1. U8(b, 56) = 0
      BY ONLY <2>3 DEF U8
    <3> QED
      BY ONLY <1>27, <3>1
  <2> QED
    BY ONLY <2>2, <2>3
<1>30. \A i \in 1..n : p[i + 1] = p[i] + n + 5 /\ U8(b, p[i]) = n
  BY ONLY <1>13, <1>28
<1>31. Attached(p, n, b)
  BY ONLY <1>13, <1>18, <1>25, <1>30 DEF Attached
<1>32. e \in Nat /\ 57 <= e
  <2>1. n + 1 \in 1..(n + 1)
    BY ONLY n \in Nat
  <2>2. e \in Nat
    BY ONLY <1>13, <1>18, <2>1
  <2>3. 57 + n * (n + 5) \in Nat /\ 57 + n * (n + 5) >= 57
    BY ONLY n \in Nat
  <2>4. e = 57 + n * (n + 5)
    <3>1. (n + 1) - 1 = n
      BY ONLY n \in Nat
    <3> QED
      BY ONLY <1>12, <1>18, <2>1, <3>1
  <2> QED
    BY ONLY <2>2, <2>3, <2>4
<1>33. \E s : Chained(s, b)
  BY ONLY n \in Nat, <1>31, ChainExists
<1>34. PICK s : Chained(s, b) /\ Followed(l.reads, s, b)
  <2>1. PICK m : m = 0
    OBVIOUS
  <2>2. \E s : Chained(s, b) /\ Followed(Cmd1210(m, b).reads, s, b)
    BY ONLY <1>33, Cmd1210Def
  <2> QED
    BY ONLY <1>3, <2>1, <2>2
<1>35. \A i \in 1..n : s[i] = p[i]
  <2>1. Chained(s, b)
    BY ONLY <1>34
  <2> QED
    BY ONLY n \in Nat, <1>29, <1>31, <2>1, ChainIs
<1>36. [i \in 1..U8(b, 56) |-> <<At(s[i], 1), At(s[i] + 1, U8(b, s[i])),
                                 At(s[i] + 1 + U8(b, s[i]), 4)>>] = R
  <2>1. \A i \in 1..n : s[i] = p[i] /\ U8(b, s[i]) = n
    BY ONLY <1>30, <1>35
  <2>2. \A i \in 1..n : <<At(s[i], 1), At(s[i] + 1, U8(b, s[i])),
                          At(s[i] + 1 + U8(b, s[i]), 4)>>
                        = <<At(p[i], 1), At(p[i] + 1, n), At(p[i] + 1 + n, 4)>>
    BY ONLY <2>1
  <2> QED
    BY ONLY <1>14, <1>27, <2>2
<1>37. l.reads = q
  BY ONLY <1>14, <1>19, <1>34, <1>36 DEF Followed
<1>38. l.least = 57
  BY ONLY <1>3, Zenon DEF Cmd1210, Layout
<1>40. Runs(w, l.reads, 0, e) /\ l.least \in Nat /\ l.least <= e
  <2>1. l.least \in Nat /\ l.least <= e
    BY ONLY <1>32, <1>38
  <2> QED
    BY ONLY <1>20, <1>37, <2>1
<1>41. e \in Nat /\ Len(w) # 0
  BY ONLY <1>21, <1>32
<1> QED
  BY ONLY base \in Nat, id \in Known, <1>1, <1>40, <1>41, RunBack

-----------------------------------------------------------------------------
(* Which commands are read as they were written.                            *)
LEMMA ReadOrNot ==
  ASSUME NEW m, m.id \in Known, m.n \in Nat, m.base \in Nat,
         Write(m.id, m.n, m.base) \in Seq(Byte)
  PROVE  Reads(m.id, m.n, m.base) <=> ~NotReadBack(m)
<1>1. PICK id \in Known, n \in Nat, base \in Nat : id = m.id /\ n = m.n /\ base = m.base
  BY ONLY m.id \in Known, m.n \in Nat, m.base \in Nat
<1>2. CASE id \in Plain
  <2>1. Reads(id, n, base) <=> ~Short(id, n)
    BY ONLY n \in Nat, base \in Nat, <1>2, PlainReads
  <2>2. Short(id, n) <=> NotReadBack(m)
    BY ONLY <1>1, <1>2, n \in Nat, SMT DEF Plain, Fixed, Sized, Ended, Short, NotReadBack
  <2> QED
    BY ONLY <1>1, <2>1, <2>2
<1>3. CASE id \in {\h0704, \h9201, \h9202, \h9205, \h9206}
  <2>1. ~Reads(id, n, base)
    <3>1. /\ ~Reads(\h0704, n, base) /\ ~Reads(\h9201, n, base) /\ ~Reads(\h9202, n, base)
          /\ ~Reads(\h9205, n, base) /\ ~Reads(\h9206, n, base)
      BY ONLY n \in Nat, base \in Nat, Unread0704, Unread9201, Unread9202, Unread9205,
              Unread9206, SMT
    <3> QED
      BY ONLY <1>3, <3>1, SMT
  <2>2. NotReadBack(m)
    BY ONLY <1>1, <1>3, SMT DEF NotReadBack
  <2> QED
    BY ONLY <1>1, <2>1, <2>2
<1>4. CASE id = \h1205
  <2>1. Reads(id, n, base) <=> n = 0
    BY ONLY n \in Nat, base \in Nat, <1>4, Read1205, SMT
  <2>2. NotReadBack(m) <=> n > 0
    BY ONLY <1>1, <1>4, SMT DEF NotReadBack
  <2> QED
    BY ONLY <1>1, <2>1, <2>2, n \in Nat
<1>5. CASE id = \h9212
  <2>1. Reads(id, n, base)
    BY ONLY n \in Nat, base \in Nat, <1>5, Read9212, SMT
  <2>2. ~NotReadBack(m)
    BY ONLY <1>1, <1>5, SMT DEF NotReadBack
  <2> QED
    BY ONLY <1>1, <2>1, <2>2
<1>6. CASE id = \h1210
  <2>1. PICK b \in Seq(Byte) : b = Write(id, n, base)
    BY ONLY <1>1, Write(m.id, m.n, m.base) \in Seq(Byte)
  <2>2. PICK w, l : w = Cmd(id, n, <<>>).writes /\ l = Cmd(id, 0, b)
    BY ONLY TRUE
  <2>3. w = Cmd1210(n, <<>>).writes /\ l = Cmd1210(0, b)
    BY ONLY <1>6, <2>2, SMT DEF Cmd
  <2>4. Reads(id, n, base)
    BY ONLY n \in Nat, base \in Nat, id \in Known, <2>1, <2>2, <2>3, Read1210
  <2>5. ~NotReadBack(m)
    BY ONLY <1>1, <1>6, SMT DEF NotReadBack
  <2> QED
    BY ONLY <1>1, <2>4, <2>5
<1>7. \/ id \in Plain \/ id \in {\h0704, \h9201, \h9202, \h9205, \h9206}
      \/ id = \h1205 \/ id = \h9212 \/ id = \h1210
  BY ONLY id \in Known, SMT DEF Known, Plain, Fixed, Sized, Ended
<1> QED
  BY ONLY <1>2, <1>3, <1>4, <1>5, <1>6, <1>7, SMT

LEMMA KnownStream ==
  ASSUME NEW ms \in Streams
  PROVE  \A i \in 1..Len(ms) : ms[i].id \in Known
<1>1. /\ Streams \subseteq Seq(Message)
      /\ \A s \in Streams : \A i \in DOMAIN s : s[i].id \in Known
  BY SMT, FramesAssumption
<1>2. ms \in Seq(Message)
  BY ONLY <1>1, ms \in Streams
<1>3. DOMAIN ms = 1..Len(ms)
  BY ONLY <1>2
<1> QED
  BY ONLY <1>1, <1>3, ms \in Streams

LEMMA InvReadBack ==
  ASSUME FramesInv
  PROVE  ReadBackAsWritten
<1>1. PICK due : due = Deliverable
  OBVIOUS
<1>2. PICK n \in Nat : n = Len(handled) /\ DOMAIN handled = 1..n
                        /\ \A k \in 1..n : HandledIs(due[k], handled[k])
  <2>1. Handling(due, handled)
    BY ONLY FramesInv, <1>1, HandledDue
  <2> QED
    BY ONLY <2>1 DEF Handling
<1>3. \A i \in 1..Len(stream) : stream[i].id \in Known
  <2>1. PICK W, at, G, g : Laying(W, at, G, g)
    BY ONLY FramesInv DEF FramesInv
  <2>2. stream \in Streams
    BY ONLY <2>1 DEF Laying
  <2> QED
    BY ONLY <2>2, KnownStream
<1>4. ASSUME NEW k \in 1..n, NEW m, m = due[k], NEW x, x = handled[k]
      PROVE  /\ x.header.phone = JTT808UtilsBCDToString(Phone)
             /\ x.header.serial = m.serial
             /\ x.cmd = [ok |-> TRUE, fields |-> FieldsOf(m.id, m.n, m.base)]
                  <=> ~NotReadBack(m)
  <2>1. HandledIs(m, x)
    BY ONLY <1>2, <1>4, k \in 1..n
  <2>2. /\ Good(m) /\ m.id \in Known /\ x = Parse(Got(m)) /\ Parsed(x.header, m)
        /\ x.header = ParseJTT808MsgHeader(Got(m).header)
    BY ONLY <1>3, <2>1 DEF HandledIs
  <2>3. x.header.id = m.id
    BY ONLY <2>2 DEF Parsed
  <2>4. Got(m).body = Write(m.id, m.n, m.base)
    <3>1. PICK b : b = Got(m).header
      OBVIOUS
    <3>2. Good(m)
      BY ONLY <2>2
    <3>3. Header(m, b) /\ Got(m).body = Write(m.id, m.n, m.base)
      BY ONLY <3>1, <3>2, GotHeader
    <3> QED
      BY ONLY <3>3
  <2>5. x.cmd = ParseCmd(m.id, Write(m.id, m.n, m.base))
    <3>1. PICK h : h = ParseJTT808MsgHeader(Got(m).header)
      OBVIOUS
    <3>2. x.cmd = ParseCmd(h.id, Got(m).body)
      BY ONLY <2>2, <3>1 DEF Parse
    <3>3. h.id = m.id
      BY ONLY <2>2, <2>3, <3>1
    <3> QED
      BY ONLY <2>4, <3>2, <3>3
  <2>6. /\ m.n \in Nat /\ m.base \in Nat /\ Write(m.id, m.n, m.base) \in Seq(Byte)
        /\ m.id \in Known
    <3>1. m \in Message /\ Body(m) \in Seq(Byte)
      BY ONLY <2>2 DEF Good
    <3>2. m.n \in Nat /\ m.base \in Nat
      BY ONLY <3>1 DEF Message
    <3> QED
      BY ONLY <2>2, <3>1, <3>2 DEF Body
  <2>7. Reads(m.id, m.n, m.base) <=> ~NotReadBack(m)
    BY ONLY <2>6, ReadOrNot
  <2>8. x.cmd = [ok |-> TRUE, fields |-> FieldsOf(m.id, m.n, m.base)] <=> ~NotReadBack(m)
    BY ONLY <2>5, <2>7, Zenon DEF Reads
  <2>9. x.header.phone = JTT808UtilsBCDToString(Phone) /\ x.header.serial = m.serial
    BY ONLY <2>2 DEF Parsed
  <2> QED
    BY ONLY <2>8, <2>9, Zenon
<1>5. ASSUME NEW k \in 1..n
      PROVE  /\ handled[k].header.phone = JTT808UtilsBCDToString(Phone)
             /\ handled[k].header.serial = due[k].serial
             /\ handled[k].cmd =
                  [ok |-> TRUE, fields |-> FieldsOf(due[k].id, due[k].n, due[k].base)]
                    <=> ~NotReadBack(due[k])
  BY ONLY <1>4, k \in 1..n, Zenon
<1>6. DOMAIN handled = 1..n
  BY ONLY <1>2
<1> QED
  BY ONLY <1>1, <1>5, <1>6, Zenon DEF ReadBackAsWritten

(* What cmdHandle sees of a command are the fields its sender put there,    *)
(* except where NotReadBack says that the reader and the writer of the      *)
(* library differ, and there they always differ; what it sees of the header *)
(* is the sender's phone number and serial number (cmd_*.go, Parse).        *)
THEOREM ReadBack == Spec => []ReadBackAsWritten
<1>1. FramesInv => ReadBackAsWritten
  BY InvReadBack
<1> QED
  BY <1>1, FramesInductive, PTL

=============================================================================
