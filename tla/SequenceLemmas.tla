--------------------------- MODULE SequenceLemmas ---------------------------
(***************************************************************************)
(* Lemmas about sequences and about functions defined by recursion, which  *)
(* the theorems about the two codecs rest on.                              *)
(*                                                                         *)
(* That a function meets its recursive definition, and what it computes,   *)
(* is proved from the least number principle: a set of naturals that is    *)
(* not empty has a least element (WFMin).                                  *)
(***************************************************************************)
EXTENDS Naturals, Sequences, FiniteSets, SequencesExt, WellFoundedInduction,
        SequenceTheorems, FiniteSetTheorems, TLAPS

(* Induction.                                                               *)
LEMMA LeastElement ==
  ASSUME NEW T, T \subseteq Nat, T # {}
  PROVE  \E x \in T : \A y \in T : x <= y
<1> DEFINE R == OpToRel(<, Nat)
<1>1. IsWellFoundedOn(R, Nat)
  BY NatLessThanWellFounded
<1>2. \A x, y \in Nat : y < x => <<y, x>> \in R
  BY DEF OpToRel
<1> HIDE DEF R
<1>3. PICK x \in T : \A y \in T : ~ (<<y, x>> \in R)
  BY <1>1, WFMin
<1>4. \A y \in T : ~(y < x)
  BY <1>2, <1>3
<1> QED
  BY <1>4

LEMMA SetInduction ==
  ASSUME NEW S, 0 \in S, \A n \in Nat : n \in S => n + 1 \in S
  PROVE  Nat \subseteq S
<1> SUFFICES ASSUME Nat \ S # {} PROVE FALSE
  OBVIOUS
<1>1. PICK x \in Nat \ S : \A y \in Nat \ S : x <= y
  BY LeastElement
<1>2. x # 0 /\ x - 1 \in Nat
  BY <1>1
<1>3. x - 1 \in S
  BY <1>1, <1>2
<1> QED
  BY <1>2, <1>3

Downward(N, stop, nxt, out, T) ==
  \A i \in 1..N : i \notin stop => nxt[i] \in (i + 1)..N /\ out[i] \in Seq(T)

Solves(f, N, stop, nxt, out) ==
  \A i \in 1..N : f[i] = IF i \in stop THEN <<>> ELSE out[i] \o f[nxt[i]]

(* A function whose values depend on its values at larger arguments exists. *)
LEMMA DownwardRecursion ==
  ASSUME NEW T, NEW N \in Nat, NEW stop, NEW nxt, NEW out,
         Downward(N, stop, nxt, out, T)
  PROVE  \E f \in [1..N -> Seq(T)] : Solves(f, N, stop, nxt, out)
<1> USE DEF Downward, Solves
<1> DEFINE Right(f, k) ==
      /\ f \in [(N - k + 1)..N -> Seq(T)]
      /\ \A i \in (N - k + 1)..N : f[i] = IF i \in stop THEN <<>> ELSE out[i] \o f[nxt[i]]
    S == {k \in Nat : k <= N => \E f : Right(f, k)}
<1>1. 0 \in S
  <2> DEFINE f == [i \in (N - 0 + 1)..N |-> <<>>]
  <2>1. (N - 0 + 1)..N = {}
    OBVIOUS
  <2>2. Right(f, 0)
    BY <2>1
  <2> HIDE DEF Right
  <2> QED
    BY <2>2
<1>2. ASSUME NEW k \in Nat, k \in S
      PROVE  k + 1 \in S
  <2> HIDE DEF Right
  <2> SUFFICES ASSUME k + 1 <= N
               PROVE  \E f : Right(f, k + 1)
    OBVIOUS
  <2>1. PICK f : Right(f, k)
    BY <1>2
  <2> USE DEF Right
  <2> DEFINE a == N - k
             v == IF a \in stop THEN <<>> ELSE out[a] \o f[nxt[a]]
             g == [i \in a..N |-> IF i = a THEN v ELSE f[i]]
  <2>2. a \in 1..N /\ a = N - (k + 1) + 1 /\ a + 1 = N - k + 1
    OBVIOUS
  <2>3. v \in Seq(T)
    BY <2>1, <2>2
  <2>4. g \in [a..N -> Seq(T)]
    BY <2>1, <2>2, <2>3
  <2>5. ASSUME NEW i \in a..N
        PROVE  g[i] = IF i \in stop THEN <<>> ELSE out[i] \o g[nxt[i]]
    <3>1. i \in 1..N
      BY <2>2
    <3>2. i \notin stop => nxt[i] \in (i + 1)..N /\ nxt[i] \in a..N /\ nxt[i] # a
      BY <2>2, <3>1
    <3>3. i \notin stop => g[nxt[i]] = f[nxt[i]]
      BY <3>2
    <3>4. i # a => i \in (N - k + 1)..N
      BY <2>2
    <3> QED
      BY <2>1, <3>3, <3>4
  <2> QED
    BY <2>2, <2>4, <2>5
<1>3. N \in S
  <2> HIDE DEF S
  <2> QED
    BY <1>1, <1>2, SetInduction
<1> QED
  BY <1>3

(* The values of such a function are sequences.                             *)
LEMMA DownwardType ==
  ASSUME NEW T, NEW N \in Nat, NEW stop, NEW nxt, NEW out, NEW f,
         Downward(N, stop, nxt, out, T), Solves(f, N, stop, nxt, out)
  PROVE  \A i \in 1..N : f[i] \in Seq(T)
<1> DEFINE S == {k \in Nat : \A i \in 1..N : i > N - k => f[i] \in Seq(T)}
<1>1. 0 \in S
  OBVIOUS
<1>2. ASSUME NEW k \in Nat, k \in S
      PROVE  k + 1 \in S
  <2> SUFFICES ASSUME NEW i \in 1..N, i > N - (k + 1)
               PROVE  f[i] \in Seq(T)
    OBVIOUS
  <2>1. CASE i \in stop
    <3>1. f[i] = <<>>
      BY <2>1 DEF Solves
    <3> QED
      BY <3>1
  <2>2. CASE i \notin stop
    <3>1. nxt[i] \in 1..N /\ nxt[i] > N - k /\ out[i] \in Seq(T)
      BY <2>2 DEF Downward
    <3>2. f[nxt[i]] \in Seq(T)
      BY <1>2, <3>1
    <3>3. f[i] = out[i] \o f[nxt[i]]
      BY <2>2 DEF Solves
    <3> QED
      BY <3>1, <3>2, <3>3
  <2> QED
    BY <2>1, <2>2
<1>3. N \in S
  <2> HIDE DEF S
  <2> QED
    BY <1>1, <1>2, SetInduction
<1> QED
  BY <1>3

(* The same of a function whose value is that at one larger argument.       *)
Jumps(f, N, stop, nxt, out) ==
  f = [i \in 1..N |-> IF i \in stop THEN out[i] ELSE f[nxt[i]]]

LEMMA JumpRecursion ==
  ASSUME NEW N \in Nat, NEW stop, NEW nxt, NEW out,
         \A i \in 1..N : i \notin stop => nxt[i] \in (i + 1)..N
  PROVE  \E f : Jumps(f, N, stop, nxt, out)
<1> DEFINE Body(f, i) == IF i \in stop THEN out[i] ELSE f[nxt[i]]
           Right(f, k) == f = [i \in (N - k + 1)..N |-> Body(f, i)]
           S == {k \in Nat : k <= N => \E f : Right(f, k)}
<1>1. 0 \in S
  <2> DEFINE f == [i \in (N - 0 + 1)..N |-> <<>>]
  <2>1. (N - 0 + 1)..N = {}
    OBVIOUS
  <2>2. Right(f, 0)
    BY <2>1
  <2> HIDE DEF Right
  <2> QED
    BY <2>2
<1>2. ASSUME NEW k \in Nat, k \in S
      PROVE  k + 1 \in S
  <2> HIDE DEF Right
  <2> SUFFICES ASSUME k + 1 <= N
               PROVE  \E f : Right(f, k + 1)
    OBVIOUS
  <2>1. PICK f : Right(f, k)
    BY <1>2
  <2> DEFINE a == N - k
             g == [i \in a..N |-> IF i = a THEN Body(f, a) ELSE f[i]]
  <2>2. a \in 1..N /\ a = N - (k + 1) + 1 /\ a + 1 = N - k + 1
    OBVIOUS
  <2>3. ASSUME NEW i \in a..N
        PROVE  g[i] = Body(g, i)
    <3>1. i \in 1..N
      BY <2>2
    <3>2. i \notin stop => nxt[i] \in (i + 1)..N /\ nxt[i] \in a..N /\ nxt[i] # a
      BY <2>2, <3>1
    <3>3. i \notin stop => g[nxt[i]] = f[nxt[i]]
      BY <3>2
    <3>4. Body(g, i) = Body(f, i)
      BY <3>3
    <3>5. i # a => i \in (N - k + 1)..N
      BY <2>2
    <3>6. i # a => f[i] = Body(f, i)
      <4> HIDE DEF Body
      <4> QED
        BY <2>1, <3>5 DEF Right
    <3>7. g[i] = IF i = a THEN Body(f, a) ELSE f[i]
      OBVIOUS
    <3> HIDE DEF Body, g
    <3> QED
      BY <3>4, <3>6, <3>7
  <2>4. g = [i \in a..N |-> g[i]]
    OBVIOUS
  <2>5. g = [i \in a..N |-> Body(g, i)]
    <3> HIDE DEF g, Body
    <3> QED
      BY <2>3, <2>4
  <2>6. Right(g, k + 1)
    <3> HIDE DEF g, Body
    <3> QED
      BY <2>2, <2>5 DEF Right
  <2> QED
    BY <2>6
<1>3. N \in S
  <2> HIDE DEF S
  <2> QED
    BY <1>1, <1>2, SetInduction
<1>4. PICK f : Right(f, N)
  <2> HIDE DEF Right
  <2> QED
    BY <1>3
<1>5. N - N + 1 = 1
  OBVIOUS
<1>6. Jumps(f, N, stop, nxt, out)
  BY <1>4, <1>5 DEF Jumps
<1> QED
  BY <1>6

-----------------------------------------------------------------------------
(* Positions in a sequence.                                                 *)

LEMMA Cut ==
  ASSUME NEW T, NEW s \in Seq(T), NEW a \in 1..(Len(s) + 1), NEW b \in (a - 1)..Len(s)
  PROVE  /\ SubSeq(s, a, b) \in Seq(T) /\ Len(SubSeq(s, a, b)) = b - a + 1
         /\ \A i \in 1..(b - a + 1) : SubSeq(s, a, b)[i] = s[a + i - 1]
<1>1. Len(s) \in Nat /\ a \in Nat /\ b \in Nat /\ a > 0 /\ b <= Len(s)
  OBVIOUS
<1>2. \A i \in a..b : s[i] \in T
  OBVIOUS
<1> QED
  BY <1>1, <1>2, SubSeqProperties

LEMMA Slice ==
  ASSUME NEW T, NEW s \in Seq(T), NEW a \in Nat, NEW n \in Nat, a + n <= Len(s)
  PROVE  /\ SubSeq(s, a + 1, a + n) \in Seq(T) /\ Len(SubSeq(s, a + 1, a + n)) = n
         /\ \A i \in 1..n : SubSeq(s, a + 1, a + n)[i] = s[a + i]
<1> DEFINE c == SubSeq(s, a + 1, a + n)
<1>1. a + 1 \in 1..(Len(s) + 1) /\ a + n \in (a + 1 - 1)..Len(s)
  OBVIOUS
<1>2. /\ c \in Seq(T) /\ Len(c) = a + n - (a + 1) + 1
      /\ \A i \in 1..(a + n - (a + 1) + 1) : c[i] = s[a + 1 + i - 1]
  BY <1>1, Cut
<1>3. a + n - (a + 1) + 1 = n /\ \A i \in 1..n : a + 1 + i - 1 = a + i
  OBVIOUS
<1> HIDE DEF c
<1>4. c \in Seq(T) /\ Len(c) = n /\ \A i \in 1..n : c[i] = s[a + i]
  BY <1>2, <1>3
<1> QED
  BY <1>4 DEF c

LEMMA Dropped ==
  ASSUME NEW T, NEW s \in Seq(T), NEW p \in 0..Len(s)
  PROVE  LET d == SubSeq(s, p + 1, Len(s))
         IN  /\ d \in Seq(T) /\ Len(d) = Len(s) - p
             /\ \A i \in 1..Len(d) : d[i] = s[p + i]
             /\ \A a \in 1..(Len(d) + 1) : SubSeq(d, a, Len(d)) = SubSeq(s, p + a, Len(s))
<1> DEFINE d == SubSeq(s, p + 1, Len(s))
<1>1. d \in Seq(T) /\ Len(d) = Len(s) - p /\ \A i \in 1..Len(d) : d[i] = s[p + i]
  <2>1. PICK n \in Nat : n = Len(s) - p
    OBVIOUS
  <2>2. p \in Nat /\ p + n = Len(s)
    BY <2>1
  <2>3. /\ SubSeq(s, p + 1, p + n) \in Seq(T) /\ Len(SubSeq(s, p + 1, p + n)) = n
        /\ \A i \in 1..n : SubSeq(s, p + 1, p + n)[i] = s[p + i]
    BY ONLY s \in Seq(T), n \in Nat, <2>2, Slice
  <2> QED
    BY <2>1, <2>2, <2>3
<1>2. ASSUME NEW a \in 1..(Len(d) + 1)
      PROVE  SubSeq(d, a, Len(d)) = SubSeq(s, p + a, Len(s))
  <2> DEFINE u == SubSeq(d, a, Len(d))
             v == SubSeq(s, p + a, Len(s))
             n == Len(s) - p - a + 1
  <2>1. Len(s) \in Nat /\ n \in Nat /\ Len(d) - a + 1 = n
    BY <1>1
  <2>2. u \in Seq(T) /\ Len(u) = n /\ \A i \in 1..n : u[i] = d[a + i - 1]
    <3> HIDE DEF d
    <3>1. Len(d) \in (a - 1)..Len(d)
      BY <1>1
    <3> QED
      BY <1>1, <2>1, <3>1, Cut
  <2>3. v \in Seq(T) /\ Len(v) = n /\ \A i \in 1..n : v[i] = s[p + a + i - 1]
    <3>1. p + a \in 1..(Len(s) + 1) /\ Len(s) \in (p + a - 1)..Len(s)
      BY <1>1, <2>1
    <3>2. /\ Len(v) = Len(s) - (p + a) + 1
          /\ \A i \in 1..(Len(s) - (p + a) + 1) : v[i] = s[(p + a) + i - 1]
          /\ v \in Seq(T)
      BY <3>1, Cut, SMTT(20)
    <3>3. Len(s) - (p + a) + 1 = n
      OBVIOUS
    <3> HIDE DEF v, n
    <3> QED
      BY <3>2, <3>3
  <2>4. ASSUME NEW i \in 1..n
        PROVE  u[i] = v[i]
    <3>1. a + i - 1 \in 1..Len(d) /\ p + (a + i - 1) = p + a + i - 1
      BY <1>1
    <3> HIDE DEF d, u, v, n
    <3> QED
      BY <1>1, <2>2, <2>3, <3>1, ZenonT(30)
  <2> HIDE DEF u, v, n
  <2>5. u = v
    BY <2>2, <2>3, <2>4, SeqEqual
  <2> QED
    BY <2>5 DEF u, v
<1> QED
  BY <1>1, <1>2

LEMMA Joined ==
  ASSUME NEW T, NEW s \in Seq(T), NEW t \in Seq(T), NEW p \in 0..Len(s)
  PROVE  SubSeq(s \o t, p + 1, Len(s \o t)) = SubSeq(s, p + 1, Len(s)) \o t
<1> DEFINE w == s \o t
           r == SubSeq(s, p + 1, Len(s))
           u == SubSeq(w, p + 1, Len(w))
           v == r \o t
           n == Len(s) + Len(t) - p
<1>1. /\ w \in Seq(T) /\ Len(w) = Len(s) + Len(t)
      /\ \A i \in 1..Len(w) : w[i] = IF i <= Len(s) THEN s[i] ELSE t[i - Len(s)]
  BY ConcatProperties
<1>2. r \in Seq(T) /\ Len(r) = Len(s) - p /\ \A i \in 1..Len(r) : r[i] = s[p + i]
  BY ONLY s \in Seq(T), p \in 0..Len(s), Dropped
<1>3. u \in Seq(T) /\ Len(u) = n /\ \A i \in 1..n : u[i] = w[p + i]
  <2> HIDE DEF w
  <2>1. p \in 0..Len(w) /\ Len(w) - p = n
    BY <1>1
  <2> QED
    BY <1>1, <2>1, Dropped
<1>4. v \in Seq(T) /\ Len(v) = n
      /\ \A i \in 1..n : v[i] = IF i <= Len(r) THEN r[i] ELSE t[i - Len(r)]
  <2> HIDE DEF r
  <2>1. Len(r) + Len(t) = n
    BY <1>2
  <2>2. /\ v \in Seq(T) /\ Len(v) = Len(r) + Len(t)
        /\ \A i \in 1..(Len(r) + Len(t)) : v[i] = IF i <= Len(r) THEN r[i] ELSE t[i - Len(r)]
    <3>1. r \in Seq(T) /\ t \in Seq(T)
      BY <1>2
    <3> QED
      BY <3>1, ConcatProperties
  <2> HIDE DEF v, n
  <2> QED
    BY <2>1, <2>2
<1>5. ASSUME NEW i \in 1..n
      PROVE  u[i] = v[i]
  <2>1. p + i \in 1..(Len(s) + Len(t)) /\ (p + i <= Len(s) <=> i <= Len(s) - p)
        /\ p + i - Len(s) = i - (Len(s) - p) /\ (i <= Len(s) - p => i \in 1..(Len(s) - p))
    OBVIOUS
  <2> HIDE DEF w, r, u, v, n
  <2>2. u[i] = w[p + i] /\ v[i] = IF i <= Len(r) THEN r[i] ELSE t[i - Len(r)]
    BY <1>3, <1>4
  <2>3. w[p + i] = IF p + i <= Len(s) THEN s[p + i] ELSE t[p + i - Len(s)]
    BY <1>1, <2>1
  <2>4. i <= Len(s) - p => r[i] = s[p + i]
    BY <1>2, <2>1
  <2>5. Len(r) = Len(s) - p
    BY <1>2
  <2>6. CASE i <= Len(s) - p
    BY <2>1, <2>2, <2>3, <2>4, <2>5, <2>6
  <2>7. CASE ~(i <= Len(s) - p)
    BY <2>1, <2>2, <2>3, <2>5, <2>7
  <2> QED
    BY <2>6, <2>7
<1> HIDE DEF u, v, n
<1>6. u = v
  BY <1>3, <1>4, <1>5, SeqEqual
<1> QED
  BY <1>6 DEF u, v

LEMMA Prefix ==
  ASSUME NEW T, NEW s \in Seq(T), NEW n \in 0..Len(s)
  PROVE  /\ SubSeq(s, 1, n) \in Seq(T) /\ Len(SubSeq(s, 1, n)) = n
         /\ \A i \in 1..n : SubSeq(s, 1, n)[i] = s[i]
         /\ \A i \in 1..n : \A a \in 1..i : SubSeq(SubSeq(s, 1, n), a, i) = SubSeq(s, a, i)
<1> DEFINE r == SubSeq(s, 1, n)
<1>1. r \in Seq(T) /\ Len(r) = n /\ \A i \in 1..n : r[i] = s[i]
  OBVIOUS
<1>2. ASSUME NEW i \in 1..n, NEW a \in 1..i
      PROVE  SubSeq(r, a, i) = SubSeq(s, a, i)
  <2> DEFINE u == SubSeq(r, a, i)
             v == SubSeq(s, a, i)
  <2>1. /\ a \in 1..(Len(s) + 1) /\ i \in (a - 1)..Len(s)
        /\ a \in 1..(n + 1) /\ i \in (a - 1)..n
        /\ \A j \in 1..(i - a + 1) : a + j - 1 \in 1..n
    OBVIOUS
  <2>2. v \in Seq(T) /\ Len(v) = i - a + 1 /\ \A j \in 1..(i - a + 1) : v[j] = s[a + j - 1]
    BY <2>1, Cut
  <2>3. u \in Seq(T) /\ Len(u) = i - a + 1 /\ \A j \in 1..(i - a + 1) : u[j] = r[a + j - 1]
    <3> HIDE DEF r
    <3> QED
      BY <1>1, <2>1, Cut
  <2>4. \A j \in 1..(i - a + 1) : u[j] = v[j]
    <3> HIDE DEF r, u, v
    <3> QED
      BY <1>1, <2>1, <2>2, <2>3, ZenonT(30)
  <2> HIDE DEF u, v
  <2>5. u = v
    BY <2>2, <2>3, <2>4, SeqEqual
  <2> QED
    BY <2>5 DEF u, v
<1> QED
  BY <1>1, <1>2

LEMMA Appended ==
  ASSUME NEW T, NEW s \in Seq(T), NEW t \in Seq(T)
  PROVE  /\ s \o t \in Seq(T) /\ Len(s \o t) = Len(s) + Len(t)
         /\ \A k \in 1..Len(s) : (s \o t)[k] = s[k]
         /\ \A k \in 1..Len(t) : (s \o t)[Len(s) + k] = t[k]
OBVIOUS

LEMMA AppendedBytes ==
  ASSUME NEW s \in Seq(Nat), NEW t \in Seq(Nat), NEW u, u = s \o t
  PROVE  /\ u \in Seq(Nat) /\ Len(u) = Len(s) + Len(t)
         /\ \A k \in 1..Len(s) : u[k] = s[k]
         /\ \A k \in 1..Len(t) : u[Len(s) + k] = t[k]
OBVIOUS

LEMMA Grouped ==
  ASSUME NEW s \in Seq(Nat), NEW t \in Seq(Nat), NEW u \in Seq(Nat)
  PROVE  (s \o t) \o u = s \o (t \o u)
<1> DEFINE l == (s \o t) \o u
           r == s \o (t \o u)
<1>1. /\ s \o t \in Seq(Nat) /\ Len(s \o t) = Len(s) + Len(t)
      /\ t \o u \in Seq(Nat) /\ Len(t \o u) = Len(t) + Len(u)
  OBVIOUS
<1>2. /\ l \in Seq(Nat) /\ Len(l) = Len(s) + Len(t) + Len(u)
      /\ r \in Seq(Nat) /\ Len(r) = Len(s) + Len(t) + Len(u)
  BY <1>1
<1>3. \A i \in 1..(Len(s) + Len(t) + Len(u)) : l[i] = r[i]
  BY <1>1
<1> HIDE DEF l, r
<1>4. l = r
  BY <1>2, <1>3, SeqEqual
<1> QED
  BY <1>4 DEF l, r

LEMMA FromThere ==
  ASSUME NEW S, NEW s \in Seq(S), NEW i \in 1..Len(s)
  PROVE  <<s[i]>> \o SubSeq(s, i + 1, Len(s)) = SubSeq(s, i, Len(s))
<1> DEFINE one == <<s[i]>>
           l == one \o SubSeq(s, i + 1, Len(s))
           r == SubSeq(s, i, Len(s))
<1>1. /\ r \in Seq(S) /\ Len(r) = Len(s) - i + 1
      /\ \A k \in 1..(Len(s) - i + 1) : r[k] = s[i + k - 1]
  OBVIOUS
<1>2. /\ l \in Seq(S) /\ Len(l) = Len(s) - i + 1
      /\ \A k \in 1..(Len(s) - i + 1) : l[k] = s[i + k - 1]
  OBVIOUS
<1> HIDE DEF l, r
<1>3. Len(l) = Len(r) /\ \A k \in 1..Len(l) : l[k] = r[k]
  BY <1>1, <1>2
<1>4. l = r
  BY ONLY <1>1, <1>2, <1>3, SeqEqual
<1> QED
  BY <1>4 DEF l, r

LEMMA Single ==
  ASSUME NEW T, NEW s \in Seq(T), NEW i \in 1..Len(s)
  PROVE  SubSeq(s, i, i) = <<s[i]>>
<1>1. PICK d : d = SubSeq(s, i, i)
  OBVIOUS
<1>2. PICK e : e = <<s[i]>>
  OBVIOUS
<1>3. d \in Seq(T) /\ Len(d) = 1 /\ d[1] = s[i]
  BY <1>1
<1>4. e \in Seq(T) /\ Len(e) = 1 /\ e[1] = s[i]
  BY <1>2
<1>5. Len(d) = Len(e) /\ \A k \in 1..Len(d) : d[k] = e[k]
  BY ONLY <1>3, <1>4
<1>6. d = e
  BY ONLY <1>3, <1>4, <1>5, SeqEqual
<1> QED
  BY <1>1, <1>2, <1>6

-----------------------------------------------------------------------------
(* FlattenSeq.                                                              *)

(* What FlattenSeq computes: one sequence is put behind the others after    *)
(* the other.                                                               *)
LEMMA FlattenDef ==
  ASSUME NEW seqs, Len(seqs) \in Nat, Len(seqs) # 0,
         \E f : f = [i \in 1..Len(seqs) |-> IF i = 1 THEN seqs[i] ELSE f[i-1] \o seqs[i]]
  PROVE  \E f : /\ f = [i \in 1..Len(seqs) |-> IF i = 1 THEN seqs[i] ELSE f[i-1] \o seqs[i]]
                /\ FlattenSeq(seqs) = f[Len(seqs)]
BY Zenon DEF FlattenSeq

Sums(f, ss, n) ==
  f[0] = <<>> /\ \A i \in 1..n : f[i] = f[i - 1] \o ss[i]

IsFlat(f, ss, T) ==
  f \in [0..Len(ss) -> Seq(T)] /\ Sums(f, ss, Len(ss))

LEMMA FlatExists ==
  ASSUME NEW T, NEW ss \in Seq(Seq(T))
  PROVE  \E f : IsFlat(f, ss, T)
<1> DEFINE N == Len(ss)
    Right(f, k) ==
      /\ f \in [0..k -> Seq(T)] /\ f[0] = <<>>
      /\ \A i \in 1..k : f[i] = f[i - 1] \o ss[i]
    S == {k \in Nat : k <= N => \E f : Right(f, k)}
<1>1. 0 \in S
  <2> DEFINE f == [i \in 0..0 |-> <<>>]
  <2>1. Right(f, 0)
    OBVIOUS
  <2> QED
    BY <2>1
<1>2. ASSUME NEW k \in Nat, k \in S
      PROVE  k + 1 \in S
  <2> HIDE DEF Right
  <2> SUFFICES ASSUME k + 1 <= N
               PROVE  \E f : Right(f, k + 1)
    OBVIOUS
  <2>1. PICK f : Right(f, k)
    BY <1>2
  <2> USE DEF Right
  <2> DEFINE v == f[k] \o ss[k + 1]
             g == [i \in 0..(k + 1) |-> IF i = k + 1 THEN v ELSE f[i]]
  <2>2. k + 1 \in 1..N
    OBVIOUS
  <2>3. v \in Seq(T)
    BY <2>1, <2>2
  <2>4. g \in [0..(k + 1) -> Seq(T)] /\ g[0] = <<>>
    BY <2>1, <2>3
  <2>5. ASSUME NEW i \in 1..(k + 1)
        PROVE  g[i] = g[i - 1] \o ss[i]
    <3>1. i - 1 \in 0..k /\ i - 1 \in 0..(k + 1) /\ i \in 0..(k + 1) /\ (i # k + 1 => i \in 1..k)
      OBVIOUS
    <3>2. g[i - 1] = f[i - 1] /\ g[i] = IF i = k + 1 THEN v ELSE f[i]
      BY <3>1
    <3>3. i = k + 1 => i - 1 = k
      OBVIOUS
    <3> QED
      BY <2>1, <3>1, <3>2, <3>3
  <2> QED
    BY <2>4, <2>5
<1>3. N \in S
  <2>1. N \in Nat
    OBVIOUS
  <2> HIDE DEF S
  <2> QED
    BY <1>1, <1>2, <2>1, SetInduction
<1>4. PICK f : Right(f, N)
  <2> HIDE DEF Right
  <2> QED
    BY <1>3
<1>5. IsFlat(f, ss, T)
  BY <1>4 DEF IsFlat, Sums
<1> HIDE DEF Right
<1> QED
  BY <1>5

LEMMA FlatUnique ==
  ASSUME NEW ss, NEW n \in Nat, NEW f, NEW g, Sums(f, ss, n), Sums(g, ss, n)
  PROVE  f[n] = g[n]
<1> USE DEF Sums
<1> DEFINE S == {k \in Nat : k <= n => f[k] = g[k]}
<1>1. 0 \in S
  OBVIOUS
<1>2. ASSUME NEW k \in Nat, k \in S
      PROVE  k + 1 \in S
  <2> SUFFICES ASSUME k + 1 \in 1..n
               PROVE  f[k + 1] = g[k + 1]
    OBVIOUS
  <2>1. f[k] = g[k] /\ (k + 1) - 1 = k
    BY <1>2
  <2> QED
    BY <2>1
<1>3. n \in S
  <2> HIDE DEF S
  <2> QED
    BY <1>1, <1>2, SetInduction
<1> QED
  BY <1>3

LEMMA FlattenIs ==
  ASSUME NEW T, NEW ss \in Seq(Seq(T)), NEW f, IsFlat(f, ss, T)
  PROVE  FlattenSeq(ss) = f[Len(ss)]
<1>1. CASE Len(ss) = 0
  BY <1>1 DEF FlattenSeq, IsFlat, Sums
<1>2. CASE Len(ss) # 0
  <2> DEFINE N == Len(ss)
             e == [i \in 1..N |-> f[i]]
  <2>1. N \in Nat
    OBVIOUS
  <2>2. e = [i \in 1..N |-> IF i = 1 THEN ss[i] ELSE e[i-1] \o ss[i]]
    <3> SUFFICES ASSUME NEW i \in 1..N
                 PROVE  f[i] = IF i = 1 THEN ss[i] ELSE e[i-1] \o ss[i]
      OBVIOUS
    <3>1. f[i] = f[i - 1] \o ss[i] /\ ss[i] \in Seq(T)
      BY DEF IsFlat, Sums
    <3>2. i = 1 => f[i - 1] = <<>>
      BY DEF IsFlat, Sums
    <3>3. i # 1 => e[i - 1] = f[i - 1]
      BY <2>1
    <3>4. <<>> \o ss[i] = ss[i]
      BY <3>1
    <3> QED
      BY <3>1, <3>2, <3>3, <3>4, Zenon
  <2> HIDE DEF e
  <2>3. \E h : h = [i \in 1..N |-> IF i = 1 THEN ss[i] ELSE h[i-1] \o ss[i]]
    BY <2>2, Zenon
  <2>4. PICK h : /\ h = [i \in 1..N |-> IF i = 1 THEN ss[i] ELSE h[i-1] \o ss[i]]
                 /\ FlattenSeq(ss) = h[N]
    BY <1>2, <2>1, <2>3, FlattenDef, Zenon
  <2> DEFINE g == [i \in 0..N |-> IF i = 0 THEN <<>> ELSE h[i]]
  <2>5. ASSUME NEW i \in 1..N
        PROVE  g[i] = g[i - 1] \o ss[i]
    <3>1. h[i] = IF i = 1 THEN ss[i] ELSE h[i-1] \o ss[i]
      BY <2>4
    <3>2. ss[i] \in Seq(T) /\ g[i] = h[i] /\ g[i - 1] = IF i = 1 THEN <<>> ELSE h[i - 1]
      BY <2>1
    <3>3. <<>> \o ss[i] = ss[i]
      BY <3>2
    <3> QED
      BY <3>1, <3>2, <3>3
  <2>6. g[0] = <<>>
    BY <2>1
  <2>7. g[N] = f[N]
    <3>1. Sums(f, ss, N)
      BY DEF IsFlat
    <3>2. Sums(g, ss, N)
      BY <2>5, <2>6 DEF Sums
    <3> HIDE DEF g, N
    <3> QED
      BY <2>1, <3>1, <3>2, FlatUnique
  <2>8. g[N] = h[N]
    BY <1>2, <2>1 DEF g
  <2> QED
    BY <2>4, <2>7, <2>8
<1> QED
  BY <1>1, <1>2

LEMMA FlattenType ==
  ASSUME NEW T, NEW ss \in Seq(Seq(T))
  PROVE  FlattenSeq(ss) \in Seq(T)
<1>1. PICK f : IsFlat(f, ss, T)
  BY FlatExists
<1>2. FlattenSeq(ss) = f[Len(ss)]
  BY <1>1, FlattenIs
<1> QED
  BY <1>1, <1>2 DEF IsFlat

LEMMA FlattenStep ==
  ASSUME NEW T, NEW ss \in Seq(Seq(T)), NEW i \in 1..Len(ss)
  PROVE  FlattenSeq(SubSeq(ss, 1, i)) = FlattenSeq(SubSeq(ss, 1, i - 1)) \o ss[i]
<1>1. PICK f : IsFlat(f, ss, T)
  BY FlatExists
<1>2. ASSUME NEW n \in 0..Len(ss)
      PROVE  FlattenSeq(SubSeq(ss, 1, n)) = f[n]
  <2> DEFINE rr == SubSeq(ss, 1, n)
             g == [j \in 0..n |-> f[j]]
  <2>1. rr \in Seq(Seq(T)) /\ Len(rr) = n /\ \A j \in 1..n : rr[j] = ss[j]
    OBVIOUS
  <2>2. IsFlat(g, rr, T)
    <3> HIDE DEF rr
    <3>1. g \in [0..n -> Seq(T)] /\ g[0] = <<>>
      BY <1>1 DEF IsFlat, Sums
    <3>2. ASSUME NEW j \in 1..n
          PROVE  g[j] = g[j - 1] \o rr[j]
      <4>1. j \in 1..Len(ss) /\ j - 1 \in 0..n /\ j \in 0..n
        OBVIOUS
      <4> QED
        BY <1>1, <2>1, <4>1 DEF IsFlat, Sums
    <3> QED
      BY <2>1, <3>1, <3>2 DEF IsFlat, Sums
  <2>3. FlattenSeq(rr) = g[n]
    <3> HIDE DEF rr, g
    <3> QED
      BY <2>1, <2>2, FlattenIs
  <2> QED
    BY <2>3
<1>3. i \in 0..Len(ss) /\ i - 1 \in 0..Len(ss)
  OBVIOUS
<1>4. f[i] = f[i - 1] \o ss[i]
  BY <1>1 DEF IsFlat, Sums
<1> QED
  BY <1>2, <1>3, <1>4

LEMMA FlattenEmpty == FlattenSeq(<<>>) = <<>>
BY DEF FlattenSeq

(* Where the parts of a flattened sequence are found in it.                 *)
Places(at, ss, whole) ==
  /\ at \in [0..Len(ss) -> 0..Len(whole)] /\ at[0] = 0 /\ at[Len(ss)] = Len(whole)
  /\ \A i \in 0..Len(ss) : at[i] = Len(FlattenSeq(SubSeq(ss, 1, i)))
  /\ \A i \in 1..Len(ss) :
       /\ at[i] = at[i - 1] + Len(ss[i])
       /\ \A k \in 1..Len(ss[i]) : whole[at[i - 1] + k] = ss[i][k]

LEMMA FlattenPlaces ==
  ASSUME NEW T, NEW ss \in Seq(Seq(T))
  PROVE  \E at : Places(at, ss, FlattenSeq(ss))
<1> DEFINE N == Len(ss)
           flat(i) == FlattenSeq(SubSeq(ss, 1, i))
           W == FlattenSeq(ss)
<1>1. N \in Nat /\ \A i \in 1..N : ss[i] \in Seq(T)
  OBVIOUS
<1>2. \A i \in 0..N : flat(i) \in Seq(T)
  <2>1. \A i \in 0..N : SubSeq(ss, 1, i) \in Seq(Seq(T))
    OBVIOUS
  <2> QED
    BY <2>1, FlattenType
<1>3. flat(0) = <<>> /\ flat(N) = W
  <2>1. SubSeq(ss, 1, 0) = <<>> /\ SubSeq(ss, 1, N) = ss
    OBVIOUS
  <2> QED
    BY <2>1, FlattenEmpty
<1>4. \A i \in 1..N : flat(i) = flat(i - 1) \o ss[i]
  BY FlattenStep
<1> HIDE DEF flat, W, N
<1>5. ASSUME NEW i \in 1..N
      PROVE  /\ i - 1 \in 0..N /\ i \in 0..N
             /\ Len(flat(i)) = Len(flat(i - 1)) + Len(ss[i])
             /\ \A k \in 1..Len(flat(i - 1)) : flat(i)[k] = flat(i - 1)[k]
             /\ \A k \in 1..Len(ss[i]) : flat(i)[Len(flat(i - 1)) + k] = ss[i][k]
  <2>1. i - 1 \in 0..N /\ i \in 0..N
    BY <1>1
  <2>2. flat(i - 1) \in Seq(T) /\ ss[i] \in Seq(T) /\ flat(i) = flat(i - 1) \o ss[i]
    BY <1>1, <1>2, <1>4, <2>1
  <2> QED
    BY ONLY <2>1, <2>2, Appended
(* Counted from the end: what is flat up to N - d is found in the whole.    *)
<1> DEFINE Agrees(i) == /\ Len(flat(i)) <= Len(W)
                        /\ \A k \in 1..Len(flat(i)) : W[k] = flat(i)[k]
           D == {d \in Nat : d <= N => Agrees(N - d)}
<1>6. 0 \in D
  <2>1. N - 0 = N /\ Len(W) \in Nat
    BY <1>1, <1>2, <1>3
  <2> QED
    BY <1>3, <2>1
<1>7. ASSUME NEW d \in Nat, d \in D
      PROVE  d + 1 \in D
  <2> SUFFICES ASSUME d + 1 <= N
               PROVE  Agrees(N - (d + 1))
    OBVIOUS
  <2>1. PICK i \in 1..N : i = N - d
    BY <1>1
  <2>2. N - (d + 1) = i - 1 /\ d <= N
    BY <1>1, <2>1
  <2>3. Agrees(i)
    BY <1>7, <2>1, <2>2
  <2>4. Len(flat(i - 1)) \in Nat /\ Len(ss[i]) \in Nat /\ Len(W) \in Nat
    <3>1. i - 1 \in 0..N /\ N \in 0..N
      BY <1>1
    <3> QED
      BY <1>1, <1>2, <1>3, <3>1
  <2>5. Len(flat(i - 1)) <= Len(W) /\ \A k \in 1..Len(flat(i - 1)) : k \in 1..Len(flat(i))
    <3>1. PICK a \in Nat : a = Len(flat(i - 1))
      BY <2>4
    <3>2. PICK b \in Nat : b = Len(ss[i])
      BY <2>4
    <3>3. Len(flat(i)) = a + b /\ Len(W) \in Nat /\ a + b <= Len(W)
      BY <1>5, <2>3, <2>4, <3>1, <3>2
    <3>4. a <= Len(W) /\ \A k \in 1..a : k \in 1..(a + b)
      BY ONLY <3>3, a \in Nat, b \in Nat
    <3> QED
      BY <3>1, <3>3, <3>4
  <2>6. \A k \in 1..Len(flat(i - 1)) : W[k] = flat(i - 1)[k]
    BY <1>5, <2>3, <2>5
  <2>7. Agrees(i - 1)
    BY <2>5, <2>6
  <2> HIDE DEF Agrees
  <2> QED
    BY <2>2, <2>7
<1>8. \A i \in 0..N : Agrees(i)
  <2> HIDE DEF D
  <2>1. Nat \subseteq D
    BY <1>6, <1>7, SetInduction
  <2> SUFFICES ASSUME NEW i \in 0..N
               PROVE  Agrees(i)
    OBVIOUS
  <2>2. N - i \in Nat /\ N - i <= N /\ N - (N - i) = i
    BY <1>1
  <2>3. N - i \in D
    BY <2>1, <2>2
  <2> HIDE DEF Agrees
  <2> QED
    BY <2>2, <2>3 DEF D
<1> DEFINE at == [i \in 0..N |-> Len(flat(i))]
<1>9. \A i \in 0..N : at[i] = Len(flat(i)) /\ at[i] \in 0..Len(W)
  <2>1. \A i \in 0..N : Len(flat(i)) \in Nat /\ Len(flat(i)) <= Len(W)
    BY <1>2, <1>8
  <2>2. Len(W) \in Nat
    <3>1. N \in 0..N
      BY <1>1
    <3> QED
      BY <1>2, <1>3, <3>1
  <2> QED
    BY <2>1, <2>2
<1>10. at \in [0..N -> 0..Len(W)]
  BY <1>9
<1>11. at[0] = 0 /\ at[N] = Len(W)
  <2>1. 0 \in 0..N /\ N \in 0..N
    BY <1>1
  <2> QED
    BY <1>3, <1>9, <2>1
<1> HIDE DEF at
<1>12. ASSUME NEW i \in 1..N
       PROVE  /\ at[i] = at[i - 1] + Len(ss[i])
              /\ \A k \in 1..Len(ss[i]) : W[at[i - 1] + k] = ss[i][k]
  <2>1. at[i] = at[i - 1] + Len(ss[i])
    BY <1>5, <1>9
  <2>2. ASSUME NEW k \in 1..Len(ss[i])
        PROVE  W[at[i - 1] + k] = ss[i][k]
    <3>1. i - 1 \in 0..N /\ i \in 0..N
      BY <1>5
    <3>2. at[i - 1] \in Nat /\ at[i - 1] = Len(flat(i - 1)) /\ at[i] = Len(flat(i))
      BY <1>9, <3>1
    <3>3. Len(ss[i]) \in Nat
      BY <1>1
    <3>4. PICK a \in Nat : a = at[i - 1]
      BY <3>2
    <3>5. PICK b \in Nat : b = Len(ss[i])
      BY <3>3
    <3>6. Len(flat(i)) = a + b /\ a + k \in 1..(a + b)
      <4>1. k \in 1..b
        BY <3>5
      <4>2. a + k \in 1..(a + b)
        BY ONLY <4>1, a \in Nat, b \in Nat
      <4> QED
        BY <2>1, <3>2, <3>4, <3>5, <4>2
    <3>7. W[a + k] = flat(i)[a + k]
      BY <1>8, <3>1, <3>6
    <3>8. flat(i)[Len(flat(i - 1)) + k] = ss[i][k]
      BY <1>5
    <3> QED
      BY <3>2, <3>4, <3>7, <3>8
  <2> QED
    BY <2>1, <2>2
<1> QED
  <2>1. \A i \in 0..N : at[i] = Len(flat(i))
    BY <1>9
  <2>2. Places(at, ss, W)
    BY <1>10, <1>11, <1>12, <2>1, Zenon DEF Places, flat, N
  <2> QED
    BY <2>2 DEF W

(* Every position of the whole is one of a part.                            *)
Within(k, at, ss) == \E i \in 1..Len(ss) : \E j \in 1..Len(ss[i]) : k = at[i - 1] + j

LEMMA Inside ==
  ASSUME NEW T, NEW ss \in Seq(Seq(T)), NEW w \in Seq(T), NEW at, Places(at, ss, w)
  PROVE  \A k \in 1..Len(w) : Within(k, at, ss)
<1> SUFFICES ASSUME NEW k \in 1..Len(w)
             PROVE  Within(k, at, ss)
  OBVIOUS
<1>1. /\ Len(ss) \in Nat /\ Len(w) \in Nat /\ at[0] = 0 /\ at[Len(ss)] = Len(w)
      /\ \A i \in 0..Len(ss) : at[i] \in Nat
      /\ \A i \in 1..Len(ss) : at[i] = at[i - 1] + Len(ss[i]) /\ Len(ss[i]) \in Nat
  BY DEF Places
<1> DEFINE S == {i \in 1..Len(ss) : k <= at[i]}
<1>2. Len(ss) \in S
  <2>1. Len(ss) # 0
    BY <1>1
  <2> QED
    BY <1>1, <2>1
<1>3. S \subseteq Nat /\ S # {}
  <2>1. S # {}
    <3> HIDE DEF S
    <3> QED
      BY <1>2
  <2>2. S \subseteq Nat
    OBVIOUS
  <2> QED
    BY ONLY <2>1, <2>2
<1>4. PICK i \in S : \A y \in S : i <= y
  <2> HIDE DEF S
  <2> QED
    BY <1>3, LeastElement
<1>5. i \in 1..Len(ss) /\ k <= at[i]
  OBVIOUS
<1>6. at[i - 1] < k
  <2>1. CASE i = 1
    BY <1>1, <2>1
  <2>2. CASE i # 1
    <3>1. i - 1 \in 1..Len(ss) /\ ~(i <= i - 1) /\ i - 1 \in 0..Len(ss)
      BY <1>1, <1>5, <2>2
    <3>2. i - 1 \notin S
      BY <1>4, <3>1
    <3>3. at[i - 1] \in Nat
      BY <1>1, <3>1
    <3> QED
      BY <3>1, <3>2, <3>3
  <2> QED
    BY <2>1, <2>2
<1>7. PICK o \in Nat : o = at[i - 1]
  <2>1. i - 1 \in 0..Len(ss)
    BY <1>1, <1>5
  <2> QED
    BY <1>1, <2>1
<1>8. PICK l \in Nat : l = Len(ss[i])
  BY <1>1, <1>5
<1>9. k - o \in 1..l /\ k = o + (k - o)
  <2>1. k <= o + l /\ o < k
    BY <1>1, <1>5, <1>6, <1>7, <1>8
  <2>2. k \in Nat
    OBVIOUS
  <2> QED
    BY ONLY <2>1, <2>2, o \in Nat, l \in Nat
<1> QED
  BY <1>5, <1>7, <1>8, <1>9 DEF Within

(* What a function yields item by item, from its values at the places of    *)
(* the items.                                                               *)
Unrolls(from, at, items) ==
  /\ \A i \in 1..Len(items) : from[at[i - 1] + 1] = <<items[i]>> \o from[at[i] + 1]
  /\ from[at[Len(items)] + 1] = <<>>

LEMMA Unrolled ==
  ASSUME NEW S, NEW items \in Seq(S), NEW from, NEW at, Unrolls(from, at, items)
  PROVE  from[at[0] + 1] = items
<1>0. /\ \A i \in 1..Len(items) : from[at[i - 1] + 1] = <<items[i]>> \o from[at[i] + 1]
      /\ from[at[Len(items)] + 1] = <<>>
  BY DEF Unrolls
<1> DEFINE n == Len(items)
           Left(i) == from[at[i] + 1] = SubSeq(items, i + 1, n)
           D == {d \in Nat : d <= n => Left(n - d)}
<1>1. n \in Nat
  OBVIOUS
<1>2. 0 \in D
  <2>1. SubSeq(items, n + 1, n) = <<>>
    <3>1. PICK d : d = SubSeq(items, n + 1, n)
      OBVIOUS
    <3>2. n + 1 \in 1..(Len(items) + 1) /\ n \in ((n + 1) - 1)..Len(items) /\ n - (n + 1) + 1 = 0
      BY <1>1
    <3> HIDE DEF n
    <3>3. d \in Seq(S) /\ Len(d) = n - (n + 1) + 1
      BY ONLY items \in Seq(S), <3>1, <3>2, Cut
    <3>4. d \in Seq(S) /\ Len(d) = 0
      BY <3>2, <3>3
    <3>5. d = <<>>
      BY ONLY <3>4
    <3> QED
      BY <3>1, <3>5
  <2>2. n - 0 = n
    BY <1>1
  <2> HIDE DEF n
  <2>3. Left(n)
    BY <1>0, <2>1 DEF n
  <2> HIDE DEF Left
  <2> QED
    BY <2>2, <2>3
<1>3. ASSUME NEW d \in Nat, d \in D
      PROVE  d + 1 \in D
  <2> SUFFICES ASSUME d + 1 <= n
               PROVE  Left(n - (d + 1))
    OBVIOUS
  <2> HIDE DEF n
  <2>1. PICK i \in 1..n : i = n - d
    <3>1. n - d \in 1..n
      BY <1>1
    <3> QED
      BY <3>1
  <2>2. n - (d + 1) = i - 1 /\ d <= n /\ (i - 1) + 1 = i
    BY <1>1, <2>1
  <2>3. Left(i)
    BY <1>3, <2>1, <2>2
  <2>4. <<items[i]>> \o SubSeq(items, i + 1, n) = SubSeq(items, i, n)
    BY FromThere DEF n
  <2>5. from[at[i - 1] + 1] = SubSeq(items, i, n)
    BY <1>0, <2>3, <2>4 DEF n
  <2> QED
    BY <2>2, <2>5
<1>4. Left(0)
  <2> HIDE DEF D, Left, n
  <2>1. n \in D
    BY <1>1, <1>2, <1>3, SetInduction
  <2>2. n <= n /\ n - n = 0
    BY <1>1
  <2> QED
    BY <2>1, <2>2 DEF D
<1>5. SubSeq(items, 0 + 1, n) = items
  OBVIOUS
<1> QED
  BY <1>4, <1>5

-----------------------------------------------------------------------------
(* Parity.                                                                  *)

LEMMA ParityIsBit ==
  ASSUME NEW D, NEW n \in Nat, D \subseteq 1..n
  PROVE  Cardinality(D) \in Nat /\ Cardinality(D) % 2 \in 0..1
<1>1. IsFiniteSet(D)
  <2>1. IsFiniteSet(1..n)
    BY FS_Interval
  <2> QED
    BY <2>1, FS_Subset
<1>2. Cardinality(D) \in Nat
  BY <1>1, FS_CardinalityType
<1> QED
  BY <1>2
=============================================================================
