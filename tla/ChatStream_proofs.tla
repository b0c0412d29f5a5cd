---------------------------- MODULE ChatStream_proofs ----------------------------
(***************************************************************************)
(* What a stream keeps in order, for any answer cut anywhere.  First what    *)
(* sequences need: FlattenSeq is a recursive function, and what it computes  *)
(* follows by induction over a set of numbers, from the intervals being      *)
(* well-founded.  Then the wire: the payloads that have not been parsed lie  *)
(* in the buffer and on the wire in their order, each with an end of its     *)
(* own, whatever a piece cuts through; so the next frame holds the next      *)
(* payload or none.                                                          *)
(***************************************************************************)
EXTENDS ChatStream, Integers, FiniteSetTheorems, SequenceTheorems, TLAPS

-----------------------------------------------------------------------------
(* Induction, and sequences.                                                 *)

\* Every set of naturals has a least element: intervals are well-founded.
LEMMA Least ==
    ASSUME NEW S \in SUBSET Nat, S # {}
    PROVE  \E n \in S : \A m \in S : n <= m
<1> DEFINE T == {1 .. n : n \in S}
<1>1. T \subseteq FiniteSubsetsOf(Nat)
  <2>1. ASSUME NEW n \in S PROVE 1 .. n \in FiniteSubsetsOf(Nat)
    BY FS_Interval DEF FiniteSubsetsOf
  <2> QED  BY <2>1
<1>2. T # {}
  OBVIOUS
<1> HIDE DEF T
<1>3. \E x \in T : \A y \in T : <<y, x>> \notin StrictSubsetOrdering(Nat)
  BY <1>1, <1>2, FS_StrictSubsetOrderingWellFounded, WFMin
<1> USE DEF T
<1>4. PICK n \in S : \A m \in S : <<1 .. m, 1 .. n>> \notin StrictSubsetOrdering(Nat)
  BY <1>3
<1>5. ASSUME NEW m \in S, m < n PROVE FALSE
  <2>1. 1 .. m \subseteq 1 .. n /\ n \in 1 .. n /\ n \notin 1 .. m
    BY <1>5
  <2>2. 1 .. m # 1 .. n
    BY <2>1
  <2>3. <<1 .. m, 1 .. n>> \in StrictSubsetOrdering(Nat)
    BY <2>1, <2>2 DEF StrictSubsetOrdering
  <2> QED  BY <2>3, <1>4
<1> QED  BY <1>5

\* Induction over the members of a set.
LEMMA Induct ==
    ASSUME NEW S \in SUBSET Nat, 0 \in S, \A n \in S : n + 1 \in S
    PROVE  S = Nat
<1> SUFFICES ASSUME Nat \ S # {} PROVE FALSE
  OBVIOUS
<1>1. PICK n \in Nat \ S : \A m \in Nat \ S : n <= m
  BY Least
<1>2. n # 0 /\ n - 1 \in S
  BY <1>1
<1> QED  BY <1>1, <1>2

-----------------------------------------------------------------------------

\* What FlattenSeq computes on the way to the end of ss.
Flattens(ss, n, f) ==
    f = [i \in 1 .. n |-> IF i = 1 THEN ss[i] ELSE f[i - 1] \o ss[i]]

LEMMA FlattensAt ==
    ASSUME NEW ss, NEW n \in Nat, NEW f, Flattens(ss, n, f), NEW i \in 1 .. n
    PROVE  f[i] = IF i = 1 THEN ss[i] ELSE f[i - 1] \o ss[i]
<1> DEFINE G == [j \in 1 .. n |-> IF j = 1 THEN ss[j] ELSE f[j - 1] \o ss[j]]
<1>1. f = G
  BY DEF Flattens
<1>2. G[i] = IF i = 1 THEN ss[i] ELSE f[i - 1] \o ss[i]
  OBVIOUS
<1> HIDE DEF G
<1> QED  BY <1>1, <1>2

LEMMA FlattensExists ==
    ASSUME NEW ss, NEW n \in Nat
    PROVE  \E f : Flattens(ss, n, f)
<1> DEFINE S == {m \in Nat : \E f : Flattens(ss, m, f)}
<1>1. 0 \in S
  <2>1. Flattens(ss, 0, [i \in 1 .. 0 |-> ss[i]])
    BY DEF Flattens
  <2> QED  BY <2>1
<1>2. ASSUME NEW m \in S PROVE m + 1 \in S
  <2>1. PICK f : Flattens(ss, m, f)
    OBVIOUS
  <2> DEFINE g == [i \in 1 .. m + 1 |-> IF i = 1 THEN ss[i] ELSE f[i - 1] \o ss[i]]
  <2>2. ASSUME NEW i \in 1 .. m PROVE g[i] = f[i]
    <3>1. f[i] = IF i = 1 THEN ss[i] ELSE f[i - 1] \o ss[i]
      BY <2>1, FlattensAt
    <3> QED  BY <3>1
  <2> DEFINE h == [i \in 1 .. m + 1 |-> IF i = 1 THEN ss[i] ELSE g[i - 1] \o ss[i]]
  <2>3. ASSUME NEW i \in 1 .. m + 1 PROVE g[i] = h[i]
    <3>1. i # 1 => i - 1 \in 1 .. m
      OBVIOUS
    <3>2. i # 1 => g[i - 1] = f[i - 1]
      BY <2>2, <3>1
    <3> HIDE <2>2
    <3>3. CASE i = 1
      BY <3>3
    <3>4. CASE i # 1
      <4>1. g[i] = f[i - 1] \o ss[i] /\ h[i] = g[i - 1] \o ss[i]
        BY <3>4
      <4> QED  BY <3>2, <3>4, <4>1
    <3> QED  BY <3>3, <3>4
  <2>4. g = h
    BY <2>3
  <2>5. Flattens(ss, m + 1, g)
    BY <2>4, Zenon DEF Flattens
  <2> QED  BY <2>5
<1> HIDE DEF S
<1>3. S = Nat
  BY <1>1, <1>2, Induct DEF S
<1> QED  BY <1>3 DEF S

LEMMA FlattensUnique ==
    ASSUME NEW ss, NEW tt, NEW m \in Nat, NEW n \in Nat, m <= n, NEW f, NEW g,
           \A i \in 1 .. m : ss[i] = tt[i],
           Flattens(ss, m, f), Flattens(tt, n, g), NEW j \in 1 .. m
    PROVE  f[j] = g[j]
<1> DEFINE S == {i \in Nat : i \in 1 .. m => f[i] = g[i]}
<1>1. 0 \in S
  OBVIOUS
<1>2. ASSUME NEW i \in S PROVE i + 1 \in S
  <2>1. CASE i + 1 \in 1 .. m
    <3>1. f[i + 1] = (IF i + 1 = 1 THEN ss[i + 1] ELSE f[i + 1 - 1] \o ss[i + 1])
      BY <2>1, FlattensAt
    <3>2. g[i + 1] = (IF i + 1 = 1 THEN tt[i + 1] ELSE g[i + 1 - 1] \o tt[i + 1])
      BY <2>1, FlattensAt
    <3>3. i + 1 - 1 = i /\ (i = 0 \/ i \in 1 .. m)
      BY <2>1
    <3> QED  BY <2>1, <3>1, <3>2, <3>3
  <2> QED  BY <2>1
<1> HIDE DEF S
<1>3. S = Nat
  BY <1>1, <1>2, Induct DEF S
<1> QED  BY <1>3 DEF S

LEMMA FlattenIs ==
    ASSUME NEW ss, Len(ss) \in Nat
    PROVE  /\ Len(ss) = 0 => FlattenSeq(ss) = ss
           /\ Len(ss) # 0 => \E f : Flattens(ss, Len(ss), f) /\ FlattenSeq(ss) = f[Len(ss)]
<1> DEFINE h == CHOOSE f : Flattens(ss, Len(ss), f)
<1>1. Flattens(ss, Len(ss), h)
  BY FlattensExists
<1>2. FlattenSeq(ss) = IF Len(ss) = 0 THEN ss ELSE h[Len(ss)]
  BY DEF FlattenSeq, Flattens
<1> QED  BY <1>1, <1>2

LEMMA FlattenLast ==
    ASSUME NEW ss, NEW tt, NEW n \in Nat, n # 0, Len(ss) = n, Len(tt) = n + 1,
           \A i \in 1 .. n : ss[i] = tt[i]
    PROVE  FlattenSeq(tt) = FlattenSeq(ss) \o tt[n + 1]
<1>1. PICK f : Flattens(ss, n, f) /\ FlattenSeq(ss) = f[n]
  BY FlattenIs
<1>2. PICK k \in Nat : k = n + 1 /\ k # 0 /\ Len(tt) = k /\ n <= k /\ k \in 1 .. k /\ k - 1 = n
  OBVIOUS
<1>3. PICK g : Flattens(tt, k, g) /\ FlattenSeq(tt) = g[k]
  BY <1>2, FlattenIs
<1>4. g[k] = g[n] \o tt[k]
  <2>1. \A i \in 1 .. k : g[i] = IF i = 1 THEN tt[i] ELSE g[i - 1] \o tt[i]
    BY <1>3, FlattensAt
  <2>2. k \in 1 .. k /\ k # 1 /\ k - 1 = n
    BY <1>2
  <2>3. g[k] = IF k = 1 THEN tt[k] ELSE g[k - 1] \o tt[k]
    BY <2>1, <2>2
  <2> QED  BY <2>2, <2>3
<1>5. f[n] = g[n]
  <2>1. n \in 1 .. n
    OBVIOUS
  <2> QED  BY <1>1, <1>2, <1>3, <2>1, FlattensUnique
<1> QED  BY <1>1, <1>2, <1>3, <1>4, <1>5

\* FlattenSeq by its last element.
LEMMA FlattenAppend ==
    ASSUME NEW S, NEW ss \in Seq(Seq(S)), NEW s \in Seq(S)
    PROVE  /\ FlattenSeq(<<>>) = <<>>
           /\ FlattenSeq(Append(ss, s)) = FlattenSeq(ss) \o s
<1>1. Len(<<>>) = 0 /\ FlattenSeq(<<>>) = <<>>
  BY FlattenIs
<1> DEFINE tt == Append(ss, s)
           n  == Len(ss)
<1>2. n \in Nat /\ Len(tt) = n + 1 /\ tt[n + 1] = s /\ \A i \in 1 .. n : ss[i] = tt[i]
  OBVIOUS
<1>3. CASE n = 0
  <2>1. ss = <<>> /\ <<>> \o s = s
    BY <1>2, <1>3
  <2>2. PICK k \in Nat : k = 1 /\ Len(tt) = k /\ k # 0 /\ k \in 1 .. k
    BY <1>2, <1>3
  <2> HIDE DEF tt
  <2>3. PICK g : Flattens(tt, k, g) /\ FlattenSeq(tt) = g[k]
    BY <2>2, FlattenIs
  <2>4. \A i \in 1 .. k : g[i] = IF i = 1 THEN tt[i] ELSE g[i - 1] \o tt[i]
    BY <2>3, FlattensAt
  <2>5. FlattenSeq(tt) = tt[1]
    BY <2>2, <2>3, <2>4
  <2> QED  BY <1>1, <1>2, <1>3, <2>1, <2>5 DEF tt
<1>4. CASE n # 0
  <2> HIDE DEF tt, n
  <2>1. FlattenSeq(tt) = FlattenSeq(ss) \o tt[n + 1]
    BY <1>2, <1>4, FlattenLast DEF n
  <2> QED  BY <1>1, <1>2, <2>1 DEF tt
<1> QED  BY <1>3, <1>4

\* One more element of ss.
LEMMA FlattenStep ==
    ASSUME NEW S, NEW ss \in Seq(Seq(S)), NEW n \in Nat, n < Len(ss)
    PROVE  /\ SubSeq(ss, 1, n) \in Seq(Seq(S)) /\ ss[n + 1] \in Seq(S)
           /\ FlattenSeq(SubSeq(ss, 1, n + 1)) = FlattenSeq(SubSeq(ss, 1, n)) \o ss[n + 1]
<1>1. SubSeq(ss, 1, n) \in Seq(Seq(S)) /\ n + 1 \in 1 .. Len(ss)
  BY SubSeqProperties
<1>2. ss[n + 1] \in Seq(S)
  BY <1>1, ElementOfSeq
<1>3. SubSeq(ss, 1, n + 1) = Append(SubSeq(ss, 1, n), ss[n + 1])
  <2>1. Len(ss) \in Nat /\ n + 1 <= Len(ss)
    OBVIOUS
  <2> QED  BY <2>1
<1> QED  BY <1>1, <1>2, <1>3, FlattenAppend

\* FlattenSeq joins sequences; and where the elements of each one come to lie.
Places(ss, flat, off) ==
    /\ off[1] = 0 /\ Len(flat) = off[Len(ss) + 1]
    /\ \A k \in 1 .. Len(ss) : off[k + 1] = off[k] + Len(ss[k])
    /\ \A k \in 1 .. Len(ss) : \A j \in 1 .. Len(ss[k]) : flat[off[k] + j] = ss[k][j]
    /\ \A k, l \in 1 .. Len(ss) + 1 : k <= l => off[k] <= off[l]
    /\ \A q \in 1 .. Len(flat) : \E k \in 1 .. Len(ss) : \E j \in 1 .. Len(ss[k]) : q = off[k] + j

\* One sequence more, of length b, after those of ss that flat has, of length a.
OneMore(n, a, b, ss, tt, flat, w, off, o) ==
    /\ n \in Nat /\ a \in Nat /\ b \in Nat
    /\ off \in [1 .. n + 1 -> Nat] /\ o \in [1 .. n + 2 -> Nat]
    /\ Len(ss) = n /\ Len(tt) = n + 1 /\ Len(flat) = a /\ Len(w) = a + b /\ Len(tt[n + 1]) = b
    /\ \A k \in 1 .. n : tt[k] = ss[k] /\ Len(ss[k]) \in Nat
    /\ \A q \in 1 .. a : w[q] = flat[q]
    /\ \A j \in 1 .. b : w[a + j] = tt[n + 1][j]
    /\ \A k \in 1 .. n + 1 : o[k] = off[k]
    /\ o[n + 2] = a + b /\ Places(ss, flat, off)

LEMMA PlacesMore ==
    ASSUME NEW n, NEW a, NEW b, NEW ss, NEW tt, NEW flat, NEW w, NEW off, NEW o,
           OneMore(n, a, b, ss, tt, flat, w, off, o)
    PROVE  Places(tt, w, o)
<1> USE DEF OneMore
<1> n \in Nat /\ a \in Nat /\ b \in Nat
  OBVIOUS
<1>1. /\ off[1] = 0 /\ a = off[n + 1]
      /\ \A k \in 1 .. n : off[k + 1] = off[k] + Len(ss[k])
      /\ \A k, l \in 1 .. n + 1 : k <= l => off[k] <= off[l]
  BY DEF Places
<1>2. o[1] = 0 /\ Len(w) = o[n + 2]
  BY <1>1
<1>3. ASSUME NEW k \in 1 .. n + 1 PROVE o[k + 1] = o[k] + Len(tt[k])
  <2>1. CASE k = n + 1
    BY <1>1, <2>1
  <2>2. CASE k # n + 1
    <3>1. k \in 1 .. n /\ k + 1 \in 1 .. n + 1
      BY <2>2
    <3> QED  BY <1>1, <3>1
  <2> QED  BY <2>1, <2>2
<1>4. ASSUME NEW k \in 1 .. n + 1, NEW j \in 1 .. Len(tt[k]) PROVE w[o[k] + j] = tt[k][j]
  <2>1. CASE k = n + 1
    BY <1>1, <2>1
  <2>2. CASE k # n + 1
    <3>1. k \in 1 .. n /\ k + 1 \in 1 .. n + 1 /\ n + 1 \in 1 .. n + 1
      BY <2>2
    <3>2. tt[k] = ss[k] /\ o[k] = off[k] /\ off[k] \in Nat
      BY <3>1
    <3>3. off[k + 1] = off[k] + Len(ss[k]) /\ off[k + 1] <= a /\ Len(ss[k]) \in Nat
      BY <1>1, <3>1
    <3>4. j \in 1 .. Len(ss[k]) /\ off[k] + j \in 1 .. a
      <4>1. j \in 1 .. Len(ss[k])
        BY <3>2
      <4>2. PICK x \in Nat : x = off[k]
        BY <3>2
      <4>3. PICK y \in Nat : y = Len(ss[k])
        BY <3>3
      <4>4. x + y <= a /\ j \in 1 .. y
        BY <3>3, <4>1, <4>2, <4>3
      <4>5. x + j \in 1 .. a
        BY <4>4
      <4> QED  BY <4>1, <4>2, <4>5
    <3>5. flat[off[k] + j] = ss[k][j]
      BY <3>1, <3>2 DEF Places
    <3> QED  BY <3>2, <3>4, <3>5
  <2> QED  BY <2>1, <2>2
<1>5. ASSUME NEW k \in 1 .. n + 2, NEW l \in 1 .. n + 2, k <= l PROVE o[k] <= o[l]
  <2>1. CASE l \in 1 .. n + 1
    <3>1. k \in 1 .. n + 1
      BY <1>5, <2>1
    <3> QED  BY <1>1, <1>5, <2>1, <3>1
  <2>2. CASE l = n + 2 /\ k \in 1 .. n + 1
    <3>1. off[k] <= a /\ off[k] \in Nat
      BY <1>1, <2>2
    <3> QED  BY <2>2, <3>1
  <2>3. CASE l = n + 2 /\ k = n + 2
    BY <2>3
  <2> QED  BY <2>1, <2>2, <2>3
<1>6. ASSUME NEW q \in 1 .. a + b
      PROVE  \E k \in 1 .. n + 1 : \E j \in 1 .. Len(tt[k]) : q = o[k] + j
  <2>1. CASE q <= a
    <3>1. q \in 1 .. a
      BY <2>1
    <3>2. PICK k \in 1 .. n : \E j \in 1 .. Len(ss[k]) : q = off[k] + j
      BY <3>1 DEF Places
    <3>3. k \in 1 .. n + 1 /\ tt[k] = ss[k]
      OBVIOUS
    <3> QED  BY <3>2, <3>3
  <2>2. CASE q > a
    <3>1. q - a \in 1 .. b /\ n + 1 \in 1 .. n + 1 /\ o[n + 1] = a /\ q = a + (q - a)
      BY <1>1, <2>2
    <3> QED  BY <3>1
  <2> QED  BY <2>1, <2>2
<1>7. Len(tt) + 1 = n + 2
  OBVIOUS
<1> QED  BY <1>2, <1>3, <1>4, <1>5, <1>6, <1>7 DEF Places

LEMMA PlacesAppend ==
    ASSUME NEW S, NEW ss \in Seq(Seq(S)), NEW s \in Seq(S), NEW flat \in Seq(S),
           NEW off \in [1 .. Len(ss) + 1 -> Nat], Places(ss, flat, off)
    PROVE  \E o \in [1 .. Len(Append(ss, s)) + 1 -> Nat] : Places(Append(ss, s), flat \o s, o)
<1>1. PICK n \in Nat : n = Len(ss)
  OBVIOUS
<1>2. PICK a \in Nat : a = Len(flat)
  OBVIOUS
<1>3. PICK b \in Nat : b = Len(s)
  OBVIOUS
<1>4. PICK tt : tt = Append(ss, s)
  OBVIOUS
<1>5. PICK w : w = flat \o s
  OBVIOUS
<1> DEFINE o == [k \in 1 .. n + 2 |-> IF k = n + 2 THEN a + b ELSE off[k]]
<1>6. Len(tt) = n + 1 /\ tt[n + 1] = s /\ \A k \in 1 .. n : tt[k] = ss[k] /\ Len(ss[k]) \in Nat
  BY <1>1, <1>4
<1>7. Len(w) = a + b /\ (\A q \in 1 .. a : w[q] = flat[q]) /\ \A j \in 1 .. b : w[a + j] = s[j]
  BY <1>2, <1>3, <1>5
<1>8. o \in [1 .. n + 2 -> Nat] /\ o[n + 2] = a + b /\ \A k \in 1 .. n + 1 : o[k] = off[k]
  BY <1>1
<1>9. off \in [1 .. n + 1 -> Nat]
  BY <1>1
<1> HIDE DEF o
<1>10. Places(tt, w, o)
  <2>1. OneMore(n, a, b, ss, tt, flat, w, off, o)
    BY <1>1, <1>2, <1>3, <1>6, <1>7, <1>8, <1>9 DEF OneMore
  <2> QED  BY <2>1, PlacesMore
<1>11. o \in [1 .. Len(tt) + 1 -> Nat]
  <2>1. Len(tt) + 1 = n + 2
    BY <1>6
  <2> QED  BY <1>8, <2>1
<1> QED  BY <1>4, <1>5, <1>10, <1>11

LEMMA Flattened ==
    ASSUME NEW S, NEW ss \in Seq(Seq(S))
    PROVE  /\ FlattenSeq(ss) \in Seq(S)
           /\ \E off \in [1 .. Len(ss) + 1 -> Nat] : Places(ss, FlattenSeq(ss), off)
<1> DEFINE P(m) == LET tt == SubSeq(ss, 1, m)
                   IN  /\ FlattenSeq(tt) \in Seq(S)
                       /\ \E off \in [1 .. Len(tt) + 1 -> Nat] : Places(tt, FlattenSeq(tt), off)
           N == {m \in Nat : m <= Len(ss) => P(m)}
<1>1. 0 \in N
  <2>1. SubSeq(ss, 1, 0) = <<>> /\ FlattenSeq(<<>>) = <<>> /\ Len(<<>>) = 0
    BY FlattenAppend
  <2>2. [k \in {1} |-> 0] \in [1 .. 0 + 1 -> Nat] /\ Places(<<>>, <<>>, [k \in {1} |-> 0])
    BY DEF Places
  <2>3. <<>> \in Seq(S)
    OBVIOUS
  <2> QED  BY <2>1, <2>2, <2>3
<1>2. ASSUME NEW m \in N PROVE m + 1 \in N
  <2>0. m \in Nat /\ m + 1 \in Nat
    BY DEF N
  <2>1. SUFFICES ASSUME m + 1 <= Len(ss) PROVE P(m + 1)
    BY <2>0 DEF N
  <2>2. m < Len(ss) /\ m <= Len(ss) /\ P(m)
    <3>1. Len(ss) \in Nat
      OBVIOUS
    <3>2. m <= Len(ss) => P(m)
      BY DEF N
    <3> HIDE DEF P
    <3> QED  BY <2>0, <2>1, <3>1, <3>2
  <2>3. /\ SubSeq(ss, 1, m) \in Seq(Seq(S)) /\ ss[m + 1] \in Seq(S)
        /\ FlattenSeq(SubSeq(ss, 1, m + 1)) = FlattenSeq(SubSeq(ss, 1, m)) \o ss[m + 1]
    BY <2>2, FlattenStep
  <2>4. SubSeq(ss, 1, m + 1) = Append(SubSeq(ss, 1, m), ss[m + 1])
    BY <2>1, <2>2
  <2> DEFINE tt == SubSeq(ss, 1, m)
             s  == ss[m + 1]
  <2>5. /\ tt \in Seq(Seq(S)) /\ s \in Seq(S) /\ FlattenSeq(tt) \in Seq(S)
        /\ \E off \in [1 .. Len(tt) + 1 -> Nat] : Places(tt, FlattenSeq(tt), off)
    BY <2>2, <2>3
  <2>6. SubSeq(ss, 1, m + 1) = Append(tt, s) /\ FlattenSeq(Append(tt, s)) = FlattenSeq(tt) \o s
    BY <2>3, <2>4
  <2> HIDE DEF tt, s
  <2>7. FlattenSeq(tt) \o s \in Seq(S)
    BY <2>5
  <2>8. \E o \in [1 .. Len(Append(tt, s)) + 1 -> Nat] : Places(Append(tt, s), FlattenSeq(tt) \o s, o)
    BY <2>5, PlacesAppend
  <2> QED  BY <2>6, <2>7, <2>8
<1> HIDE DEF P, N
<1>3. N = Nat
  BY <1>1, <1>2, Induct DEF N
<1>4. P(Len(ss))
  BY <1>3 DEF N
<1>5. SubSeq(ss, 1, Len(ss)) = ss
  BY SubSeqFull
<1> QED  BY <1>4, <1>5 DEF P

LEMMA FlattenConcat ==
    ASSUME NEW S, NEW ss \in Seq(Seq(S)), NEW tt \in Seq(Seq(S))
    PROVE  FlattenSeq(ss \o tt) = FlattenSeq(ss) \o FlattenSeq(tt)
<1> DEFINE P(m) == FlattenSeq(ss \o SubSeq(tt, 1, m)) = FlattenSeq(ss) \o FlattenSeq(SubSeq(tt, 1, m))
           N == {m \in Nat : m <= Len(tt) => P(m)}
<1>0. FlattenSeq(ss) \in Seq(S)
  BY Flattened
<1>1. 0 \in N
  <2>1. SubSeq(tt, 1, 0) = <<>> /\ FlattenSeq(<<>>) = <<>> /\ ss \o <<>> = ss
    BY FlattenAppend
  <2>2. FlattenSeq(ss) \o <<>> = FlattenSeq(ss)
    BY <1>0
  <2> QED  BY <2>1, <2>2
<1>2. ASSUME NEW m \in N PROVE m + 1 \in N
  <2>0. m \in Nat /\ m + 1 \in Nat
    BY DEF N
  <2>1. SUFFICES ASSUME m + 1 <= Len(tt) PROVE P(m + 1)
    BY <2>0 DEF N
  <2>2. m < Len(tt) /\ m <= Len(tt) /\ P(m)
    <3>1. Len(tt) \in Nat
      OBVIOUS
    <3>2. m <= Len(tt) => P(m)
      BY DEF N
    <3> HIDE DEF P
    <3> QED  BY <2>0, <2>1, <3>1, <3>2
  <2>3. /\ SubSeq(tt, 1, m) \in Seq(Seq(S)) /\ tt[m + 1] \in Seq(S)
        /\ FlattenSeq(SubSeq(tt, 1, m + 1)) = FlattenSeq(SubSeq(tt, 1, m)) \o tt[m + 1]
    BY <2>0, <2>2, FlattenStep
  <2>4. SubSeq(tt, 1, m + 1) = Append(SubSeq(tt, 1, m), tt[m + 1])
    BY <2>0, <2>1, <2>2
  <2>5. PICK uu \in Seq(Seq(S)), u \in Seq(S) : uu = SubSeq(tt, 1, m) /\ u = tt[m + 1]
    BY <2>3
  <2>6. ss \o Append(uu, u) = Append(ss \o uu, u) /\ ss \o uu \in Seq(Seq(S))
    <3>1. ss \o uu \in Seq(Seq(S)) /\ <<u>> \in Seq(Seq(S))
      BY ConcatProperties
    <3>2. (ss \o uu) \o <<u>> = ss \o (uu \o <<u>>)
      BY <3>1, ConcatAssociative, SMTT(60)
    <3>3. Append(uu, u) = uu \o <<u>> /\ Append(ss \o uu, u) = (ss \o uu) \o <<u>>
      BY <3>1, AppendIsConcat
    <3> QED  BY <3>1, <3>2, <3>3
  <2>7. FlattenSeq(Append(ss \o uu, u)) = FlattenSeq(ss \o uu) \o u
    BY <2>6, FlattenAppend
  <2>8. (FlattenSeq(ss) \o FlattenSeq(uu)) \o u = FlattenSeq(ss) \o (FlattenSeq(uu) \o u)
    <3>1. FlattenSeq(uu) \in Seq(S)
      BY Flattened
    <3> QED  BY <1>0, <3>1, ConcatAssociative, SMTT(60)
  <2>9. FlattenSeq(ss \o uu) = FlattenSeq(ss) \o FlattenSeq(uu)
    BY <2>2, <2>5
  <2> QED  BY <2>3, <2>4, <2>5, <2>6, <2>7, <2>8, <2>9
<1> HIDE DEF P, N
<1>3. N = Nat
  BY <1>1, <1>2, Induct DEF N
<1>4. P(Len(tt))
  BY <1>3 DEF N
<1>5. SubSeq(tt, 1, Len(tt)) = tt
  BY SubSeqFull
<1> QED  BY <1>4, <1>5 DEF P

\* A sequence of sequences of one element each.
LEMMA FlattenSingles ==
    ASSUME NEW S, NEW s \in Seq(S)
    PROVE  /\ [i \in 1 .. Len(s) |-> <<s[i]>>] \in Seq(Seq(S))
           /\ FlattenSeq([i \in 1 .. Len(s) |-> <<s[i]>>]) = s
<1>1. PICK n \in Nat : n = Len(s)
  OBVIOUS
<1>2. PICK ss : ss = [i \in 1 .. n |-> <<s[i]>>]
  OBVIOUS
<1>3. \A i \in 1 .. n : s[i] \in S /\ ss[i] = <<s[i]>> /\ ss[i] \in Seq(S) /\ Len(ss[i]) = 1 /\ ss[i][1] = s[i]
  BY <1>1, <1>2
<1>4. ss \in Seq(Seq(S)) /\ Len(ss) = n
  BY <1>2, <1>3
<1>5. PICK f : f = FlattenSeq(ss)
  OBVIOUS
<1>6. f \in Seq(S) /\ \E off \in [1 .. Len(ss) + 1 -> Nat] : Places(ss, f, off)
  BY <1>4, <1>5, Flattened
<1>7. PICK off \in [1 .. n + 1 -> Nat] : Places(ss, f, off)
  BY <1>4, <1>6
<1> DEFINE N == {k \in Nat : k <= n => off[k + 1] = k}
<1>8. N = Nat
  <2>1. 0 \in N
    BY <1>7 DEF Places
  <2>2. ASSUME NEW k \in N PROVE k + 1 \in N
    <3>1. CASE k + 1 <= n
      <4>1. k + 1 \in 1 .. n
        BY <3>1
      <4>2. off[k + 1 + 1] = off[k + 1] + Len(ss[k + 1]) /\ Len(ss[k + 1]) = 1
        BY <1>3, <1>4, <1>7, <4>1 DEF Places
      <4>3. off[k + 1] = k /\ k \in Nat
        BY <3>1
      <4> QED  BY <4>2, <4>3
    <3>2. CASE ~(k + 1 <= n)
      BY <3>2
    <3> QED  BY <3>1, <3>2
  <2> HIDE DEF N
  <2>3. N \subseteq Nat
    BY DEF N
  <2> QED  BY <2>1, <2>2, <2>3, Induct
<1>9. \A k \in Nat : k <= n => off[k + 1] = k
  BY <1>8
<1>10. Len(f) = n
  BY <1>4, <1>7, <1>9 DEF Places
<1>11. ASSUME NEW i \in 1 .. n PROVE f[i] = s[i]
  <2>1. PICK k \in Nat : k = i - 1 /\ k + 1 = i /\ k <= n
    OBVIOUS
  <2>2. off[i] = k
    BY <1>9, <2>1
  <2>3. \A j \in 1 .. Len(ss[i]) : f[off[i] + j] = ss[i][j]
    BY <1>4, <1>7 DEF Places
  <2>4. 1 \in 1 .. Len(ss[i])
    BY <1>3
  <2> QED  BY <1>3, <2>1, <2>2, <2>3, <2>4
<1>12. f = s
  BY <1>1, <1>6, <1>10, <1>11, SeqEqual
<1> QED  BY <1>1, <1>2, <1>4, <1>5, <1>12

\* Where the elements of the first sequences come to lie depends on these alone.
Alongside(n, l, ss, tt, f, g, off, o) ==
    /\ n \in Nat /\ l \in Nat /\ n <= l /\ Len(ss) = n /\ Len(tt) = l
    /\ \A i \in 1 .. n : ss[i] = tt[i]
    /\ Places(ss, f, off) /\ Places(tt, g, o)

LEMMA PlacesUnique ==
    ASSUME NEW n, NEW l, NEW ss, NEW tt, NEW f, NEW g, NEW off, NEW o,
           Alongside(n, l, ss, tt, f, g, off, o)
    PROVE  o[n + 1] = Len(f)
<1> USE DEF Alongside
<1> DEFINE N == {k \in Nat : k <= n => off[k + 1] = o[k + 1]}
<1>1. 0 \in N
  BY DEF Places
<1>2. ASSUME NEW k \in N PROVE k + 1 \in N
  <2>1. CASE k + 1 <= n
    <3>1. k + 1 \in 1 .. n /\ k + 1 \in 1 .. l /\ k \in Nat /\ k <= n
      BY <2>1
    <3>2. off[k + 1 + 1] = off[k + 1] + Len(ss[k + 1]) /\ o[k + 1 + 1] = o[k + 1] + Len(tt[k + 1])
      BY <3>1 DEF Places
    <3>3. off[k + 1] = o[k + 1] /\ ss[k + 1] = tt[k + 1]
      BY <3>1
    <3> QED  BY <3>1, <3>2, <3>3
  <2>2. CASE ~(k + 1 <= n)
    BY <2>2
  <2> QED  BY <2>1, <2>2
<1>3. N \subseteq Nat
  OBVIOUS
<1> HIDE DEF N
<1>4. n \in N
  BY <1>1, <1>2, <1>3, Induct
<1>5. off[n + 1] = o[n + 1]
  BY <1>4 DEF N
<1> QED  BY <1>5 DEF Places

\* What a concatenation is, with the lengths as numbers.
Joins(S, s, t, m, n, w) ==
    /\ m \in Nat /\ n \in Nat /\ m = Len(s) /\ n = Len(t) /\ w \in Seq(S) /\ Len(w) = m + n
    /\ \A i \in 1 .. m : w[i] = s[i]
    /\ \A i \in 1 .. n : w[m + i] = t[i]
    /\ \A i \in 1 .. m + n : i \in 1 .. m \/ \E j \in 1 .. n : i = m + j

LEMMA Joined ==
    ASSUME NEW S, NEW s \in Seq(S), NEW t \in Seq(S)
    PROVE  \E m, n : Joins(S, s, t, m, n, s \o t)
<1>1. PICK m \in Nat : m = Len(s)
  OBVIOUS
<1>2. PICK n \in Nat : n = Len(t)
  OBVIOUS
<1>3. PICK w : w = s \o t
  OBVIOUS
<1>4. w \in Seq(S) /\ Len(w) = m + n /\ \A i \in 1 .. m + n : w[i] = IF i <= m THEN s[i] ELSE t[i - m]
  BY <1>1, <1>2, <1>3, ConcatProperties
<1>5. ASSUME NEW i \in 1 .. m PROVE w[i] = s[i]
  <2>1. i \in 1 .. m + n /\ i <= m
    OBVIOUS
  <2> QED  BY <1>4, <2>1
<1>6. ASSUME NEW i \in 1 .. n PROVE w[m + i] = t[i]
  <2>1. m + i \in 1 .. m + n /\ ~(m + i <= m) /\ (m + i) - m = i
    OBVIOUS
  <2> QED  BY <1>4, <2>1
<1>7. ASSUME NEW i \in 1 .. m + n PROVE i \in 1 .. m \/ \E j \in 1 .. n : i = m + j
  <2>1. i \in 1 .. m \/ (i - m \in 1 .. n /\ i = m + (i - m))
    OBVIOUS
  <2> QED  BY <2>1
<1>8. Joins(S, s, t, m, n, w)
  BY <1>1, <1>2, <1>4, <1>5, <1>6, <1>7 DEF Joins
<1> QED  BY <1>3, <1>8

LEMMA SplitAt ==
    ASSUME NEW S, NEW s \in Seq(S), NEW n \in Nat, n <= Len(s)
    PROVE  /\ SubSeq(s, 1, n) \in Seq(S) /\ Len(SubSeq(s, 1, n)) = n
           /\ \A i \in 1 .. n : SubSeq(s, 1, n)[i] = s[i]
           /\ SubSeq(s, n + 1, Len(s)) \in Seq(S) /\ Len(SubSeq(s, n + 1, Len(s))) = Len(s) - n
           /\ \A i \in 1 .. Len(s) - n : SubSeq(s, n + 1, Len(s))[i] = s[n + i]
           /\ SubSeq(s, 1, n) \o SubSeq(s, n + 1, Len(s)) = s
<1>1. PICK l \in Nat : l = Len(s)
  OBVIOUS
<1>2. PICK a : a = SubSeq(s, 1, n)
  OBVIOUS
<1>3. PICK b : b = SubSeq(s, n + 1, l)
  OBVIOUS
<1>4. a \in Seq(S) /\ Len(a) = n /\ \A i \in 1 .. n : a[i] = s[i]
  BY <1>1, <1>2
<1>5. b \in Seq(S) /\ Len(b) = l - n /\ \A i \in 1 .. l - n : b[i] = s[n + i]
  <2>1. \A i \in n + 1 .. l : s[i] \in S
    BY <1>1
  <2>2. /\ b \in Seq(S) /\ Len(b) = (IF n + 1 <= l THEN l - (n + 1) + 1 ELSE 0)
        /\ \A i \in 1 .. l - (n + 1) + 1 : b[i] = s[n + 1 + i - 1]
    BY <1>3, <2>1, SubSeqProperties
  <2>3. \A i \in 1 .. l - n : i \in 1 .. l - (n + 1) + 1 /\ n + 1 + i - 1 = n + i
    BY <1>1
  <2>4. Len(b) = l - n
    BY <1>1, <2>2
  <2> QED  BY <2>2, <2>3, <2>4
<1>6. a \o b = s
  <2>1. PICK c : c = a \o b
    OBVIOUS
  <2>2. PICK x, y : Joins(S, a, b, x, y, c)
    BY <1>4, <1>5, <2>1, Joined
  <2>3. x = n /\ y = l - n /\ c \in Seq(S) /\ Len(c) = l
    BY <1>1, <1>4, <1>5, <2>2 DEF Joins
  <2>4. ASSUME NEW i \in 1 .. l PROVE c[i] = s[i]
    <3>1. CASE i \in 1 .. n
      BY <1>4, <2>2, <2>3, <3>1 DEF Joins
    <3>2. CASE i > n
      <4>1. i - n \in 1 .. l - n /\ n + (i - n) = i
        BY <1>1, <3>2
      <4>2. \A j \in 1 .. l - n : c[n + j] = b[j]
        BY <2>2, <2>3 DEF Joins
      <4> QED  BY <1>5, <4>1, <4>2
    <3> QED  BY <3>1, <3>2
  <2> QED  BY <1>1, <2>1, <2>3, <2>4, SeqEqual
<1> QED  BY <1>1, <1>2, <1>3, <1>4, <1>5, <1>6

-----------------------------------------------------------------------------
(* The wire: where the payloads are, and the ends of lines between them.     *)

Units == [u : {"event", "a", "b", "cr", "lf"}, of : Nat]
A(k) == [u |-> "a", of |-> k]
B(k) == [u |-> "b", of |-> k]
LineEnd(x) == x \in {CR, LF}
Inkless(s) == \A j \in 1 .. Len(s) : s[j].u \notin {"a", "b"}

\* Payload k of what p sends is at c of the tile, and two ends of lines that stay
\* come after it, the second one at c + g (for ollama, one LF).
Tile(p, k, tile, c, g) ==
    /\ tile \in Seq(Units) /\ c \in Nat \ {0} /\ g \in {2, 3, 4} /\ c + g <= Len(tile)
    /\ tile[c] = A(k) /\ tile[c + 1] = B(k)
    /\ \A j \in 1 .. Len(tile) : (tile[j].u = "a" => j = c) /\ (tile[j].u = "b" => j = c + 1)
    /\ \A j \in c + 2 .. c + g : LineEnd(tile[j])
    /\ IF p = "ollama" THEN tile[c + g] = LF
       ELSE g > 2 /\ (tile[c + g] # LF \/ tile[c + g - 1] # CR)

LEMMA UnitFacts ==
    /\ CR \in Units /\ LF \in Units /\ CR # LF /\ CR.u = "cr" /\ LF.u = "lf"
    /\ \A k \in Nat : /\ A(k) \in Units /\ B(k) \in Units /\ A(k).u = "a" /\ B(k).u = "b"
                      /\ A(k).of = k /\ B(k).of = k
    /\ \A k \in Nat : [u |-> "event", of |-> k] \in Units /\ [u |-> "event", of |-> k].u = "event"
BY DEF CR, LF, Units, A, B

LEMMA HalvesAre == ASSUME NEW k PROVE Halves(k) = <<A(k), B(k)>>
BY DEF Halves, A, B

Around(p, k, pre, post, g) ==
    /\ k \in Nat /\ pre \in Seq(Units) /\ post \in Seq(Units) /\ g \in {2, 3, 4} /\ g - 1 <= Len(post)
    /\ Inkless(pre) /\ \A j \in 1 .. Len(post) : LineEnd(post[j])
    /\ IF p = "ollama" THEN post[g - 1] = LF
       ELSE g > 2 /\ (post[g - 1] # LF \/ post[g - 2] # CR)

LEMMA TileOf ==
    ASSUME NEW p, NEW k, NEW pre, NEW post, NEW g, Around(p, k, pre, post, g)
    PROVE  Tile(p, k, (pre \o Halves(k)) \o post, Len(pre) + 1, g)
<1>0. /\ k \in Nat /\ pre \in Seq(Units) /\ post \in Seq(Units) /\ g \in {2, 3, 4} /\ g - 1 <= Len(post)
      /\ Inkless(pre) /\ \A j \in 1 .. Len(post) : LineEnd(post[j])
      /\ IF p = "ollama" THEN post[g - 1] = LF
         ELSE g > 2 /\ (post[g - 1] # LF \/ post[g - 2] # CR)
  BY DEF Around
<1> USE <1>0
<1>1. PICK h : h = Halves(k)
  OBVIOUS
<1>2. h \in Seq(Units) /\ Len(h) = 2 /\ h[1] = A(k) /\ h[2] = B(k)
  <2>1. A(k) \in Units /\ B(k) \in Units
    BY UnitFacts
  <2>2. h = <<A(k), B(k)>>
    BY <1>1, HalvesAre
  <2> QED  BY <2>1, <2>2
<1>3. PICK ph : ph = pre \o h
  OBVIOUS
<1>4. PICK m, two : Joins(Units, pre, h, m, two, ph)
  BY <1>2, <1>3, Joined
<1>5. PICK tile : tile = ph \o post
  OBVIOUS
<1>6. PICK l, n : Joins(Units, ph, post, l, n, tile)
  <2>1. ph \in Seq(Units)
    BY <1>4 DEF Joins
  <2> QED  BY <1>5, <2>1, Joined
<1>7. m \in Nat /\ n \in Nat /\ n = Len(post) /\ m = Len(pre) /\ two = 2 /\ l = m + 2
  BY <1>2, <1>4, <1>6 DEF Joins
<1>8. /\ tile \in Seq(Units) /\ Len(tile) = m + 2 + n
      /\ \A j \in 1 .. n : tile[m + 2 + j] = post[j]
  BY <1>6, <1>7 DEF Joins
<1>9. tile[m + 1] = A(k) /\ tile[m + 2] = B(k) /\ \A j \in 1 .. m : tile[j] = pre[j]
  <2>1. \A j \in 1 .. m + 2 : tile[j] = ph[j]
    BY <1>6, <1>7 DEF Joins
  <2>2. (\A j \in 1 .. m : ph[j] = pre[j]) /\ \A j \in 1 .. 2 : ph[m + j] = h[j]
    BY <1>4, <1>7 DEF Joins
  <2>3. 1 \in 1 .. 2 /\ 2 \in 1 .. 2 /\ m + 1 \in 1 .. m + 2 /\ m + 2 \in 1 .. m + 2 /\ 1 .. m \subseteq 1 .. m + 2
    BY <1>7
  <2> QED  BY <1>2, <2>1, <2>2, <2>3
<1>10. \A j \in 1 .. m + 2 + n : j \in 1 .. m \/ j = m + 1 \/ j = m + 2 \/ \E i \in 1 .. n : j = m + 2 + i
  <2>1. ASSUME NEW j \in 1 .. m + 2 + n, ~(j <= m + 2) PROVE \E i \in 1 .. n : j = m + 2 + i
    <3>1. j - (m + 2) \in 1 .. n /\ j = m + 2 + (j - (m + 2))
      BY <1>7, <2>1
    <3> QED  BY <3>1
  <2>2. ASSUME NEW j \in 1 .. m + 2 + n, j <= m + 2 PROVE j \in 1 .. m \/ j = m + 1 \/ j = m + 2
    BY <1>7, <2>2
  <2> QED  BY <2>1, <2>2
<1>11. ASSUME NEW j \in 1 .. Len(tile) PROVE (tile[j].u = "a" => j = m + 1) /\ (tile[j].u = "b" => j = m + 2)
  <2>1. CASE j \in 1 .. m
    <3>1. tile[j] = pre[j] /\ pre[j].u \notin {"a", "b"}
      BY <1>7, <1>9, <2>1 DEF Inkless
    <3> QED  BY <3>1
  <2>2. CASE j = m + 1 \/ j = m + 2
    <3>1. A(k).u = "a" /\ B(k).u = "b"
      BY UnitFacts
    <3> QED  BY <1>9, <2>2, <3>1
  <2>3. CASE \E i \in 1 .. n : j = m + 2 + i
    <3>1. LineEnd(tile[j])
      BY <1>7, <1>8, <2>3
    <3> QED  BY <3>1, UnitFacts DEF LineEnd
  <2>4. j \in 1 .. m + 2 + n
    BY <1>8
  <2> QED  BY <1>10, <2>1, <2>2, <2>3, <2>4
<1>12. ASSUME NEW j \in m + 3 .. m + 1 + g PROVE LineEnd(tile[j])
  <2>1. j - (m + 2) \in 1 .. n /\ j = m + 2 + (j - (m + 2))
    BY <1>7
  <2> QED  BY <1>7, <1>8, <2>1
<1>13. tile[m + 1 + g] = post[g - 1]
  <2>1. g - 1 \in 1 .. n /\ m + 1 + g = m + 2 + (g - 1)
    BY <1>7
  <2> QED  BY <1>8, <2>1
<1>14. g > 2 => tile[m + 1 + g - 1] = post[g - 2]
  <2>1. g > 2 => g - 2 \in 1 .. n /\ m + 1 + g - 1 = m + 2 + (g - 2)
    BY <1>7
  <2> QED  BY <1>8, <2>1
<1>15. m + 1 \in Nat \ {0} /\ m + 1 + g <= Len(tile) /\ m + 1 + 1 = m + 2 /\ m + 1 + 2 = m + 3
  BY <1>7, <1>8
<1>16. IF p = "ollama" THEN tile[m + 1 + g] = LF
       ELSE g > 2 /\ (tile[m + 1 + g] # LF \/ tile[m + 1 + g - 1] # CR)
  BY <1>13, <1>14
<1>17. Tile(p, k, tile, m + 1, g)
  BY <1>8, <1>9, <1>11, <1>12, <1>15, <1>16 DEF Tile
<1> QED  BY <1>1, <1>3, <1>5, <1>7, <1>17

LEMMA SentIsTile ==
    ASSUME NEW k \in Nat, NEW p, NEW nl \in {<<LF>>, <<CR, LF>>}
    PROVE  \E c, g : Tile(p, k, Sent(p, k, nl), c, g)
<1>1. PICK e : e = <<[u |-> "event", of |-> k]>>
  OBVIOUS
<1>2. PICK h : h = Halves(k)
  OBVIOUS
<1>3. e \in Seq(Units) /\ Len(e) = 1 /\ e[1].u = "event" /\ h \in Seq(Units) /\ nl \in Seq(Units)
  <2>1. A(k) \in Units /\ B(k) \in Units /\ CR \in Units /\ LF \in Units
    BY UnitFacts
  <2>2. h = <<A(k), B(k)>>
    BY <1>2, HalvesAre
  <2>3. [u |-> "event", of |-> k] \in Units /\ [u |-> "event", of |-> k].u = "event"
    BY UnitFacts
  <2>4. PICK x \in Units : x = [u |-> "event", of |-> k] /\ x.u = "event"
    BY <2>3
  <2>5. e = <<x>>
    BY <1>1, <2>4
  <2>6. nl \in Seq(Units)
    <3>1. <<LF>> \in Seq(Units)
      BY <2>1
    <3>2. <<CR, LF>> \in Seq(Units)
      BY <2>1
    <3> QED  BY <3>1, <3>2
  <2> QED  BY <2>1, <2>2, <2>4, <2>5, <2>6
<1>4. PICK l \in {1, 2} : l = Len(nl) /\ nl[l] = LF /\ (l = 2 => nl[1] = CR)
                          /\ \A j \in 1 .. l : LineEnd(nl[j])
  BY DEF LineEnd
<1>5. PICK two : two = nl \o nl
  OBVIOUS
<1>6. PICK m, n : Joins(Units, nl, nl, m, n, two)
  BY <1>3, <1>5, Joined
<1>7. m = l /\ n = l /\ two \in Seq(Units) /\ Len(two) = l + l
  BY <1>4, <1>6 DEF Joins
<1>8. (\A j \in 1 .. l : two[j] = nl[j]) /\ \A j \in 1 .. l : two[l + j] = nl[j]
  BY <1>6, <1>7 DEF Joins
<1>9. \A j \in 1 .. Len(two) : LineEnd(two[j])
  <2>1. \A j \in 1 .. l + l : j \in 1 .. l \/ \E i \in 1 .. l : j = l + i
    BY <1>6, <1>7 DEF Joins
  <2>2. ASSUME NEW j \in 1 .. l + l PROVE LineEnd(two[j])
    <3>1. CASE j \in 1 .. l
      BY <1>4, <1>8, <3>1
    <3>2. CASE \E i \in 1 .. l : j = l + i
      BY <1>4, <1>8, <3>2
    <3> QED  BY <2>1, <3>1, <3>2
  <2> QED  BY <1>7, <2>2
<1>10. two[l + 1] # LF \/ two[l] # CR
  BY <1>4, <1>8, UnitFacts
<1>11. <<>> \in Seq(Units) /\ Inkless(<<>>)
  BY DEF Inkless
<1>12. CASE p = "anthropic"
  <2>1. PICK pre : pre = e \o nl
    OBVIOUS
  <2>2. PICK a, b : Joins(Units, e, nl, a, b, pre)
    BY <1>3, <2>1, Joined
  <2>3. pre \in Seq(Units) /\ Len(pre) = 1 + l /\ a = 1 /\ b = l
    BY <1>3, <1>4, <2>2 DEF Joins
  <2>4. Inkless(pre)
    <3>1. \A j \in 1 .. 1 + l : j \in 1 .. 1 \/ \E i \in 1 .. l : j = 1 + i
      BY <2>2, <2>3 DEF Joins
    <3>2. pre[1].u = "event" /\ \A i \in 1 .. l : LineEnd(pre[1 + i])
      BY <1>3, <1>4, <2>2, <2>3 DEF Joins
    <3>3. \A x : LineEnd(x) => x.u \notin {"a", "b"}
      BY UnitFacts DEF LineEnd
    <3> QED  BY <2>3, <3>1, <3>2, <3>3 DEF Inkless
  <2>5. Sent(p, k, nl) = (((e \o nl) \o h) \o nl) \o nl
    BY <1>1, <1>2, <1>3, <1>12, ConcatAssociative DEF Sent
  <2>6. ((pre \o h) \o nl) \o nl = (pre \o h) \o two
    <3>1. pre \o h \in Seq(Units)
      BY <1>3, <2>3
    <3>2. \A s \in Seq(Units) : (s \o nl) \o nl = s \o (nl \o nl)
      BY <1>3, ConcatAssociative
    <3> QED  BY <1>5, <3>1, <3>2
  <2>7. l + 2 \in {2, 3, 4} /\ l + 2 - 1 <= Len(two) /\ l + 2 > 2 /\ l + 2 - 1 = l + 1 /\ l + 2 - 2 = l
    BY <1>7
  <2>8. Tile(p, k, (pre \o Halves(k)) \o two, Len(pre) + 1, l + 2)
    <3>1. IF p = "ollama" THEN two[l + 2 - 1] = LF
          ELSE l + 2 > 2 /\ (two[l + 2 - 1] # LF \/ two[l + 2 - 2] # CR)
      BY <1>10, <1>12, <2>7
    <3>2. Around(p, k, pre, two, l + 2)
      BY <1>7, <1>9, <2>3, <2>4, <2>7, <3>1 DEF Around
    <3> QED  BY <3>2, TileOf
  <2> QED  BY <1>2, <2>1, <2>5, <2>6, <2>8
<1>13. CASE p = "ollama"
  <2>1. Sent(p, k, nl) = (<<>> \o h) \o nl
    BY <1>2, <1>3, <1>13 DEF Sent
  <2>2. l + 1 \in {2, 3, 4} /\ l + 1 - 1 <= Len(nl) /\ l + 1 - 1 = l
    BY <1>4
  <2>3. Tile(p, k, (<<>> \o Halves(k)) \o nl, Len(<<>>) + 1, l + 1)
    <3>1. IF p = "ollama" THEN nl[l + 1 - 1] = LF
          ELSE l + 1 > 2 /\ (nl[l + 1 - 1] # LF \/ nl[l + 1 - 2] # CR)
      BY <1>4, <1>13, <2>2
    <3>2. \A j \in 1 .. Len(nl) : LineEnd(nl[j])
      BY <1>4
    <3>3. Around(p, k, <<>>, nl, l + 1)
      BY <1>3, <1>11, <2>2, <3>1, <3>2 DEF Around
    <3> QED  BY <3>3, TileOf
  <2> QED  BY <1>2, <2>1, <2>3
<1>14. CASE p \notin {"anthropic", "ollama"}
  <2>1. Sent(p, k, nl) = (h \o nl) \o nl
    BY <1>2, <1>14 DEF Sent
  <2>2. (h \o nl) \o nl = (<<>> \o h) \o two
    BY <1>3, <1>5, ConcatAssociative, ConcatEmptySeq
  <2>3. l + 2 \in {2, 3, 4} /\ l + 2 - 1 <= Len(two) /\ l + 2 > 2 /\ l + 2 - 1 = l + 1 /\ l + 2 - 2 = l
    BY <1>7
  <2>4. Tile(p, k, (<<>> \o Halves(k)) \o two, Len(<<>>) + 1, l + 2)
    <3>1. IF p = "ollama" THEN two[l + 2 - 1] = LF
          ELSE l + 2 > 2 /\ (two[l + 2 - 1] # LF \/ two[l + 2 - 2] # CR)
      BY <1>10, <1>14, <2>3
    <3>2. Around(p, k, <<>>, two, l + 2)
      BY <1>7, <1>9, <1>11, <2>3, <3>1 DEF Around
    <3> QED  BY <3>2, TileOf
  <2> QED  BY <1>2, <2>1, <2>2, <2>4
<1> QED  BY <1>12, <1>13, <1>14

-----------------------------------------------------------------------------
(* The order on the way: w is what is buffered, the first m units, and what   *)
(* has not arrived; payloads 1 to n of N have been taken from it.             *)

\* Position q gives an end of line however what has not arrived is cut.
Stays(w, m, q) == q <= m + 1 \/ w[q] # LF \/ w[q - 1] # CR

\* A separator comes between the payloads at i and at j.
Apart(p, w, m, i, j) ==
    IF p = "ollama" THEN \E s \in i + 2 .. j - 1 : w[s] = LF
    ELSE \E s, t \in i + 2 .. j - 1 :
             /\ s < t /\ Stays(w, m, s) /\ Stays(w, m, t)
             /\ \A q \in s .. t : LineEnd(w[q])

InOrder(p, w, m, n, N) ==
    /\ w \in Seq(Units) /\ n \in Nat /\ N \in Nat /\ m \in Nat /\ m <= Len(w) /\ n <= N
    /\ \A i \in 1 .. Len(w) : w[i].u = "a" =>
           w[i].of \in n + 1 .. N /\ i < Len(w) /\ w[i] = A(w[i].of) /\ w[i + 1] = B(w[i].of)
    /\ \A i \in 1 .. Len(w) : w[i].u = "b" => i > 1 /\ w[i] = B(w[i].of) /\ w[i - 1] = A(w[i].of)
    /\ \A k \in n + 1 .. N : \E i \in 1 .. Len(w) : w[i] = A(k)
    /\ \A i, j \in 1 .. Len(w) : i < j /\ w[i].u = "a" /\ w[j].u = "a" =>
           w[i].of < w[j].of /\ Apart(p, w, m, i, j)
    /\ p # "ollama" => \A i \in 1 .. m : w[i] # CR

\* Tile k lies in f after x, up to y, and its payload is at i.
Laid(p, f, k, x, y, i, g) ==
    /\ x \in Nat /\ y \in Nat /\ i \in Nat /\ g \in {2, 3, 4}
    /\ x < i /\ i + g <= y /\ y <= Len(f)
    /\ f[i] = A(k) /\ f[i + 1] = B(k)
    /\ \A q \in x + 1 .. y : (f[q].u = "a" => q = i) /\ (f[q].u = "b" => q = i + 1)
    /\ \A q \in i + 2 .. i + g : LineEnd(f[q])
    /\ IF p = "ollama" THEN f[i + g] = LF
       ELSE g > 2 /\ (f[i + g] # LF \/ f[i + g - 1] # CR)

LEMMA LaidOf ==
    ASSUME NEW p, NEW f, NEW k, NEW tile, NEW x \in Nat, NEW y \in Nat, NEW c, NEW g,
           Tile(p, k, tile, c, g), y = x + Len(tile), y <= Len(f),
           \A j \in 1 .. Len(tile) : f[x + j] = tile[j]
    PROVE  Laid(p, f, k, x, y, x + c, g)
<1>1. PICK l \in Nat : l = Len(tile)
  BY DEF Tile
<1>2. c \in Nat \ {0} /\ g \in {2, 3, 4} /\ c + g <= l
  BY <1>1 DEF Tile
<1>3. \A j \in 1 .. l : f[x + j] = tile[j]
  BY <1>1
<1>4. f[x + c] = A(k) /\ f[x + c + 1] = B(k)
  <2>1. c \in 1 .. l /\ c + 1 \in 1 .. l /\ x + (c + 1) = x + c + 1
    BY <1>2
  <2>2. tile[c] = A(k) /\ tile[c + 1] = B(k)
    BY DEF Tile
  <2> QED  BY <1>3, <2>1, <2>2
<1>5. ASSUME NEW q \in x + 1 .. y PROVE (f[q].u = "a" => q = x + c) /\ (f[q].u = "b" => q = x + c + 1)
  <2>1. PICK j \in 1 .. l : q = x + j
    <3>1. q - x \in 1 .. l /\ q = x + (q - x)
      BY <1>1
    <3> QED  BY <3>1
  <2>2. f[q] = tile[j] /\ (tile[j].u = "a" => j = c) /\ (tile[j].u = "b" => j = c + 1)
    BY <1>1, <1>3, <2>1 DEF Tile
  <2> QED  BY <1>2, <2>1, <2>2
<1>6. ASSUME NEW q \in x + c + 2 .. x + c + g PROVE LineEnd(f[q])
  <2>1. q - x \in 1 .. l /\ q - x \in c + 2 .. c + g /\ q = x + (q - x)
    BY <1>2
  <2> QED  BY <1>3, <2>1 DEF Tile
<1>7. f[x + c + g] = tile[c + g] /\ f[x + c + g - 1] = tile[c + g - 1]
  <2>1. c + g \in 1 .. l /\ c + g - 1 \in 1 .. l /\ x + (c + g) = x + c + g /\ x + (c + g - 1) = x + c + g - 1
    BY <1>2
  <2> QED  BY <1>3, <2>1
<1>8. x + c \in Nat /\ x < x + c /\ x + c + g <= y
  BY <1>1, <1>2
<1> QED  BY <1>2, <1>4, <1>5, <1>6, <1>7, <1>8 DEF Laid, Tile

LEMMA SentInOrder ==
    ASSUME NEW p, NEW N \in Nat, NEW nl \in {<<LF>>, <<CR, LF>>}
    PROVE  InOrder(p, FlattenSeq([k \in 1 .. N |-> Sent(p, k, nl)]), 0, 0, N)
<1>1. PICK ss : ss = [k \in 1 .. N |-> Sent(p, k, nl)]
  OBVIOUS
<1>2. \A k \in 1 .. N : \E c, g : Tile(p, k, ss[k], c, g)
  <2>1. ASSUME NEW k \in 1 .. N PROVE \E c, g : Tile(p, k, ss[k], c, g)
    <3>1. k \in Nat
      OBVIOUS
    <3>2. ss[k] = Sent(p, k, nl)
      BY <1>1
    <3> QED  BY <3>1, <3>2, SentIsTile
  <2> QED  BY <2>1
<1>3. ss \in Seq(Seq(Units)) /\ Len(ss) = N
  <2>1. \A k \in 1 .. N : ss[k] \in Seq(Units)
    BY <1>2 DEF Tile
  <2> QED  BY <1>1, <2>1
<1>4. PICK f : f = FlattenSeq(ss)
  OBVIOUS
<1>5. f \in Seq(Units) /\ \E off \in [1 .. Len(ss) + 1 -> Nat] : Places(ss, f, off)
  BY <1>3, <1>4, Flattened
<1>6. PICK off \in [1 .. N + 1 -> Nat] : Places(ss, f, off)
  BY <1>3, <1>5
<1>7. PICK L \in Nat : L = Len(f)
  BY <1>5
<1>8. /\ L = off[N + 1]
      /\ \A k, l \in 1 .. N + 1 : k <= l => off[k] <= off[l]
  BY <1>3, <1>6, <1>7 DEF Places
<1>9. \A k \in 1 .. N : \E i, g : Laid(p, f, k, off[k], off[k + 1], i, g)
  <2>1. ASSUME NEW k \in 1 .. N PROVE \E i, g : Laid(p, f, k, off[k], off[k + 1], i, g)
    <3>1. PICK c, g : Tile(p, k, ss[k], c, g)
      BY <1>2
    <3>2. off[k] \in Nat /\ off[k + 1] \in Nat /\ off[k + 1] <= L
      <4>1. k \in 1 .. N + 1 /\ k + 1 \in 1 .. N + 1 /\ N + 1 \in 1 .. N + 1 /\ k + 1 <= N + 1
        OBVIOUS
      <4> QED  BY <1>8, <4>1
    <3>3. off[k + 1] = off[k] + Len(ss[k]) /\ \A j \in 1 .. Len(ss[k]) : f[off[k] + j] = ss[k][j]
      BY <1>3, <1>6 DEF Places
    <3>4. Laid(p, f, k, off[k], off[k + 1], off[k] + c, g)
      BY <1>7, <3>1, <3>2, <3>3, LaidOf
    <3> QED  BY <3>4
  <2> QED  BY <2>1
<1>10. \A q \in 1 .. L : \E k \in 1 .. N : q \in off[k] + 1 .. off[k + 1]
  <2>1. ASSUME NEW q \in 1 .. L PROVE \E k \in 1 .. N : q \in off[k] + 1 .. off[k + 1]
    <3>1. PICK k \in 1 .. N : \E j \in 1 .. Len(ss[k]) : q = off[k] + j
      BY <1>3, <1>6, <1>7 DEF Places
    <3>2. off[k + 1] = off[k] + Len(ss[k]) /\ off[k] \in Nat /\ off[k + 1] \in Nat
      <4>1. k \in 1 .. N + 1 /\ k + 1 \in 1 .. N + 1
        OBVIOUS
      <4> QED  BY <1>3, <1>6, <4>1 DEF Places
    <3>3. PICK x \in Nat : x = off[k]
      BY <3>2
    <3>4. PICK l \in Nat : l = Len(ss[k])
      BY <1>3
    <3>5. PICK j \in 1 .. l : q = x + j
      BY <3>1, <3>3, <3>4
    <3>6. q \in x + 1 .. x + l
      BY <3>5
    <3> QED  BY <3>2, <3>3, <3>4, <3>6
  <2> QED  BY <2>1
<1>11. \A i \in 1 .. L : f[i].u \in {"a", "b"} => \E k \in 1 .. N : \E z, g :
           /\ Laid(p, f, k, off[k], off[k + 1], z, g)
           /\ (f[i].u = "a" => i = z) /\ (f[i].u = "b" => i = z + 1)
  <2>1. ASSUME NEW i \in 1 .. L, f[i].u \in {"a", "b"}
        PROVE  \E k \in 1 .. N : \E z, g : Laid(p, f, k, off[k], off[k + 1], z, g)
                   /\ (f[i].u = "a" => i = z) /\ (f[i].u = "b" => i = z + 1)
    <3>1. PICK k \in 1 .. N : i \in off[k] + 1 .. off[k + 1]
      BY <1>10
    <3>2. PICK z, g : Laid(p, f, k, off[k], off[k + 1], z, g)
      BY <1>9
    <3> QED  BY <3>1, <3>2 DEF Laid
  <2> QED  BY <2>1
<1>12. \A k \in 1 .. N : off[k] \in Nat /\ off[k + 1] \in Nat
  <2>1. \A k \in 1 .. N : k \in 1 .. N + 1 /\ k + 1 \in 1 .. N + 1
    OBVIOUS
  <2> QED  BY <2>1
<1>13. \A x \in Nat : A(x).u = "a" /\ B(x).u = "b" /\ A(x).of = x /\ B(x).of = x
  BY UnitFacts
<1>14. ASSUME NEW i \in 1 .. L, f[i].u = "a"
       PROVE  f[i].of \in 0 + 1 .. N /\ i < L /\ f[i] = A(f[i].of) /\ f[i + 1] = B(f[i].of)
  <2>1. PICK k \in 1 .. N : \E z, g : Laid(p, f, k, off[k], off[k + 1], z, g) /\ i = z
    BY <1>11, <1>14
  <2>2. PICK g : Laid(p, f, k, off[k], off[k + 1], i, g)
    BY <2>1
  <2>3. f[i] = A(k) /\ f[i + 1] = B(k) /\ i < L
    BY <1>7, <1>12, <2>2 DEF Laid
  <2> QED  BY <1>13, <2>3
<1>15. ASSUME NEW i \in 1 .. L, f[i].u = "b"
       PROVE  i > 1 /\ f[i] = B(f[i].of) /\ f[i - 1] = A(f[i].of)
  <2>1. PICK k \in 1 .. N : \E z, g : Laid(p, f, k, off[k], off[k + 1], z, g) /\ i = z + 1
    BY <1>11, <1>15
  <2>2. PICK z, g : Laid(p, f, k, off[k], off[k + 1], z, g) /\ i = z + 1
    BY <2>1
  <2>3. z \in Nat /\ z > 0 /\ f[z] = A(k) /\ f[z + 1] = B(k)
    BY <1>12, <2>2 DEF Laid
  <2>4. i - 1 = z /\ i > 1
    BY <2>2, <2>3
  <2> QED  BY <1>13, <2>2, <2>3, <2>4
<1>16. ASSUME NEW k \in 0 + 1 .. N PROVE \E i \in 1 .. L : f[i] = A(k)
  <2>0. k \in 1 .. N
    OBVIOUS
  <2>1. PICK z, g : Laid(p, f, k, off[k], off[k + 1], z, g)
    BY <1>9, <2>0
  <2>2. z \in 1 .. L /\ f[z] = A(k)
    BY <1>7, <1>12, <2>0, <2>1 DEF Laid
  <2> QED  BY <2>2
<1>17. ASSUME NEW i \in 1 .. L, NEW j \in 1 .. L, i < j, f[i].u = "a", f[j].u = "a"
       PROVE  f[i].of < f[j].of /\ Apart(p, f, 0, i, j)
  <2>1. PICK k \in 1 .. N : \E z, g : Laid(p, f, k, off[k], off[k + 1], z, g) /\ i = z
    BY <1>11, <1>17
  <2>2. PICK g : Laid(p, f, k, off[k], off[k + 1], i, g)
    BY <2>1
  <2>3. PICK l \in 1 .. N : \E z, e : Laid(p, f, l, off[l], off[l + 1], z, e) /\ j = z
    BY <1>11, <1>17
  <2>4. PICK e : Laid(p, f, l, off[l], off[l + 1], j, e)
    BY <2>3
  <2>5. PICK x \in Nat : x = off[k + 1]
    BY <1>12
  <2>6. PICK y \in Nat : y = off[l]
    BY <1>12
  <2>7. i + g <= x /\ y < j /\ g \in {2, 3, 4}
    BY <2>2, <2>4, <2>5, <2>6 DEF Laid
  <2>8. f[i] = A(k) /\ f[j] = A(l) /\ f[i + 1] = B(k)
    BY <2>2, <2>4 DEF Laid
  <2>9. k # l
    <3>1. PICK w \in Nat : w = off[k]
      BY <1>12
    <3>2. w < i /\ \A q \in w + 1 .. x : f[q].u = "a" => q = i
      BY <2>2, <2>5, <3>1 DEF Laid
    <3>3. k = l => w = y /\ j <= x
      BY <2>4, <2>5, <2>6, <3>1 DEF Laid
    <3>4. k = l => j \in w + 1 .. x
      BY <2>7, <3>3
    <3> QED  BY <1>17, <3>2, <3>4
  <2>10. ~(l < k)
    <3>1. ASSUME l < k PROVE FALSE
      <4>1. PICK v \in Nat : v = off[l + 1]
        BY <1>12
      <4>2. PICK w \in Nat : w = off[k]
        BY <1>12
      <4>3. l + 1 \in 1 .. N + 1 /\ k \in 1 .. N + 1 /\ l + 1 <= k
        BY <3>1
      <4>4. v <= w
        BY <1>8, <4>1, <4>2, <4>3
      <4>5. w < i
        BY <2>2, <4>2 DEF Laid
      <4>6. j <= v
        BY <2>4, <4>1 DEF Laid
      <4> QED  BY <1>17, <4>4, <4>5, <4>6
    <3> QED  BY <3>1
  <2>11. k < l /\ x <= y
    <3>1. k < l
      BY <2>9, <2>10
    <3>2. k + 1 \in 1 .. N + 1 /\ l \in 1 .. N + 1 /\ k + 1 <= l
      BY <3>1
    <3> QED  BY <1>8, <2>5, <2>6, <3>1, <3>2
  <2>12. /\ \A q \in i + 2 .. i + g : LineEnd(f[q])
         /\ IF p = "ollama" THEN f[i + g] = LF
            ELSE g > 2 /\ (f[i + g] # LF \/ f[i + g - 1] # CR)
    BY <2>2 DEF Laid
  <2>13. Apart(p, f, 0, i, j)
    <3>1. i + g \in i + 2 .. j - 1 /\ i + 2 \in i + 2 .. j - 1
      BY <2>7, <2>11
    <3>2. CASE p = "ollama"
      BY <2>12, <3>1, <3>2 DEF Apart
    <3>3. CASE p # "ollama"
      <4>1. i + 2 < i + g
        BY <2>7, <2>12, <3>3
      <4>2. i + 2 - 1 = i + 1 /\ B(k) # CR
        BY <1>13, UnitFacts
      <4>3. Stays(f, 0, i + 2)
        <5>1. f[i + 2 - 1] = B(k)
          BY <2>8, <4>2
        <5> QED  BY <4>2, <5>1 DEF Stays
      <4>4. Stays(f, 0, i + g)
        <5>1. f[i + g] # LF \/ f[i + g - 1] # CR
          BY <2>12, <3>3
        <5>2. i + g - 1 = (i + g) - 1
          BY <2>7
        <5> QED  BY <5>1, <5>2 DEF Stays
      <4> QED  BY <2>12, <3>1, <3>3, <4>1, <4>3, <4>4 DEF Apart
    <3> QED  BY <3>2, <3>3
  <2> QED  BY <1>13, <2>8, <2>11, <2>13
<1>18. InOrder(p, f, 0, 0, N)
  <2>1. 0 \in Nat /\ 0 <= Len(f) /\ 0 <= N /\ (p # "ollama" => \A i \in 1 .. 0 : f[i] # CR)
    BY <1>7
  <2> QED  BY <1>5, <1>7, <1>14, <1>15, <1>16, <1>17, <2>1 DEF InOrder
<1> QED  BY <1>1, <1>4, <1>18

\* No separator ends within the first e units.
Unbroken(p, w, e) ==
    IF p = "ollama" THEN \A s \in 1 .. e : w[s] # LF
    ELSE \A s \in 1 .. e - 1 : ~(w[s] = LF /\ w[s + 1] = LF)

\* The payload that a frame has, if any, is the next one.
LEMMA NextInFrame ==
    ASSUME NEW p, NEW w, NEW m, NEW n, NEW N, InOrder(p, w, m, n, N),
           NEW e \in Nat, e <= m, Unbroken(p, w, e), NEW i \in 1 .. e, w[i].u = "a"
    PROVE  /\ w[i] = A(n + 1) /\ n + 1 <= N /\ w[i + 1] = B(n + 1)
           /\ \A j \in 1 .. e : w[j].u = "a" => j = i
<1>1. PICK L \in Nat : L = Len(w)
  BY DEF InOrder
<1>2. n \in Nat /\ N \in Nat /\ m \in Nat /\ m <= L
  BY <1>1 DEF InOrder
<1>3. \A x \in 1 .. e : x \in 1 .. L /\ x \in 1 .. m
  BY <1>2
<1>4. \A x, y \in 1 .. L : x < y /\ w[x].u = "a" /\ w[y].u = "a" =>
          w[x].of < w[y].of /\ Apart(p, w, m, x, y)
  BY <1>1 DEF InOrder
<1>5. ASSUME NEW x \in 1 .. e, NEW y \in 1 .. e, x < y, w[x].u = "a", w[y].u = "a" PROVE FALSE
  <2>1. Apart(p, w, m, x, y)
    BY <1>3, <1>4, <1>5
  <2>2. CASE p = "ollama"
    <3>1. PICK s \in x + 2 .. y - 1 : w[s] = LF
      BY <2>1, <2>2 DEF Apart
    <3>2. s \in 1 .. e
      OBVIOUS
    <3> QED  BY <2>2, <3>1, <3>2 DEF Unbroken
  <2>3. CASE p # "ollama"
    <3>1. PICK s \in x + 2 .. y - 1, t \in x + 2 .. y - 1 : s < t /\ \A q \in s .. t : LineEnd(w[q])
      BY <2>1, <2>3 DEF Apart
    <3>2. s \in 1 .. m /\ s + 1 \in 1 .. m /\ s \in 1 .. e - 1 /\ s \in s .. t /\ s + 1 \in s .. t
      BY <1>2, <3>1
    <3>3. \A q \in 1 .. m : w[q] # CR
      BY <2>3 DEF InOrder
    <3>4. w[s] = LF /\ w[s + 1] = LF
      BY <3>1, <3>2, <3>3 DEF LineEnd
    <3> QED  BY <2>3, <3>2, <3>4 DEF Unbroken
  <2> QED  BY <2>2, <2>3
<1>6. \A j \in 1 .. e : w[j].u = "a" => j = i
  <2>1. ASSUME NEW j \in 1 .. e, w[j].u = "a" PROVE j = i
    <3>1. ~(i < j) /\ ~(j < i)
      BY <1>5, <2>1
    <3> QED  BY <3>1
  <2> QED  BY <2>1
<1>7. PICK k \in n + 1 .. N : w[i] = A(k) /\ w[i + 1] = B(k)
  <2>1. i \in 1 .. Len(w)
    BY <1>1, <1>3
  <2> QED  BY <2>1 DEF InOrder
<1>8. k = n + 1
  <2>1. ASSUME k # n + 1 PROVE FALSE
    <3>1. n + 1 \in n + 1 .. N /\ n + 1 < k
      BY <1>2, <2>1
    <3>2. PICK j \in 1 .. L : w[j] = A(n + 1)
      BY <1>1, <3>1 DEF InOrder
    <3>3. w[j].u = "a" /\ w[j].of = n + 1 /\ w[i].of = k
      BY <1>2, <1>7, <3>2, UnitFacts
    <3>4. ~(i < j)
      BY <1>2, <1>3, <1>4, <3>1, <3>3
    <3>5. j \in 1 .. e
      BY <3>4
    <3> QED  BY <1>6, <3>1, <3>3, <3>5
  <2> QED  BY <2>1
<1> QED  BY <1>2, <1>6, <1>7, <1>8

\* What is left is in order when the first d units, with the payloads up to l, go.
Drops(w, m, n, N, d, l, v) ==
    /\ d \in Nat /\ d <= m /\ l \in Nat /\ n <= l /\ l <= N
    /\ \A i \in 1 .. Len(w) : w[i].u = "a" => (i <= d <=> w[i].of <= l)
    /\ d < Len(w) => w[d + 1].u # "b"
    /\ v \in Seq(Units) /\ Len(v) = Len(w) - d /\ \A i \in 1 .. Len(v) : v[i] = w[d + i]

LEMMA DropInOrder ==
    ASSUME NEW p, NEW w, NEW m, NEW n, NEW N, InOrder(p, w, m, n, N),
           NEW d, NEW l, NEW v, Drops(w, m, n, N, d, l, v)
    PROVE  InOrder(p, v, m - d, l, N)
<1>0. d \in Nat /\ d <= m /\ l \in Nat /\ n <= l /\ l <= N
  BY DEF Drops
<1>a. /\ \A i \in 1 .. Len(w) : w[i].u = "a" => (i <= d <=> w[i].of <= l)
      /\ d < Len(w) => w[d + 1].u # "b"
      /\ v \in Seq(Units) /\ Len(v) = Len(w) - d /\ \A i \in 1 .. Len(v) : v[i] = w[d + i]
  BY DEF Drops
<1> USE <1>0
<1>1. PICK L \in Nat : L = Len(w)
  BY DEF InOrder
<1>2. PICK M \in Nat : M = Len(v)
  <2>1. v \in Seq(Units)
    BY <1>a
  <2> QED  BY <2>1
<1>3. n \in Nat /\ N \in Nat /\ m \in Nat /\ m <= L /\ M = L - d
  BY <1>1, <1>2, <1>a DEF InOrder
<1>4. \A i \in 1 .. M : v[i] = w[d + i] /\ d + i \in 1 .. L
  BY <1>2, <1>3, <1>a
<1>5. ASSUME NEW i \in 1 .. M, v[i].u = "a"
      PROVE  v[i].of \in l + 1 .. N /\ i < M /\ v[i] = A(v[i].of) /\ v[i + 1] = B(v[i].of)
  <2>1. v[i] = w[d + i] /\ d + i \in 1 .. L /\ d + i > d
    BY <1>4
  <2>2. w[d + i].of \in n + 1 .. N /\ d + i < L /\ w[d + i] = A(w[d + i].of) /\ w[d + i + 1] = B(w[d + i].of)
    BY <1>1, <1>5, <2>1 DEF InOrder
  <2>3. ~(w[d + i].of <= l)
    BY <1>1, <1>5, <1>a, <2>1
  <2>4. i + 1 \in 1 .. M /\ d + (i + 1) = d + i + 1 /\ i < M
    BY <1>3, <2>2
  <2>5. v[i + 1] = w[d + i + 1]
    BY <1>4, <2>4
  <2>6. w[d + i].of \in l + 1 .. N
    <3>1. PICK k \in n + 1 .. N : k = w[d + i].of
      BY <2>2
    <3>2. ~(k <= l)
      BY <2>3, <3>1
    <3>3. k \in l + 1 .. N
      BY <1>3, <3>2
    <3> QED  BY <3>1, <3>3
  <2> QED  BY <2>1, <2>2, <2>4, <2>5, <2>6
<1>6. ASSUME NEW i \in 1 .. M, v[i].u = "b"
      PROVE  i > 1 /\ v[i] = B(v[i].of) /\ v[i - 1] = A(v[i].of)
  <2>1. v[i] = w[d + i] /\ d + i \in 1 .. L
    BY <1>4
  <2>2. w[d + i] = B(w[d + i].of) /\ w[(d + i) - 1] = A(w[d + i].of)
    BY <1>1, <1>6, <2>1 DEF InOrder
  <2>3. i # 1
    BY <1>1, <1>3, <1>6, <1>a, <2>1
  <2>4. i - 1 \in 1 .. M /\ d + (i - 1) = (d + i) - 1
    BY <2>3
  <2>5. v[i - 1] = w[(d + i) - 1]
    BY <1>4, <2>4
  <2> QED  BY <2>1, <2>2, <2>3, <2>5
<1>7. ASSUME NEW k \in l + 1 .. N PROVE \E i \in 1 .. M : v[i] = A(k)
  <2>1. k \in n + 1 .. N /\ k \in Nat
    BY <1>3
  <2>2. PICK j \in 1 .. L : w[j] = A(k)
    BY <1>1, <2>1 DEF InOrder
  <2>3. w[j].u = "a" /\ w[j].of = k
    BY <2>1, <2>2, UnitFacts
  <2>4. ~(j <= d)
    BY <1>1, <1>a, <2>3
  <2>5. j - d \in 1 .. M /\ d + (j - d) = j
    BY <1>3, <2>4
  <2>6. v[j - d] = A(k)
    BY <1>4, <2>2, <2>5
  <2> QED  BY <2>5, <2>6
<1>8. ASSUME NEW i \in 1 .. M, NEW j \in 1 .. M, i < j, v[i].u = "a", v[j].u = "a"
      PROVE  v[i].of < v[j].of /\ Apart(p, v, m - d, i, j)
  <2>1. v[i] = w[d + i] /\ d + i \in 1 .. L /\ v[j] = w[d + j] /\ d + j \in 1 .. L /\ d + i < d + j
    BY <1>4, <1>8
  <2>2. w[d + i].of < w[d + j].of /\ Apart(p, w, m, d + i, d + j)
    BY <1>1, <1>8, <2>1 DEF InOrder
  <2>3. \A s \in d + i + 2 .. d + j - 1 : s - d \in i + 2 .. j - 1 /\ s - d \in 1 .. M /\ s - d - 1 \in 1 .. M
                                          /\ v[s - d] = w[s] /\ v[s - d - 1] = w[s - 1]
    <3>1. ASSUME NEW s \in d + i + 2 .. d + j - 1
          PROVE  s - d \in i + 2 .. j - 1 /\ s - d \in 1 .. M /\ s - d - 1 \in 1 .. M
                 /\ v[s - d] = w[s] /\ v[s - d - 1] = w[s - 1]
      <4>1. s - d \in i + 2 .. j - 1 /\ s - d \in 1 .. M /\ s - d - 1 \in 1 .. M
            /\ d + (s - d) = s /\ d + (s - d - 1) = s - 1
        BY <1>3
      <4> QED  BY <1>4, <4>1
    <3> QED  BY <3>1
  <2>4. CASE p = "ollama"
    <3>1. PICK s \in d + i + 2 .. d + j - 1 : w[s] = LF
      BY <2>2, <2>4 DEF Apart
    <3> QED  BY <2>1, <2>2, <2>3, <2>4, <3>1 DEF Apart
  <2>5. CASE p # "ollama"
    <3>1. PICK s \in d + i + 2 .. d + j - 1, t \in d + i + 2 .. d + j - 1 :
              /\ s < t /\ Stays(w, m, s) /\ Stays(w, m, t)
              /\ \A q \in s .. t : LineEnd(w[q])
      BY <2>2, <2>5 DEF Apart
    <3>2. ASSUME NEW q \in d + i + 2 .. d + j - 1, Stays(w, m, q) PROVE Stays(v, m - d, q - d)
      <4>1. q <= m + 1 => q - d <= m - d + 1
        BY <1>3
      <4>2. v[q - d] = w[q] /\ v[q - d - 1] = w[q - 1]
        BY <2>3
      <4> QED  BY <3>2, <4>1, <4>2 DEF Stays
    <3>3. ASSUME NEW q \in s - d .. t - d PROVE LineEnd(v[q])
      <4>1. d + q \in s .. t /\ d + q \in d + i + 2 .. d + j - 1 /\ (d + q) - d = q
        OBVIOUS
      <4>2. LineEnd(w[d + q]) /\ v[(d + q) - d] = w[d + q]
        BY <2>3, <3>1, <4>1
      <4> QED  BY <4>1, <4>2
    <3>4. s - d < t - d /\ s - d \in i + 2 .. j - 1 /\ t - d \in i + 2 .. j - 1
      BY <2>3, <3>1
    <3> QED  BY <2>1, <2>2, <2>5, <3>1, <3>2, <3>3, <3>4 DEF Apart
  <2> QED  BY <2>4, <2>5
<1>9. p # "ollama" => \A i \in 1 .. m - d : v[i] # CR
  <2>1. ASSUME p # "ollama", NEW i \in 1 .. m - d PROVE v[i] # CR
    <3>1. i \in 1 .. M /\ d + i \in 1 .. m
      BY <1>3
    <3> QED  BY <1>4, <2>1, <3>1 DEF InOrder
  <2> QED  BY <2>1
<1>10. m - d \in Nat /\ m - d <= M
  BY <1>3
<1> QED  BY <1>2, <1>3, <1>a, <1>5, <1>6, <1>7, <1>8, <1>9, <1>10 DEF InOrder

\* What becomes of w when the units after m, up to h, arrive in one piece: the
\* one at q, if it is kept, is then the one after off[q].
KeptUnit(w, m, h, q) == ~(q \in m + 2 .. h /\ w[q] = LF /\ w[q - 1] = CR)
ShownUnit(w, m, h, q) == IF q \in m + 1 .. h /\ w[q] = CR THEN LF ELSE w[q]

Squeezed(w, m, h, v, off, L, M) ==
    /\ L \in Nat /\ M \in Nat /\ L = Len(w) /\ M = Len(v) /\ v \in Seq(Units)
    /\ \A q \in 1 .. L + 1 : off[q] \in 0 .. M
    /\ \A q \in 1 .. L : KeptUnit(w, m, h, q) =>
           off[q + 1] = off[q] + 1 /\ v[off[q] + 1] = ShownUnit(w, m, h, q)
    /\ \A r \in 1 .. M : \E q \in 1 .. L : KeptUnit(w, m, h, q) /\ r = off[q] + 1
    /\ \A x, y \in 1 .. L + 1 : x <= y => off[x] <= off[y]

LEMMA SqueezeInOrder ==
    ASSUME NEW p, p # "ollama", NEW w, NEW m, NEW n, NEW N, InOrder(p, w, m, n, N),
           NEW h \in Nat, m <= h, h <= Len(w),
           NEW v, NEW off, NEW L, NEW M, Squeezed(w, m, h, v, off, L, M)
    PROVE  InOrder(p, v, off[h + 1], n, N)
<1>1. L \in Nat /\ M \in Nat /\ L = Len(w) /\ M = Len(v) /\ v \in Seq(Units) /\ h \in 0 .. L
  BY DEF Squeezed
<1>2. n \in Nat /\ N \in Nat /\ n <= N /\ m \in Nat /\ m <= h
  BY DEF InOrder
<1>3. \A q \in 1 .. L + 1 : off[q] \in 0 .. M
  BY DEF Squeezed
<1>4. \A q \in 1 .. L : KeptUnit(w, m, h, q) =>
          /\ off[q] \in Nat /\ off[q] + 1 \in 1 .. M /\ off[q + 1] = off[q] + 1
          /\ v[off[q] + 1] = ShownUnit(w, m, h, q)
  <2>1. ASSUME NEW q \in 1 .. L, KeptUnit(w, m, h, q)
        PROVE  /\ off[q] \in Nat /\ off[q] + 1 \in 1 .. M /\ off[q + 1] = off[q] + 1
               /\ v[off[q] + 1] = ShownUnit(w, m, h, q)
    <3>1. q \in 1 .. L + 1 /\ q + 1 \in 1 .. L + 1
      BY <1>1
    <3>2. off[q + 1] = off[q] + 1 /\ v[off[q] + 1] = ShownUnit(w, m, h, q)
      BY <2>1 DEF Squeezed
    <3>3. off[q] \in 0 .. M /\ off[q + 1] \in 0 .. M
      BY <1>3, <3>1
    <3> QED  BY <3>2, <3>3
  <2> QED  BY <2>1
<1>5. \A r \in 1 .. M : \E q \in 1 .. L : KeptUnit(w, m, h, q) /\ r = off[q] + 1
  BY DEF Squeezed
<1>6. \A x, y \in 1 .. L + 1 : x <= y => off[x] <= off[y]
  BY DEF Squeezed
<1>7. \A q \in 1 .. L : w[q].u \in {"a", "b"} =>
          KeptUnit(w, m, h, q) /\ ShownUnit(w, m, h, q) = w[q]
  BY UnitFacts DEF KeptUnit, ShownUnit
<1>8. \A q \in 1 .. L : ShownUnit(w, m, h, q).u \in {"a", "b"} => ShownUnit(w, m, h, q) = w[q]
  BY UnitFacts DEF ShownUnit
<1>9. \A r \in 1 .. M : v[r].u \in {"a", "b"} =>
          \E q \in 1 .. L : KeptUnit(w, m, h, q) /\ r = off[q] + 1 /\ v[r] = w[q]
  BY <1>4, <1>5, <1>8
<1>10. ASSUME NEW r \in 1 .. M, v[r].u = "a"
       PROVE  v[r].of \in n + 1 .. N /\ r < M /\ v[r] = A(v[r].of) /\ v[r + 1] = B(v[r].of)
  <2>1. PICK q \in 1 .. L : KeptUnit(w, m, h, q) /\ r = off[q] + 1 /\ v[r] = w[q]
    BY <1>9, <1>10
  <2>2. w[q].of \in n + 1 .. N /\ q < L /\ w[q] = A(w[q].of) /\ w[q + 1] = B(w[q].of)
    BY <1>1, <1>10, <2>1 DEF InOrder
  <2>3. w[q + 1].u = "b" /\ q + 1 \in 1 .. L
    BY <1>1, <1>2, <2>2, UnitFacts
  <2>4. off[q + 1] = r /\ off[q + 1] + 1 \in 1 .. M /\ v[off[q + 1] + 1] = w[q + 1]
    BY <1>4, <1>7, <2>1, <2>3
  <2>5. v[r + 1] = w[q + 1] /\ r + 1 \in 1 .. M
    BY <2>4
  <2>6. r < M
    BY <1>1, <2>5
  <2> QED  BY <2>1, <2>2, <2>5, <2>6
<1>11. ASSUME NEW r \in 1 .. M, v[r].u = "b"
       PROVE  r > 1 /\ v[r] = B(v[r].of) /\ v[r - 1] = A(v[r].of)
  <2>1. PICK q \in 1 .. L : KeptUnit(w, m, h, q) /\ r = off[q] + 1 /\ v[r] = w[q]
    BY <1>9, <1>11
  <2>2. q > 1 /\ w[q] = B(w[q].of) /\ w[q - 1] = A(w[q].of)
    BY <1>1, <1>11, <2>1 DEF InOrder
  <2>3. PICK x \in 1 .. L : x = q - 1 /\ x + 1 = q
    <3>1. q - 1 \in 1 .. L /\ (q - 1) + 1 = q
      BY <1>1, <2>2
    <3> QED  BY <3>1
  <2>4. w[x].u = "a"
    BY <2>2, <2>3 DEF A
  <2>5. off[x] + 1 \in 1 .. M /\ off[x + 1] = off[x] + 1 /\ off[x] \in Nat /\ v[off[x] + 1] = w[x]
    BY <1>4, <1>7, <2>4
  <2>6. r - 1 = off[x] + 1 /\ r > 1
    BY <2>1, <2>3, <2>5
  <2> QED  BY <2>1, <2>2, <2>3, <2>5, <2>6
<1>12. ASSUME NEW k \in n + 1 .. N PROVE \E r \in 1 .. M : v[r] = A(k)
  <2>1. PICK q \in 1 .. L : w[q] = A(k)
    BY <1>1 DEF InOrder
  <2>2. w[q].u = "a"
    BY <2>1 DEF A
  <2>3. off[q] + 1 \in 1 .. M /\ v[off[q] + 1] = w[q]
    BY <1>4, <1>7, <2>2
  <2> QED  BY <2>1, <2>3
<1>13. ASSUME NEW i \in 1 .. M, NEW j \in 1 .. M, i < j, v[i].u = "a", v[j].u = "a"
       PROVE  v[i].of < v[j].of /\ Apart(p, v, off[h + 1], i, j)
  <2>1. PICK x \in 1 .. L : KeptUnit(w, m, h, x) /\ i = off[x] + 1 /\ v[i] = w[x]
    BY <1>9, <1>13
  <2>2. PICK y \in 1 .. L : KeptUnit(w, m, h, y) /\ j = off[y] + 1 /\ v[j] = w[y]
    BY <1>9, <1>13
  <2>3. x < y
    <3>1. x \in 1 .. L + 1 /\ y \in 1 .. L + 1 /\ off[x] \in 0 .. M /\ off[y] \in 0 .. M
      BY <1>1, <1>3
    <3>2. y <= x => off[y] <= off[x]
      BY <1>6, <3>1
    <3> QED  BY <1>13, <2>1, <2>2, <3>1, <3>2
  <2>4. w[x].of < w[y].of /\ Apart(p, w, m, x, y) /\ x < L /\ w[x + 1] = B(w[x].of)
    BY <1>1, <1>13, <2>1, <2>2, <2>3 DEF InOrder
  <2>5. PICK s \in x + 2 .. y - 1, t \in x + 2 .. y - 1 :
            s < t /\ Stays(w, m, s) /\ Stays(w, m, t) /\ \A q \in s .. t : LineEnd(w[q])
    BY <2>4 DEF Apart
  <2>6. s \in 1 .. L /\ t \in 1 .. L /\ x + 1 \in 1 .. L
    BY <1>1, <2>3
  <2>7. KeptUnit(w, m, h, x + 1)
    BY <2>4, UnitFacts, <1>7, <2>6 DEF B
  <2>8. \A q \in 1 .. L : Stays(w, m, q) => KeptUnit(w, m, h, q)
    BY <1>1, <1>2 DEF Stays, KeptUnit
  <2>9. off[s] \in Nat /\ off[s + 1] = off[s] + 1 /\ off[t] \in Nat /\ off[t + 1] = off[t] + 1
        /\ off[s] + 1 \in 1 .. M /\ off[t] + 1 \in 1 .. M
        /\ v[off[s] + 1] = ShownUnit(w, m, h, s) /\ v[off[t] + 1] = ShownUnit(w, m, h, t)
    BY <1>4, <2>5, <2>6, <2>8
  <2>10. off[x + 1] = i /\ off[x + 1 + 1] = i + 1
    BY <1>4, <2>1, <2>6, <2>7
  <2>11. i + 1 <= off[s] /\ off[s] + 1 <= off[t] /\ off[t] + 1 <= off[y]
    <3>1. s \in 1 .. L + 1 /\ s + 1 \in 1 .. L + 1 /\ t \in 1 .. L + 1 /\ t + 1 \in 1 .. L + 1
          /\ y \in 1 .. L + 1 /\ x + 1 + 1 \in 1 .. L + 1 /\ x + 1 + 1 <= s /\ s + 1 <= t /\ t + 1 <= y
      BY <1>1, <2>3, <2>5
    <3>2. off[x + 1 + 1] <= off[s] /\ off[s + 1] <= off[t] /\ off[t + 1] <= off[y]
      BY <1>6, <3>1
    <3> QED  BY <2>9, <2>10, <3>2
  <2>12. off[s] + 1 \in i + 2 .. j - 1 /\ off[t] + 1 \in i + 2 .. j - 1 /\ off[s] + 1 < off[t] + 1
    <3>1. PICK a \in Nat : a = off[s]
      BY <2>9
    <3>2. PICK b \in Nat : b = off[t]
      BY <2>9
    <3>3. PICK c \in Nat : c = off[y]
      BY <1>3, <1>4, <2>2
    <3>4. i + 1 <= a /\ a + 1 <= b /\ b + 1 <= c /\ j = c + 1
      BY <2>2, <2>11, <3>1, <3>2, <3>3
    <3>5. a + 1 \in i + 2 .. j - 1 /\ b + 1 \in i + 2 .. j - 1 /\ a + 1 < b + 1
      BY <3>4
    <3> QED  BY <3>1, <3>2, <3>5
  <2>13. ASSUME NEW z \in off[s] + 1 .. off[t] + 1 PROVE LineEnd(v[z])
    <3>1. z \in 1 .. M
      <4>1. PICK a \in Nat : a = off[s]
        BY <2>9
      <4>2. PICK b \in Nat : b = off[t]
        BY <2>9
      <4>3. z \in a + 1 .. b + 1 /\ b + 1 <= M
        BY <1>1, <2>9, <4>1, <4>2
      <4> QED  BY <1>1, <4>3
    <3>2. PICK q \in 1 .. L : KeptUnit(w, m, h, q) /\ z = off[q] + 1
      BY <1>5, <3>1
    <3>3. off[q + 1] = off[q] + 1 /\ off[q] \in Nat /\ v[z] = ShownUnit(w, m, h, q)
      BY <1>4, <3>2
    <3>4. q \in 1 .. L + 1 /\ q + 1 \in 1 .. L + 1 /\ s \in 1 .. L + 1 /\ t + 1 \in 1 .. L + 1
      BY <1>1, <2>6
    <3>5. ~(q < s)
      <4>1. ASSUME q < s PROVE FALSE
        <5>1. q + 1 <= s
          BY <4>1
        <5>2. off[q + 1] <= off[s]
          BY <1>6, <3>4, <5>1
        <5> QED  BY <2>9, <3>2, <3>3, <5>2
      <4> QED  BY <4>1
    <3>6. ~(q > t)
      <4>1. ASSUME q > t PROVE FALSE
        <5>1. t + 1 <= q
          BY <4>1
        <5>2. off[t + 1] <= off[q]
          BY <1>6, <3>4, <5>1
        <5>3. PICK b \in Nat : b = off[t]
          BY <2>9
        <5>4. PICK c \in Nat : c = off[q]
          BY <3>3
        <5>5. b + 1 <= c /\ c + 1 <= b + 1
          <6>1. off[t] + 1 <= off[q]
            BY <2>9, <5>2
          <6>2. z <= b + 1 /\ z = c + 1
            BY <2>9, <3>2, <5>3, <5>4
          <6> QED  BY <5>3, <5>4, <6>1, <6>2
        <5> QED  BY <5>5
      <4> QED  BY <4>1
    <3>7. LineEnd(w[q])
      <4>1. q \in s .. t
        BY <3>5, <3>6
      <4> QED  BY <2>5, <4>1
    <3> QED  BY <3>3, <3>7 DEF LineEnd, ShownUnit
  <2>14. ASSUME NEW q \in 1 .. L, Stays(w, m, q), q > 1 PROVE Stays(v, off[h + 1], off[q] + 1)
    <3>1. off[q] \in Nat /\ off[q + 1] = off[q] + 1 /\ v[off[q] + 1] = ShownUnit(w, m, h, q)
      BY <1>4, <2>8, <2>14
    <3>2. h + 1 \in 1 .. L + 1 /\ q \in 1 .. L + 1 /\ q + 1 \in 1 .. L + 1 /\ off[h + 1] \in 0 .. M
      BY <1>1, <1>3
    <3>3. CASE q <= h + 1
      <4>1. off[q] <= off[h + 1]
        BY <1>6, <3>2, <3>3
      <4> QED  BY <3>1, <3>2, <4>1 DEF Stays
    <3>4. CASE q > h + 1
      <4>1. PICK x1 \in 1 .. L : x1 = q - 1 /\ x1 + 1 = q /\ x1 > h
        BY <1>1, <3>4
      <4>2. w[q] # LF \/ w[x1] # CR
        BY <1>2, <2>14, <3>4, <4>1 DEF Stays
      <4>3. KeptUnit(w, m, h, x1) /\ ShownUnit(w, m, h, x1) = w[x1] /\ ShownUnit(w, m, h, q) = w[q]
        BY <1>1, <1>2, <3>4, <4>1 DEF KeptUnit, ShownUnit
      <4>4. off[x1 + 1] = off[x1] + 1 /\ v[off[x1] + 1] = w[x1] /\ off[x1] \in Nat
        BY <1>4, <4>3
      <4>5. (off[q] + 1) - 1 = off[x1] + 1
        BY <3>1, <4>1, <4>4
      <4>6. v[off[q] + 1] # LF \/ v[(off[q] + 1) - 1] # CR
        BY <3>1, <4>2, <4>3, <4>4, <4>5
      <4> QED  BY <4>6 DEF Stays
    <3> QED  BY <3>3, <3>4
  <2>15. Stays(v, off[h + 1], off[s] + 1) /\ Stays(v, off[h + 1], off[t] + 1)
    <3>1. s > 1 /\ t > 1
      OBVIOUS
    <3> QED  BY <2>5, <2>6, <2>14, <3>1
  <2> QED  BY <2>1, <2>2, <2>4, <2>12, <2>13, <2>15 DEF Apart
<1>14. off[h + 1] \in Nat /\ off[h + 1] <= M
  <2>1. h + 1 \in 1 .. L + 1
    BY <1>1
  <2>2. off[h + 1] \in 0 .. M
    BY <1>3, <2>1
  <2> QED  BY <1>1, <2>2
<1>15. ASSUME NEW i \in 1 .. off[h + 1] PROVE v[i] # CR
  <2>1. PICK e \in Nat : e = off[h + 1] /\ e <= M
    BY <1>14
  <2>2. i \in 1 .. M /\ i <= e
    BY <1>1, <2>1
  <2>3. PICK q \in 1 .. L : KeptUnit(w, m, h, q) /\ i = off[q] + 1
    BY <1>5, <2>2
  <2>4. v[i] = ShownUnit(w, m, h, q) /\ off[q] \in Nat
    BY <1>4, <2>3
  <2>5. q <= h
    <3>1. h + 1 \in 1 .. L + 1 /\ q \in 1 .. L + 1
      BY <1>1
    <3>2. h + 1 <= q => off[h + 1] <= off[q]
      BY <1>6, <3>1
    <3>3. ~(h + 1 <= q)
      BY <2>1, <2>2, <2>3, <2>4, <3>2
    <3> QED  BY <1>1, <3>3
  <2>6. q <= m => w[q] # CR
    BY <1>1, <1>2 DEF InOrder
  <2> QED  BY <1>2, <2>4, <2>5, <2>6, UnitFacts DEF ShownUnit
<1> QED  BY <1>1, <1>2, <1>10, <1>11, <1>12, <1>13, <1>14, <1>15 DEF InOrder

LEMMA NoUnits == <<>> \in Seq(Units)
OBVIOUS

\* A piece that is read adds what Normal makes of it.
LEMMA NormalSqueezes ==
    ASSUME NEW b \in Seq(Units), NEW wr \in Seq(Units), NEW k \in 1 .. Len(wr)
    PROVE  /\ Normal(SubSeq(wr, 1, k)) \in Seq(Units)
           /\ \E off, L, M : Squeezed(b \o wr, Len(b), Len(b) + k,
                                      (b \o Normal(SubSeq(wr, 1, k))) \o SubSeq(wr, k + 1, Len(wr)), off, L, M)
                  /\ off[Len(b) + k + 1] = Len(b \o Normal(SubSeq(wr, 1, k)))
<1>1. PICK m \in Nat : m = Len(b)
  OBVIOUS
<1>2. PICK z \in Nat : z = Len(wr) /\ k <= z
  OBVIOUS
<1>a. PICK h \in Nat : h = m + k
  OBVIOUS
<1>b. PICK L \in Nat : L = m + z /\ h <= L
  BY <1>2, <1>a
<1> USE <1>a, <1>b
<1>3. PICK w : w = b \o wr
  OBVIOUS
<1>4. w \in Seq(Units) /\ Len(w) = m + z /\ (\A i \in 1 .. m : w[i] = b[i]) /\ \A i \in 1 .. z : w[m + i] = wr[i]
  <2>1. PICK x, y : Joins(Units, b, wr, x, y, w)
    BY <1>3, Joined
  <2> QED  BY <1>1, <1>2, <2>1 DEF Joins
<1>5. PICK piece : piece = SubSeq(wr, 1, k)
  OBVIOUS
<1>6. piece \in Seq(Units) /\ Len(piece) = k /\ \A i \in 1 .. k : piece[i] = wr[i]
  BY <1>5
<1>7. PICK rest : rest = SubSeq(wr, k + 1, z)
  OBVIOUS
<1>8. rest \in Seq(Units) /\ Len(rest) = z - k /\ \A i \in 1 .. z - k : rest[i] = wr[k + i]
  <2>1. \A i \in k + 1 .. z : wr[i] \in Units
    BY <1>2
  <2>2. /\ rest \in Seq(Units) /\ Len(rest) = (IF k + 1 <= z THEN z - (k + 1) + 1 ELSE 0)
        /\ \A i \in 1 .. z - (k + 1) + 1 : rest[i] = wr[k + 1 + i - 1]
    BY <1>7, <2>1, SubSeqProperties
  <2>3. \A i \in 1 .. z - k : i \in 1 .. z - (k + 1) + 1 /\ k + 1 + i - 1 = k + i
    BY <1>2
  <2>4. Len(rest) = z - k
    BY <1>2, <2>2
  <2> QED  BY <2>2, <2>3, <2>4
<1> DEFINE Some(q) == IF KeptUnit(w, m, h, q) THEN <<ShownUnit(w, m, h, q)>> ELSE <<>>
<1>9. PICK ns : ns = [i \in 1 .. k |-> CASE piece[i] = CR                               -> <<LF>>
                                         [] piece[i] = LF /\ i > 1 /\ piece[i - 1] = CR -> <<>>
                                         [] OTHER                                       -> <<piece[i]>>]
  OBVIOUS
<1>10. Normal(piece) = FlattenSeq(ns)
  <2>1. DOMAIN piece = 1 .. k
    BY <1>6
  <2> QED  BY <1>9, <2>1 DEF Normal
<1>11. ASSUME NEW i \in 1 .. k PROVE ns[i] = Some(m + i) /\ ns[i] \in Seq(Units)
  <2>1. PICK q \in 1 .. L : q = m + i
    BY <1>1, <1>2
  <2>2. q \in m + 1 .. h /\ (q \in m + 2 .. h <=> i > 1)
    BY <1>1, <2>1
  <2>3. w[q] = piece[i]
    <3>1. i \in 1 .. z
      BY <1>2
    <3> QED  BY <1>4, <1>6, <2>1, <3>1
  <2>4. i > 1 => w[q - 1] = piece[i - 1]
    <3>1. i > 1 => i - 1 \in 1 .. k /\ i - 1 \in 1 .. z /\ q - 1 = m + (i - 1)
      BY <1>1, <1>2, <2>1
    <3> QED  BY <1>4, <1>6, <3>1
  <2>5. piece[i] \in Units
    BY <1>6
  <2>6. CASE piece[i] = CR
    <3>1. ns[i] = <<LF>> /\ KeptUnit(w, m, h, q) /\ ShownUnit(w, m, h, q) = LF
      BY <1>9, <2>2, <2>3, <2>6, UnitFacts DEF KeptUnit, ShownUnit
    <3> QED  BY <2>1, <3>1, UnitFacts
  <2>7. CASE piece[i] = LF /\ i > 1 /\ piece[i - 1] = CR
    <3>1. ns[i] = <<>> /\ ~KeptUnit(w, m, h, q)
      BY <1>9, <2>2, <2>3, <2>4, <2>7, UnitFacts DEF KeptUnit
    <3> QED  BY <2>1, <3>1, NoUnits
  <2>8. CASE piece[i] # CR /\ ~(piece[i] = LF /\ i > 1 /\ piece[i - 1] = CR)
    <3>1. ns[i] = <<piece[i]>>
      BY <1>9, <2>8
    <3>2. KeptUnit(w, m, h, q) /\ ShownUnit(w, m, h, q) = piece[i]
      BY <2>2, <2>3, <2>4, <2>8 DEF KeptUnit, ShownUnit
    <3> QED  BY <2>1, <2>5, <3>1, <3>2
  <2> QED  BY <2>6, <2>7, <2>8
<1> DEFINE sb == [i \in 1 .. m |-> <<b[i]>>]
           sr == [i \in 1 .. z - k |-> <<rest[i]>>]
<1>12. sb \in Seq(Seq(Units)) /\ FlattenSeq(sb) = b /\ Len(sb) = m
  BY <1>1, FlattenSingles
<1>13. sr \in Seq(Seq(Units)) /\ FlattenSeq(sr) = rest /\ Len(sr) = z - k
  <2>1. z - k \in Nat
    BY <1>2
  <2>2. /\ [i \in 1 .. Len(rest) |-> <<rest[i]>>] \in Seq(Seq(Units))
        /\ FlattenSeq([i \in 1 .. Len(rest) |-> <<rest[i]>>]) = rest
    BY <1>8, FlattenSingles
  <2> QED  BY <1>8, <2>1, <2>2
<1>14. ns \in Seq(Seq(Units)) /\ Len(ns) = k
  <2>1. \A i \in 1 .. k : ns[i] \in Seq(Units)
    BY <1>11
  <2>2. ns = [i \in 1 .. k |-> ns[i]]
    BY <1>9
  <2>3. [i \in 1 .. k |-> ns[i]] \in Seq(Seq(Units)) /\ Len([i \in 1 .. k |-> ns[i]]) = k
    BY <2>1
  <2> QED  BY <2>2, <2>3
<1>15. PICK bn : bn = sb \o ns
  OBVIOUS
<1>16. /\ bn \in Seq(Seq(Units)) /\ Len(bn) = h
       /\ (\A i \in 1 .. m : bn[i] = sb[i]) /\ \A i \in 1 .. k : bn[m + i] = ns[i]
  <2> HIDE DEF sb
  <2>1. PICK x, y : Joins(Seq(Units), sb, ns, x, y, bn)
    BY <1>12, <1>14, <1>15, Joined
  <2> QED  BY <1>12, <1>14, <2>1 DEF Joins
<1>17. PICK tt : tt = bn \o sr
  OBVIOUS
<1>18. /\ tt \in Seq(Seq(Units)) /\ Len(tt) = L
       /\ (\A i \in 1 .. h : tt[i] = bn[i]) /\ \A i \in 1 .. z - k : tt[h + i] = sr[i]
  <2> HIDE DEF sr
  <2>1. PICK x, y : Joins(Seq(Units), bn, sr, x, y, tt)
    BY <1>13, <1>16, <1>17, Joined
  <2>2. h + (z - k) = L
    BY <1>2
  <2> QED  BY <1>13, <1>16, <2>1, <2>2 DEF Joins
<1>19. PICK v : v = (b \o Normal(piece)) \o rest
  OBVIOUS
<1>20. v = FlattenSeq(tt) /\ FlattenSeq(bn) = b \o Normal(piece)
  <2> HIDE DEF sb, sr
  <2>1. FlattenSeq(bn) = FlattenSeq(sb) \o FlattenSeq(ns)
    BY <1>12, <1>14, <1>15, FlattenConcat
  <2>2. FlattenSeq(tt) = FlattenSeq(bn) \o FlattenSeq(sr)
    BY <1>13, <1>16, <1>17, FlattenConcat
  <2> QED  BY <1>10, <1>12, <1>13, <1>19, <2>1, <2>2
<1>21. ASSUME NEW q \in 1 .. L PROVE tt[q] = Some(q)
  <2>1. CASE q \in 1 .. m
    <3>1. q \in 1 .. h /\ q \notin m + 1 .. h /\ q \notin m + 2 .. h
      BY <2>1
    <3>2. tt[q] = <<b[q]>> /\ w[q] = b[q]
      BY <1>4, <1>16, <1>18, <2>1, <3>1
    <3> QED  BY <3>1, <3>2 DEF KeptUnit, ShownUnit
  <2>2. CASE q \in m + 1 .. h
    <3>1. q - m \in 1 .. k /\ m + (q - m) = q /\ q \in 1 .. h
      BY <2>2
    <3>2. tt[q] = ns[q - m]
      BY <1>16, <1>18, <3>1
    <3> QED  BY <1>11, <3>1, <3>2
  <2>3. CASE q \in h + 1 .. L
    <3>1. PICK i \in 1 .. z - k : h + i = q /\ k + i \in 1 .. z /\ m + (k + i) = q
      <4>1. q - h \in 1 .. z - k /\ h + (q - h) = q /\ k + (q - h) \in 1 .. z
            /\ m + (k + (q - h)) = q
        BY <1>2, <2>3
      <4> QED  BY <4>1
    <3>2. tt[q] = sr[i] /\ sr[i] = <<rest[i]>> /\ rest[i] = wr[k + i] /\ w[q] = wr[k + i]
      BY <1>4, <1>8, <1>18, <3>1
    <3>3. q \notin m + 1 .. h /\ q \notin m + 2 .. h
      BY <2>3
    <3> QED  BY <3>2, <3>3 DEF KeptUnit, ShownUnit
  <2> QED  BY <1>2, <2>1, <2>2, <2>3
<1> HIDE DEF sb, sr
<1>22. v \in Seq(Units) /\ \E off \in [1 .. Len(tt) + 1 -> Nat] : Places(tt, v, off)
  BY <1>18, <1>20, Flattened
<1>23. PICK off \in [1 .. L + 1 -> Nat] : Places(tt, v, off)
  BY <1>18, <1>22
<1>24. PICK M \in Nat : M = Len(v)
  BY <1>22
<1>25. Squeezed(w, m, h, v, off, L, M)
  <2> DEFINE K == {q \in 1 .. L : KeptUnit(w, m, h, q)}
             sh == [q \in 1 .. L |-> ShownUnit(w, m, h, q)]
  <2>1. \A q \in 1 .. L : (q \in K => Len(tt[q]) = 1 /\ tt[q][1] = sh[q]) /\ (q \notin K => Len(tt[q]) = 0)
    <3>1. ASSUME NEW q \in K PROVE Len(tt[q]) = 1 /\ tt[q][1] = sh[q]
      <4>1. tt[q] = <<ShownUnit(w, m, h, q)>>
        BY <1>21, <3>1
      <4> QED  BY <4>1
    <3>2. ASSUME NEW q \in 1 .. L, q \notin K PROVE Len(tt[q]) = 0
      <4>1. tt[q] = <<>>
        BY <1>21, <3>2
      <4> QED  BY <4>1
    <3> QED  BY <3>1, <3>2
  <2>a. \A q \in 1 .. L : (q \in K <=> KeptUnit(w, m, h, q)) /\ sh[q] = ShownUnit(w, m, h, q)
    OBVIOUS
  <2> HIDE DEF Some, K, sh
  <2>2. ASSUME NEW q \in 1 .. L + 1 PROVE off[q] \in 0 .. M
    <3>1. off[q] \in Nat /\ L + 1 \in 1 .. L + 1 /\ q <= L + 1
      BY <1>1, <1>2
    <3>2. off[L + 1] = M /\ off[q] <= off[L + 1]
      BY <1>18, <1>23, <1>24, <3>1 DEF Places
    <3> QED  BY <3>1, <3>2
  <2>3. ASSUME NEW q \in 1 .. L, q \in K
        PROVE  off[q + 1] = off[q] + 1 /\ v[off[q] + 1] = sh[q]
    <3>1. off[q + 1] = off[q] + Len(tt[q]) /\ \A j \in 1 .. Len(tt[q]) : v[off[q] + j] = tt[q][j]
      BY <1>18, <1>23 DEF Places
    <3>2. Len(tt[q]) = 1 /\ 1 \in 1 .. Len(tt[q]) /\ tt[q][1] = sh[q]
      BY <2>1, <2>3
    <3> QED  BY <3>1, <3>2
  <2>4. ASSUME NEW r \in 1 .. M
        PROVE  \E q \in 1 .. L : q \in K /\ r = off[q] + 1
    <3>1. \A x \in 1 .. Len(v) : \E q \in 1 .. Len(tt) : \E j \in 1 .. Len(tt[q]) : x = off[q] + j
      BY <1>23 DEF Places
    <3>2. r \in 1 .. Len(v)
      BY <1>24
    <3>3. PICK q \in 1 .. Len(tt) : \E j \in 1 .. Len(tt[q]) : r = off[q] + j
      BY <3>1, <3>2, Zenon
    <3>4. PICK j \in 1 .. Len(tt[q]) : r = off[q] + j
      BY <3>3
    <3>5. q \in 1 .. L
      BY <1>18
    <3>6. q \in K
      <4>1. q \notin K => Len(tt[q]) = 0
        BY <2>1, <3>5
      <4> QED  BY <4>1
    <3>7. j = 1
      <4>1. Len(tt[q]) = 1
        BY <2>1, <3>5, <3>6
      <4> QED  BY <4>1
    <3> QED  BY <3>4, <3>5, <3>6, <3>7
  <2>5. \A x, y \in 1 .. L + 1 : x <= y => off[x] <= off[y]
    BY <1>18, <1>23 DEF Places
  <2>6. L \in Nat /\ M \in Nat /\ L = Len(w) /\ M = Len(v) /\ v \in Seq(Units)
    BY <1>4, <1>22, <1>24
  <2> QED  BY <2>a, <2>2, <2>3, <2>4, <2>5, <2>6 DEF Squeezed
<1>26. Normal(piece) \in Seq(Units)
  BY <1>10, <1>14, Flattened
<1>27. off[h + 1] = Len(b \o Normal(piece))
  <2>1. PICK f : f = b \o Normal(piece) /\ f = FlattenSeq(bn)
    BY <1>20
  <2>2. \E o \in [1 .. Len(bn) + 1 -> Nat] : Places(bn, f, o)
    BY <1>16, <2>1, Flattened
  <2>3. PICK o : Places(bn, f, o)
    BY <2>2
  <2>4. \A i \in 1 .. h : bn[i] = tt[i]
    BY <1>18
  <2>5. Len(bn) = h /\ Len(tt) = L /\ h <= L /\ Places(bn, f, o) /\ Places(tt, v, off)
    BY <1>16, <1>18, <1>23, <2>3
  <2>6. off[h + 1] = Len(f)
    <3>1. Alongside(h, L, bn, tt, f, v, o, off)
      BY <2>4, <2>5 DEF Alongside
    <3> QED  BY <3>1, PlacesUnique
  <2> QED  BY <2>1, <2>6
<1>28. m + k + 1 = h + 1 /\ m + k = h
  OBVIOUS
<1> QED  BY <1>1, <1>2, <1>3, <1>5, <1>7, <1>19, <1>25, <1>26, <1>27, <1>28

\* The payload of a frame is the next one, or the frame has none.
LEMMA PayloadIsNext ==
    ASSUME NEW w, NEW m, NEW n, InOrder(provider, w, m, n, Len(answer)),
           DOMAIN answer = 1 .. Len(answer),
           NEW frame \in Seq(Units), Len(frame) <= m, \A i \in 1 .. Len(frame) : frame[i] = w[i],
           Unbroken(provider, w, Len(frame))
    PROVE  /\ Payload(frame) # 0 => /\ Payload(frame) = n + 1 /\ n + 1 \in DOMAIN answer
                                    /\ \E i \in 1 .. Len(frame) : w[i].u = "a"
           /\ \A i \in 1 .. Len(frame) : i < Len(frame) /\ w[i].u = "a" => Payload(frame) = n + 1
<1>1. PICK e \in Nat : e = Len(frame)
  OBVIOUS
<1>2. PICK N \in Nat : N = Len(answer)
  BY DEF InOrder
<1>3. n \in Nat /\ m \in Nat /\ e <= m
  BY <1>1 DEF InOrder
<1>4. Range(frame) = {w[i] : i \in 1 .. e}
  BY <1>1 DEF Range
<1>5. \A k \in Nat : Range(Halves(k)) = {A(k), B(k)}
  <2>1. ASSUME NEW k \in Nat PROVE Range(Halves(k)) = {A(k), B(k)}
    BY HalvesAre DEF Range
  <2> QED  BY <2>1
<1> DEFINE whole == {k \in DOMAIN answer : Range(Halves(k)) \subseteq Range(frame)}
<1>6. \A k \in whole : k = n + 1 /\ \E i \in 1 .. e : w[i].u = "a"
  <2>1. ASSUME NEW k \in whole PROVE k = n + 1 /\ \E i \in 1 .. e : w[i].u = "a"
    <3>1. k \in Nat /\ A(k) \in Range(frame)
      BY <1>2, <1>5
    <3>2. PICK i \in 1 .. e : w[i] = A(k)
      BY <1>4, <3>1
    <3>3. A(k).u = "a" /\ A(k).of = k
      BY <3>1, UnitFacts
    <3>4. w[i] = A(n + 1)
      BY <1>1, <1>2, <1>3, <3>2, <3>3, NextInFrame
    <3>5. A(n + 1).of = n + 1
      BY <1>3, UnitFacts
    <3> QED  BY <3>2, <3>3, <3>4, <3>5
  <2> QED  BY <2>1
<1>7. Payload(frame) = IF \E k \in whole : whole = {k} THEN CHOOSE k \in whole : TRUE ELSE 0
  BY DEF Payload
<1>8. whole \subseteq DOMAIN answer
  OBVIOUS
<1>9. ASSUME NEW i \in 1 .. e, i < e, w[i].u = "a" PROVE n + 1 \in whole
  <2>1. w[i] = A(n + 1) /\ n + 1 <= N /\ w[i + 1] = B(n + 1)
    BY <1>1, <1>2, <1>3, <1>9, NextInFrame
  <2>2. i + 1 \in 1 .. e /\ n + 1 \in 1 .. N
    BY <1>3, <1>9, <2>1
  <2>3. A(n + 1) \in Range(frame) /\ B(n + 1) \in Range(frame)
    BY <1>4, <2>1, <2>2
  <2> QED  BY <1>2, <1>5, <2>2, <2>3
<1> HIDE DEF whole
<1>10. Payload(frame) # 0 => Payload(frame) \in whole
  BY <1>7
<1>11. n + 1 \in whole => Payload(frame) = n + 1
  <2>1. n + 1 \in whole => whole = {n + 1}
    BY <1>6
  <2> QED  BY <1>7, <2>1
<1> QED  BY <1>1, <1>6, <1>8, <1>9, <1>10, <1>11

WireInv(n) ==
    /\ buf \in Seq(Units) /\ wire \in Seq(Units)
    /\ InOrder(provider, buf \o wire, Len(buf), n, Len(answer))

LEMMA ReadKeepsOrder ==
    ASSUME NEW n, WireInv(n), NEW k \in DOMAIN wire, Read(k)
    PROVE  WireInv(n)'
<1>1. buf \in Seq(Units) /\ wire \in Seq(Units) /\ k \in 1 .. Len(wire)
  BY DEF WireInv
<1>2. /\ buf' = buf \o Decoded(SubSeq(wire, 1, k)) /\ wire' = SubSeq(wire, k + 1, Len(wire))
      /\ UNCHANGED <<provider, answer>>
  BY DEF Read
<1>3. PICK z \in Nat : z = Len(wire) /\ k <= z
  BY <1>1
<1>4. SubSeq(wire, 1, k) \in Seq(Units) /\ wire' \in Seq(Units)
  BY <1>1, <1>2
<1>5. CASE provider = "ollama"
  <2>1. buf' = buf \o SubSeq(wire, 1, k)
    BY <1>2, <1>5 DEF Decoded
  <2>2. PICK piece : piece = SubSeq(wire, 1, k)
    OBVIOUS
  <2>3. PICK rest : rest = SubSeq(wire, k + 1, Len(wire))
    OBVIOUS
  <2>4. piece \in Seq(Units) /\ Len(piece) = k /\ rest \in Seq(Units) /\ piece \o rest = wire
    <3>1. k \in Nat /\ k <= Len(wire)
      BY <1>3
    <3>2. /\ SubSeq(wire, 1, k) \in Seq(Units) /\ Len(SubSeq(wire, 1, k)) = k
          /\ SubSeq(wire, k + 1, Len(wire)) \in Seq(Units)
          /\ SubSeq(wire, 1, k) \o SubSeq(wire, k + 1, Len(wire)) = wire
      BY <1>1, <3>1, SplitAt
    <3> QED  BY <2>2, <2>3, <3>2
  <2>5. \A s, t, r \in Seq(Units) : (s \o t) \o r = s \o (t \o r)
    BY ConcatAssociative
  <2>6. (buf \o piece) \o rest = buf \o wire
    BY <1>1, <2>4, <2>5
  <2>7. buf' \in Seq(Units) /\ Len(buf') = Len(buf) + k /\ buf' \o wire' = buf \o wire
    <3>1. buf' = buf \o piece /\ wire' = rest
      BY <1>2, <2>1, <2>2, <2>3
    <3> QED  BY <1>1, <2>4, <2>6, <3>1
  <2>8. InOrder(provider, buf \o wire, Len(buf'), n, Len(answer))
    <3>1. PICK w : w = buf \o wire
      OBVIOUS
    <3>2. PICK m \in Nat : m = Len(buf')
      BY <2>7
    <3>3. m <= Len(w)
      BY <1>1, <1>3, <2>7, <3>1, <3>2
    <3>4. \A i, j : Apart("ollama", w, Len(buf), i, j) => Apart("ollama", w, m, i, j)
      BY DEF Apart
    <3>5. InOrder("ollama", w, Len(buf), n, Len(answer))
      BY <1>5, <3>1 DEF WireInv
    <3>6. InOrder("ollama", w, m, n, Len(answer))
      BY <3>2, <3>3, <3>4, <3>5 DEF InOrder
    <3> QED  BY <1>5, <3>1, <3>2, <3>6
  <2> QED  BY <1>2, <1>4, <2>7, <2>8 DEF WireInv
<1>6. CASE provider # "ollama"
  <2>1. buf' = buf \o Normal(SubSeq(wire, 1, k))
    BY <1>2, <1>6 DEF Decoded
  <2>2. Normal(SubSeq(wire, 1, k)) \in Seq(Units)
    BY <1>1, NormalSqueezes
  <2>3. buf' \in Seq(Units)
    BY <1>1, <2>1, <2>2
  <2>4. PICK off, L, M : /\ Squeezed(buf \o wire, Len(buf), Len(buf) + k, buf' \o wire', off, L, M)
                         /\ off[Len(buf) + k + 1] = Len(buf')
    <3>1. \E off, L, M : Squeezed(buf \o wire, Len(buf), Len(buf) + k,
                                  (buf \o Normal(SubSeq(wire, 1, k))) \o SubSeq(wire, k + 1, Len(wire)), off, L, M)
              /\ off[Len(buf) + k + 1] = Len(buf \o Normal(SubSeq(wire, 1, k)))
      BY <1>1, NormalSqueezes
    <3> QED  BY <1>2, <2>1, <3>1
  <2>5. PICK w : w = buf \o wire
    OBVIOUS
  <2>6. PICK h \in Nat : h = Len(buf) + k /\ Len(buf) <= h /\ h <= Len(w)
    <3>1. Len(w) = Len(buf) + Len(wire) /\ Len(buf) \in Nat
      BY <1>1, <2>5
    <3>2. PICK m \in Nat : m = Len(buf)
      BY <3>1
    <3>3. m + k \in Nat /\ m <= m + k /\ m + k <= Len(w)
      BY <1>3, <3>1, <3>2
    <3> QED  BY <3>2, <3>3
  <2>7. PICK v : v = buf' \o wire'
    OBVIOUS
  <2>8. Squeezed(w, Len(buf), h, v, off, L, M) /\ off[h + 1] = Len(buf')
    BY <2>4, <2>5, <2>6, <2>7
  <2>9. InOrder(provider, w, Len(buf), n, Len(answer))
    BY <2>5 DEF WireInv
  <2>10. InOrder(provider, v, off[h + 1], n, Len(answer))
    BY <1>6, <2>6, <2>8, <2>9, SqueezeInOrder
  <2> QED  BY <1>2, <1>4, <2>3, <2>7, <2>8, <2>10 DEF WireInv
<1> QED  BY <1>5, <1>6

\* Where the separators begin, and that none ends before the first one.
LEMMA EndsAre ==
    ASSUME buf \in Seq(Units)
    PROVE  \E l \in {1, 2} :
               /\ l = Len(Separator) /\ (l = 1 <=> provider = "ollama")
               /\ Ends(buf) = {i \in 1 .. Len(buf) + 1 - l : \A j \in 1 .. l : buf[i + j - 1] = LF}
<1>3. PICK m \in Nat : m = Len(buf)
  OBVIOUS
<1>4. PICK l \in {1, 2} : l = Len(Separator) /\ (l = 1 <=> provider = "ollama") /\ \A i \in 1 .. l : Separator[i] = LF
  BY DEF Separator
<1>5. Ends(buf) = {i \in 1 .. m + 1 - l : \A j \in 1 .. l : buf[i + j - 1] = LF}
  <2>1. ASSUME NEW i \in 1 .. m + 1 - l
        PROVE  SubSeq(buf, i, i + l - 1) = Separator <=> \A j \in 1 .. l : buf[i + j - 1] = LF
    <3>1. SubSeq(buf, i, i + l - 1) \in Seq(Units) /\ Len(SubSeq(buf, i, i + l - 1)) = l
          /\ \A j \in 1 .. l : SubSeq(buf, i, i + l - 1)[j] = buf[i + j - 1]
      <4>1. i \in Int /\ i + l - 1 \in Int /\ \A q \in i .. i + l - 1 : buf[q] \in Units
        BY <1>3
      <4>2. /\ SubSeq(buf, i, i + l - 1) \in Seq(Units)
            /\ Len(SubSeq(buf, i, i + l - 1)) = IF i <= i + l - 1 THEN (i + l - 1) - i + 1 ELSE 0
            /\ \A j \in 1 .. (i + l - 1) - i + 1 : SubSeq(buf, i, i + l - 1)[j] = buf[i + j - 1]
        BY <4>1, SubSeqProperties
      <4>3. (i + l - 1) - i + 1 = l /\ i <= i + l - 1
        OBVIOUS
      <4> QED  BY <4>2, <4>3
    <3>2. Separator \in Seq(Units)
      <4>1. LF \in Units
        BY UnitFacts
      <4>2. <<LF>> \in Seq(Units) /\ <<LF, LF>> \in Seq(Units)
        BY <4>1
      <4> QED  BY <4>2 DEF Separator
    <3> QED  BY <1>4, <3>1, <3>2, SeqEqual
  <2> QED  BY <1>3, <1>4, <2>1 DEF Ends
<1> QED  BY <1>3, <1>4, <1>5

LEMMA NoEndBefore ==
    ASSUME buf \in Seq(Units), NEW w, \A i \in 1 .. Len(buf) : w[i] = buf[i],
           NEW e \in Nat, e <= Len(buf), \A i \in 1 .. e : i \notin Ends(buf)
    PROVE  Unbroken(provider, w, e)
<1>3. PICK m \in Nat : m = Len(buf)
  OBVIOUS
<1>4. PICK l \in {1, 2} : /\ l = Len(Separator) /\ (l = 1 <=> provider = "ollama")
                          /\ Ends(buf) = {i \in 1 .. m + 1 - l : \A j \in 1 .. l : buf[i + j - 1] = LF}
  BY <1>3, EndsAre
<1>5. Ends(buf) = {i \in 1 .. m + 1 - l : \A j \in 1 .. l : buf[i + j - 1] = LF}
  BY <1>4
<1>6. l \in {1, 2} /\ (l = 1 <=> provider = "ollama")
  BY <1>4
<1>9. e <= m
  BY <1>3
<1>12. \A i \in 1 .. m : w[i] = buf[i]
  BY <1>3
<1>14. Unbroken(provider, w, e)
  <2>1. \A i \in 1 .. e : i \notin Ends(buf)
    OBVIOUS
  <2>2. CASE provider = "ollama"
    <3>1. ASSUME NEW s \in 1 .. e PROVE w[s] # LF
      <4>1. s \in 1 .. m + 1 - l /\ \A j \in 1 .. l : s + j - 1 = s
        BY <1>6, <1>9, <2>2
      <4>2. buf[s] # LF
        BY <1>5, <2>1, <4>1
      <4> QED  BY <1>9, <1>12, <4>2
    <3> QED  BY <2>2, <3>1 DEF Unbroken
  <2>3. CASE provider # "ollama"
    <3>1. ASSUME NEW s \in 1 .. e - 1 PROVE ~(w[s] = LF /\ w[s + 1] = LF)
      <4>1. l = 2 /\ s \in 1 .. m + 1 - l /\ s + 1 \in 1 .. m /\ s \in 1 .. m /\ s \in 1 .. e
        BY <1>6, <1>9, <2>3
      <4>2. \A j \in 1 .. l : s + j - 1 \in {s, s + 1}
        BY <4>1
      <4>3. ~(buf[s] = LF /\ buf[s + 1] = LF)
        BY <1>5, <2>1, <4>1, <4>2
      <4> QED  BY <1>12, <4>1, <4>3
    <3> QED  BY <2>3, <3>1 DEF Unbroken
  <2> QED  BY <2>2, <2>3
<1> QED  BY <1>14

\* The first frame, and what is left without it.
LEMMA FrameKeepsOrder ==
    ASSUME NEW n, WireInv(n), DOMAIN answer = 1 .. Len(answer), TakeFrame
    PROVE  LET at == CHOOSE i \in Ends(buf) : \A j \in Ends(buf) : i <= j
               k  == Payload(SubSeq(buf, 1, at - 1))
           IN  \/ k = 0 /\ WireInv(n)'
               \/ k = n + 1 /\ n + 1 \in DOMAIN answer /\ WireInv(n + 1)'
<1> DEFINE at == CHOOSE i \in Ends(buf) : \A j \in Ends(buf) : i <= j
           k  == Payload(SubSeq(buf, 1, at - 1))
<1>1. buf \in Seq(Units) /\ wire \in Seq(Units)
  BY DEF WireInv
<1>2. /\ Ends(buf) # {} /\ buf' = SubSeq(buf, at + Len(Separator), Len(buf))
      /\ UNCHANGED <<provider, answer, wire>>
  BY Zenon DEF TakeFrame
<1>3. PICK m \in Nat : m = Len(buf)
  BY <1>1
<1>4. PICK l \in {1, 2} : /\ l = Len(Separator) /\ (l = 1 <=> provider = "ollama")
                          /\ Ends(buf) = {i \in 1 .. m + 1 - l : \A j \in 1 .. l : buf[i + j - 1] = LF}
  BY <1>1, <1>3, EndsAre
<1>5. Ends(buf) = {i \in 1 .. m + 1 - l : \A j \in 1 .. l : buf[i + j - 1] = LF}
  BY <1>4
<1>6. at \in Ends(buf) /\ \A j \in Ends(buf) : at <= j
  <2>1. Ends(buf) \in SUBSET Nat
    BY <1>5
  <2>2. \E i \in Ends(buf) : \A j \in Ends(buf) : i <= j
    BY <1>2, <2>1, Least
  <2> QED  BY <2>2
<1> HIDE DEF at
<1>7. at \in 1 .. m + 1 - l /\ buf[at] = LF /\ (l = 2 => buf[at + 1] = LF)
  <2>1. at \in 1 .. m + 1 - l /\ \A j \in 1 .. l : buf[at + j - 1] = LF
    BY <1>5, <1>6
  <2>2. 1 \in 1 .. l /\ at + 1 - 1 = at /\ (l = 2 => 2 \in 1 .. l /\ at + 2 - 1 = at + 1)
    BY <2>1
  <2> QED  BY <2>1, <2>2
<1>8. PICK frame : frame = SubSeq(buf, 1, at - 1)
  OBVIOUS
<1>9. PICK e \in Nat : e = at - 1 /\ e < m
  BY <1>3, <1>7
<1>10. frame \in Seq(Units) /\ Len(frame) = e /\ \A i \in 1 .. e : frame[i] = buf[i]
  BY <1>1, <1>3, <1>8, <1>9
<1>11. PICK w : w = buf \o wire
  OBVIOUS
<1>12. w \in Seq(Units) /\ (\A i \in 1 .. m : w[i] = buf[i]) /\ Len(w) = m + Len(wire) /\ \A i \in 1 .. Len(wire) : w[m + i] = wire[i]
  <2>1. PICK x, y : Joins(Units, buf, wire, x, y, w)
    BY <1>1, <1>11, Joined
  <2> QED  BY <1>3, <2>1 DEF Joins
<1>13. InOrder(provider, w, m, n, Len(answer))
  BY <1>3, <1>11 DEF WireInv
<1>14. Unbroken(provider, w, e)
  <2>1. \A i \in 1 .. e : i \notin Ends(buf)
    BY <1>6, <1>7, <1>9
  <2>2. (\A i \in 1 .. Len(buf) : w[i] = buf[i]) /\ e <= Len(buf)
    BY <1>3, <1>9, <1>12
  <2> QED  BY <1>1, <2>1, <2>2, NoEndBefore
<1>15. /\ Payload(frame) # 0 => /\ Payload(frame) = n + 1 /\ n + 1 \in DOMAIN answer
                                /\ \E i \in 1 .. e : w[i].u = "a"
       /\ \A i \in 1 .. e : i < e /\ w[i].u = "a" => Payload(frame) = n + 1
  <2>1. Len(frame) <= m /\ \A i \in 1 .. Len(frame) : frame[i] = w[i]
    BY <1>9, <1>10, <1>12
  <2>2. Unbroken(provider, w, Len(frame))
    BY <1>10, <1>14
  <2>3. /\ Payload(frame) # 0 => /\ Payload(frame) = n + 1 /\ n + 1 \in DOMAIN answer
                                 /\ \E i \in 1 .. Len(frame) : w[i].u = "a"
        /\ \A i \in 1 .. Len(frame) : i < Len(frame) /\ w[i].u = "a" => Payload(frame) = n + 1
    BY <1>10, <1>13, <2>1, <2>2, PayloadIsNext
  <2> QED  BY <1>10, <2>3
<1>16. PICK d \in Nat : d = e + l /\ d <= m
  BY <1>7, <1>9
<1>17. buf' \in Seq(Units) /\ Len(buf') = m - d /\ \A i \in 1 .. m - d : buf'[i] = buf[d + i]
  <2>1. at + Len(Separator) = d + 1
    BY <1>4, <1>7, <1>9, <1>16
  <2>2. buf' = SubSeq(buf, d + 1, Len(buf)) /\ d <= Len(buf)
    BY <1>2, <1>3, <1>16, <2>1
  <2>3. /\ SubSeq(buf, d + 1, Len(buf)) \in Seq(Units)
        /\ Len(SubSeq(buf, d + 1, Len(buf))) = Len(buf) - d
        /\ \A i \in 1 .. Len(buf) - d : SubSeq(buf, d + 1, Len(buf))[i] = buf[d + i]
    BY <1>1, <2>2, SplitAt
  <2> QED  BY <1>3, <2>2, <2>3
<1>18. PICK v : v = buf' \o wire'
  OBVIOUS
<1>19. v \in Seq(Units) /\ Len(v) = Len(w) - d /\ \A i \in 1 .. Len(v) : v[i] = w[d + i]
  <2>1. PICK z \in Nat : z = Len(wire)
    BY <1>1
  <2>2. PICK x, y : Joins(Units, buf', wire, x, y, v)
    BY <1>1, <1>2, <1>17, <1>18, Joined
  <2>3. x = m - d /\ y = z
    BY <1>17, <2>1, <2>2 DEF Joins
  <2>4. Len(v) = m - d + z /\ Len(w) = m + z
    BY <1>12, <2>1, <2>2, <2>3 DEF Joins
  <2>5. ASSUME NEW i \in 1 .. m - d + z PROVE v[i] = w[d + i]
    <3>1. CASE i \in 1 .. m - d
      <4>1. v[i] = buf'[i] /\ d + i \in 1 .. m
        BY <1>16, <2>2, <2>3, <3>1 DEF Joins
      <4> QED  BY <1>12, <1>17, <3>1, <4>1
    <3>2. CASE \E j \in 1 .. z : i = m - d + j
      <4>1. PICK j \in 1 .. z : i = m - d + j /\ d + i = m + j
        BY <1>16, <3>2
      <4>2. v[i] = wire[j]
        BY <2>2, <2>3, <4>1 DEF Joins
      <4> QED  BY <1>12, <2>1, <4>1, <4>2
    <3> QED  BY <2>2, <2>3, <3>1, <3>2 DEF Joins
  <2>6. Len(v) = Len(w) - d /\ v \in Seq(Units)
    <3>1. (m - d) + z = (m + z) - d
      BY <1>16
    <3> QED  BY <2>2, <2>4, <3>1 DEF Joins
  <2> QED  BY <2>4, <2>5, <2>6
<1>20. PICK L \in Nat : L = Len(w) /\ m <= L
  BY <1>1, <1>12
<1>21. \A i \in e + 1 .. d : w[i] = LF
  <2>1. e + 1 = at /\ (l = 1 => d = at) /\ (l = 2 => d = at + 1) /\ at \in 1 .. m /\ (l = 2 => at + 1 \in 1 .. m)
    BY <1>7, <1>9, <1>16
  <2>2. w[at] = LF /\ (l = 2 => w[at + 1] = LF)
    BY <1>7, <1>12, <2>1
  <2> QED  BY <2>1, <2>2
<1>22. d < L => w[d + 1].u # "b"
  <2>1. ASSUME d < L, w[d + 1].u = "b" PROVE FALSE
    <3>1. d + 1 \in 1 .. Len(w) /\ (d + 1) - 1 = d /\ d \in e + 1 .. d
      BY <1>16, <1>20, <2>1
    <3>2. w[(d + 1) - 1] = A(w[d + 1].of)
      BY <1>13, <2>1, <3>1 DEF InOrder
    <3>3. w[d] = LF
      BY <1>21, <3>1
    <3> QED  BY <3>1, <3>2, <3>3, UnitFacts DEF A
  <2> QED  BY <2>1
<1>23. ASSUME NEW k2 \in Nat, n <= k2, k2 <= Len(answer),
              \A i \in 1 .. L : w[i].u = "a" => (i <= d <=> w[i].of <= k2)
       PROVE  WireInv(k2)'
  <2>1. InOrder(provider, v, m - d, k2, Len(answer))
    <3>1. \A i \in 1 .. Len(w) : w[i].u = "a" => (i <= d <=> w[i].of <= k2)
      BY <1>20, <1>23
    <3>2. Drops(w, m, n, Len(answer), d, k2, v)
      BY <1>16, <1>19, <1>20, <1>22, <1>23, <3>1 DEF Drops
    <3> QED  BY <1>13, <3>2, DropInOrder
  <2> QED  BY <1>1, <1>2, <1>17, <1>18, <2>1 DEF WireInv
<1>24. \A i \in 1 .. L : w[i].u = "a" => w[i].of \in n + 1 .. Len(answer) /\ w[i + 1].u = "b" /\ w[i].u # "lf"
  <2>1. ASSUME NEW i \in 1 .. L, w[i].u = "a" PROVE w[i].of \in n + 1 .. Len(answer) /\ w[i + 1].u = "b"
    <3>1. w[i].of \in n + 1 .. Len(answer) /\ w[i + 1] = B(w[i].of)
      BY <1>13, <1>20, <2>1 DEF InOrder
    <3> QED  BY <3>1 DEF B
  <2> QED  BY <2>1
<1>25. n \in Nat /\ Len(answer) \in Nat /\ n <= Len(answer)
  BY <1>13 DEF InOrder
<1>26. CASE \E i \in 1 .. e : w[i].u = "a"
  <2>1. PICK i \in 1 .. e : w[i].u = "a"
    BY <1>26
  <2>2. w[i] = A(n + 1) /\ \A j \in 1 .. e : w[j].u = "a" => j = i
    BY <1>9, <1>13, <1>14, <2>1, NextInFrame
  <2>3. i < e
    <3>1. i # e
      <4>1. ASSUME i = e PROVE FALSE
        <5>1. w[i + 1] = LF /\ i \in 1 .. L
          BY <1>9, <1>16, <1>20, <1>21, <4>1
        <5> QED  BY <1>24, <2>1, <5>1, UnitFacts
      <4> QED  BY <4>1
    <3> QED  BY <3>1
  <2>4. Payload(frame) = n + 1 /\ n + 1 \in DOMAIN answer
    <3>1. Payload(frame) = n + 1
      BY <1>15, <2>1, <2>3
    <3> QED  BY <1>15, <1>25, <3>1
  <2>5. ASSUME NEW j \in 1 .. L, w[j].u = "a" PROVE j <= d <=> w[j].of <= n + 1
    <3>1. w[i].of = n + 1 /\ w[i].u = "a" /\ i \in 1 .. L
      BY <1>9, <1>20, <1>25, <2>2, UnitFacts
    <3>2. CASE j = i
      <4>1. i <= d /\ n + 1 <= n + 1
        BY <1>16, <1>25
      <4> QED  BY <3>1, <3>2, <4>1
    <3>3. CASE j < i
      <4>1. j \in 1 .. e
        BY <3>3
      <4> QED  BY <2>2, <2>5, <3>3, <4>1
    <3>4. CASE i < j
      <4>1. w[i].of < w[j].of
        BY <1>13, <1>20, <2>5, <3>1, <3>4 DEF InOrder
      <4>2. ~(w[j].of <= n + 1)
        <5>1. PICK x \in Nat : x = w[j].of
          BY <1>24, <1>25, <2>5
        <5> QED  BY <1>25, <3>1, <4>1, <5>1
      <4>3. ~(j <= d)
        <5>1. j \in 1 .. e => j = i
          BY <2>2, <2>5
        <5>2. j \in e + 1 .. d => w[j].u = "lf"
          BY <1>21, UnitFacts
        <5> QED  BY <2>5, <3>4, <5>1, <5>2
      <4> QED  BY <4>2, <4>3
    <3> QED  BY <3>2, <3>3, <3>4
  <2>6. WireInv(n + 1)'
    <3>1. PICK k2 \in Nat : k2 = n + 1 /\ n <= k2 /\ k2 <= Len(answer)
      BY <1>25, <2>4
    <3>2. \A j \in 1 .. L : w[j].u = "a" => (j <= d <=> w[j].of <= k2)
      BY <2>5, <3>1
    <3>3. WireInv(k2)'
      BY <1>23, <3>1, <3>2
    <3> QED  BY <3>1, <3>3
  <2> QED  BY <1>8, <2>4, <2>6 DEF at
<1>27. CASE ~\E i \in 1 .. e : w[i].u = "a"
  <2>1. Payload(frame) = 0
    BY <1>15, <1>27
  <2>2. ASSUME NEW j \in 1 .. L, w[j].u = "a" PROVE j <= d <=> w[j].of <= n
    <3>1. ~(w[j].of <= n)
      <4>1. PICK x \in n + 1 .. Len(answer) : x = w[j].of
        BY <1>24, <2>2
      <4>2. ~(x <= n)
        BY <1>25
      <4> QED  BY <4>1, <4>2
    <3>2. ~(j <= d)
      <4>1. j \in e + 1 .. d => w[j].u = "lf"
        BY <1>21, UnitFacts
      <4>2. j \notin 1 .. e
        BY <1>27, <2>2
      <4> QED  BY <2>2, <4>1, <4>2
    <3> QED  BY <3>1, <3>2
  <2>3. WireInv(n)'
    BY <1>23, <1>25, <2>2
  <2> QED  BY <1>8, <2>1, <2>3 DEF at
<1> QED  BY <1>26, <1>27

\* What is left when the connection ends.
LEMMA RestIsNext ==
    ASSUME NEW n, WireInv(n), DOMAIN answer = 1 .. Len(answer), Ends(buf) = {}, Payload(buf) # 0
    PROVE  Payload(buf) = n + 1 /\ n + 1 \in DOMAIN answer
<1>1. buf \in Seq(Units) /\ wire \in Seq(Units)
  BY DEF WireInv
<1>2. PICK m \in Nat : m = Len(buf)
  BY <1>1
<1>3. PICK w : w = buf \o wire
  OBVIOUS
<1>4. \A i \in 1 .. m : w[i] = buf[i]
  <2>1. PICK x, y : Joins(Units, buf, wire, x, y, w)
    BY <1>1, <1>3, Joined
  <2> QED  BY <1>2, <2>1 DEF Joins
<1>5. InOrder(provider, w, m, n, Len(answer))
  BY <1>2, <1>3 DEF WireInv
<1>6. Unbroken(provider, w, m)
  <2>1. (\A i \in 1 .. Len(buf) : w[i] = buf[i]) /\ m <= Len(buf) /\ \A i \in 1 .. m : i \notin Ends(buf)
    BY <1>2, <1>4
  <2> QED  BY <1>1, <2>1, NoEndBefore
<1>7. Unbroken(provider, w, Len(buf)) /\ Len(buf) <= m /\ \A i \in 1 .. Len(buf) : buf[i] = w[i]
  BY <1>2, <1>4, <1>6
<1> QED  BY <1>1, <1>5, <1>7, PayloadIsNext

LEMMA OpenInOrder ==
    ASSUME NEW p, NEW a \in Seq(Payloads), NEW nl \in {<<LF>>, <<CR, LF>>}, buf = <<>>, OpenStream(p, a, nl)
    PROVE  WireInv(0)'
<1>1. PICK N \in Nat : N = Len(a) /\ DOMAIN a = 1 .. N
  OBVIOUS
<1>2. PICK f : f = FlattenSeq([k \in 1 .. N |-> Sent(p, k, nl)])
  OBVIOUS
<1>3. provider' = p /\ answer' = a /\ buf' = <<>> /\ wire' = f
  BY <1>1, <1>2 DEF OpenStream
<1>4. InOrder(p, f, 0, 0, N)
  BY <1>2, SentInOrder
<1>5. f \in Seq(Units) /\ Len(<<>>) = 0 /\ <<>> \in Seq(Units) /\ <<>> \o f = f
  <2>1. f \in Seq(Units)
    BY <1>4 DEF InOrder
  <2> QED  BY <2>1, NoUnits
<1> QED  BY <1>1, <1>3, <1>4, <1>5 DEF WireInv
=============================================================================
