--------------------------- MODULE ArtifactProofs ---------------------------
(***************************************************************************)
(* Proofs about published artifacts (module Artifacts), for every          *)
(* repository, set of callers, pin, file sizes and bound of the cache: the *)
(* views are the published manifests in their order, explicit versions     *)
(* keep their files, what is loaded stays as it is, and the cache counts   *)
(* right.                                                                  *)
(*                                                                         *)
(* The set is changed by the holder of the probe slot only, so that what   *)
(* it fetched without the lock still follows the last view when it is      *)
(* installed; the rest is an induction over the manifests added.           *)
(***************************************************************************)
EXTENDS Artifacts, WellFoundedInduction, TLAPS

\* A set of naturals that is not empty has a least one: what induction rests on.
LEMMA LeastNatural ==
    ASSUME NEW T \in SUBSET Nat, T # {}
    PROVE  \E n \in T : \A m \in T : ~(m < n)
<1> DEFINE R == OpToRel(<, Nat)
<1>1. \E x \in T : \A y \in T : ~ (<<y, x>> \in R)
  <2>1. IsWellFoundedOn(R, Nat)
    BY NatLessThanWellFounded, Zenon
  <2> HIDE DEF R
  <2> QED BY <2>1, WFMin, Zenon
<1> QED BY <1>1, Zenon DEF OpToRel

\* Induction up to a bound, over a set.
LEMMA UpTo ==
    ASSUME NEW N \in Nat, NEW T, 0 \in T, \A n \in 0 .. N : n \in T /\ n < N => n + 1 \in T
    PROVE  \A n \in 0 .. N : n \in T
<1> DEFINE B == {n \in 0 .. N : n \notin T}
<1>1. SUFFICES ASSUME B # {} PROVE FALSE
  BY Zenon
<1>2. B \in SUBSET Nat
  OBVIOUS
<1>3. PICK n \in B : \A m \in B : ~(m < n)
  <2> HIDE DEF B
  <2> QED BY <1>1, <1>2, LeastNatural, Zenon
<1>4. n \in Nat /\ n # 0 /\ n - 1 \in 0 .. N /\ n - 1 < N /\ (n - 1) + 1 = n
  OBVIOUS
<1>5. n - 1 \in T
  BY <1>3, <1>4
<1> QED BY <1>4, <1>5, Zenon

-----------------------------------------------------------------------------
(***************************************************************************)
(* The size of a sequence of files.  SizeOf is defined by recursion, so that *)
(* what it returns is shown by induction: over a set of numbers, without an *)
(* operator as a parameter.                                                *)
(***************************************************************************)
\* The sums that SizeOf forms, up to N files.
SumTo(h, order, N) == h = [n \in 0 .. N |-> IF n = 0 THEN 0 ELSE h[n - 1] + sizeOf[order[n]]]

\* Each sum is what the recursion says.
LEMMA SumValue ==
    ASSUME NEW order, NEW N, NEW h, SumTo(h, order, N), NEW n \in 0 .. N
    PROVE  h[n] = IF n = 0 THEN 0 ELSE h[n - 1] + sizeOf[order[n]]
<1>1. h = [m \in 0 .. N |-> IF m = 0 THEN 0 ELSE h[m - 1] + sizeOf[order[m]]]
  BY Zenon DEF SumTo
<1>2. PICK g : g = h
  BY Zenon
<1>3. h = [m \in 0 .. N |-> IF m = 0 THEN 0 ELSE g[m - 1] + sizeOf[order[m]]]
  BY <1>1, <1>2, Zenon
<1>4. h[n] = IF n = 0 THEN 0 ELSE g[n - 1] + sizeOf[order[n]]
  BY <1>3, Zenon
<1> QED BY <1>2, <1>4, Zenon

\* There are such sums, for any number of files.
LEMMA SumExists ==
    ASSUME NEW order, NEW N \in Nat
    PROVE  \E h : SumTo(h, order, N)
<1> DEFINE T == {n \in 0 .. N : \E h : SumTo(h, order, n)}
<1>1. 0 \in T
  <2> DEFINE h == [n \in 0 .. 0 |-> 0]
  <2>1. h = [n \in 0 .. 0 |-> IF n = 0 THEN 0 ELSE h[n - 1] + sizeOf[order[n]]]
    OBVIOUS
  <2>2. SumTo(h, order, 0)
    BY <2>1, Zenon DEF SumTo
  <2> QED BY <2>2
<1>2. ASSUME NEW n \in 0 .. N, n \in T, n < N PROVE n + 1 \in T
  <2>1. PICK h : SumTo(h, order, n)
    BY <1>2, Zenon
  <2> DEFINE g == [j \in 0 .. n + 1 |-> IF j <= n THEN h[j] ELSE h[n] + sizeOf[order[n + 1]]]
  <2>2. ASSUME NEW j \in 0 .. n + 1
        PROVE  g[j] = IF j = 0 THEN 0 ELSE g[j - 1] + sizeOf[order[j]]
    <3>1. CASE j <= n
      <4>1. g[j] = h[j] /\ (j # 0 => g[j - 1] = h[j - 1])
        BY <3>1
      <4>2. h[j] = IF j = 0 THEN 0 ELSE h[j - 1] + sizeOf[order[j]]
        BY <2>1, <3>1, SumValue
      <4> QED BY <4>1, <4>2, Zenon
    <3>2. CASE j = n + 1
      <4>1. g[j - 1] = h[n] /\ g[j] = h[n] + sizeOf[order[j]] /\ j # 0
        BY <3>2
      <4> QED BY <4>1, Zenon
    <3> QED BY <3>1, <3>2
  <2>3. g = [j \in 0 .. n + 1 |-> IF j = 0 THEN 0 ELSE g[j - 1] + sizeOf[order[j]]]
    BY <2>2, Zenon
  <2>4. SumTo(g, order, n + 1)
    BY <2>3, Zenon DEF SumTo
  <2>5. n + 1 \in 0 .. N
    BY <1>2
  <2> QED BY <2>4, <2>5, Zenon
<1>3. N \in T
  <2> HIDE DEF T
  <2> QED BY <1>1, <1>2, UpTo
<1> QED BY <1>3, Zenon

\* SizeOf is the last of them.
LEMMA SumFound ==
    ASSUME NEW order, Len(order) \in Nat
    PROVE  \E h : SumTo(h, order, Len(order)) /\ SizeOf(order) = h[Len(order)]
<1> DEFINE P(h) == SumTo(h, order, Len(order))
<1>1. P(CHOOSE h : P(h))
  <2>1. \E h : P(h)
    BY SumExists, Zenon
  <2> HIDE DEF P
  <2> QED BY <2>1, Zenon
<1>2. SizeOf(order) = (CHOOSE h : P(h))[Len(order)]
  BY Zenon DEF SizeOf, SumTo
<1> QED BY <1>1, <1>2, Zenon

\* One more file adds its size.
LEMMA SumStep ==
    ASSUME NEW N \in Nat, NEW order, NEW h, SumTo(h, order, N), NEW n \in 0 .. N, n < N
    PROVE  h[n + 1] = h[n] + sizeOf[order[n + 1]]
<1>1. PICK k : k = n + 1
  BY Zenon
<1>2. k \in 0 .. N /\ k # 0 /\ k - 1 = n
  BY <1>1
<1>3. h[k] = h[k - 1] + sizeOf[order[k]]
  BY <1>2, SumValue
<1> QED BY <1>1, <1>2, <1>3, Zenon

\* The sums over equal files are equal.
LEMMA SumsAgree ==
    ASSUME NEW M \in Nat, NEW N \in Nat, NEW L \in Nat, L <= M, L <= N,
           NEW s, NEW t, NEW g, NEW h, SumTo(g, s, M), SumTo(h, t, N),
           \A i \in 1 .. L : s[i] = t[i]
    PROVE  g[L] = h[L]
<1> DEFINE T == {n \in 0 .. L : g[n] = h[n]}
<1>1. 0 \in T
  BY SumValue
<1>2. ASSUME NEW n \in 0 .. L, n \in T, n < L PROVE n + 1 \in T
  <2>1. g[n + 1] = g[n] + sizeOf[s[n + 1]]
    BY <1>2, SumStep
  <2>2. h[n + 1] = h[n] + sizeOf[t[n + 1]]
    BY <1>2, SumStep
  <2>3. s[n + 1] = t[n + 1] /\ n + 1 \in 0 .. L
    BY <1>2
  <2> QED BY <1>2, <2>1, <2>2, <2>3, Zenon
<1>3. L \in T
  <2> HIDE DEF T
  <2> QED BY <1>1, <1>2, UpTo
<1> QED BY <1>3, Zenon

\* Sums are naturals.
LEMMA SumIsNatural ==
    ASSUME NEW N \in Nat, NEW order, NEW h, SumTo(h, order, N), NEW L \in 0 .. N,
           \A i \in 1 .. N : order[i] \in DOMAIN sizeOf
    PROVE  h[L] \in Nat
<1> DEFINE T == {n \in 0 .. N : h[n] \in Nat}
<1>1. 0 \in T
  BY SumValue
<1>2. ASSUME NEW n \in 0 .. N, n \in T, n < N PROVE n + 1 \in T
  <2>1. h[n + 1] = h[n] + sizeOf[order[n + 1]]
    BY <1>2, SumStep
  <2>2. sizeOf[order[n + 1]] \in Nat /\ n + 1 \in 0 .. N
    BY <1>2, ArtifactAssumption
  <2> QED BY <1>2, <2>1, <2>2
<1>3. \A n \in 0 .. N : n \in T
  <2> HIDE DEF T
  <2> QED BY <1>1, <1>2, UpTo, Zenon
<1> QED BY <1>3, Zenon

\* So is the size of a sequence of files.
LEMMA SizeIsNatural ==
    ASSUME NEW order \in Seq(DOMAIN sizeOf)
    PROVE  SizeOf(order) \in Nat
<1>1. Len(order) \in Nat /\ \A i \in 1 .. Len(order) : order[i] \in DOMAIN sizeOf
  OBVIOUS
<1>2. PICK h : SumTo(h, order, Len(order)) /\ SizeOf(order) = h[Len(order)]
  BY <1>1, SumFound, Zenon
<1> QED BY <1>1, <1>2, SumIsNatural

\* No file has the size 0.
LEMMA SizeOfNone == SizeOf(<<>>) = 0
<1>1. Len(<<>>) = 0
  BY Zenon
<1> QED BY <1>1, SumFound, SumValue

\* One file has its own size.
LEMMA SizeOfOne ==
    ASSUME NEW path \in DOMAIN sizeOf
    PROVE  SizeOf(<<path>>) = sizeOf[path]
<1>1. Len(<<path>>) = 1 /\ <<path>>[1] = path
  BY Zenon
<1>2. PICK h : SumTo(h, <<path>>, 1) /\ SizeOf(<<path>>) = h[1]
  BY <1>1, SumFound, Zenon
<1>3. h[1] = h[0] + sizeOf[path] /\ h[0] = 0
  BY <1>1, <1>2, SumValue
<1>4. sizeOf[path] \in Nat
  BY ArtifactAssumption, Zenon
<1> QED BY <1>2, <1>3, <1>4

\* Sizes add up: SizeOf distributes over concatenation.
LEMMA SizeOfBoth ==
    ASSUME NEW s \in Seq(DOMAIN sizeOf), NEW t \in Seq(DOMAIN sizeOf)
    PROVE  SizeOf(s \o t) = SizeOf(s) + SizeOf(t)
<1> DEFINE u == s \o t
<1>1. /\ Len(s) \in Nat /\ Len(t) \in Nat /\ Len(u) = Len(s) + Len(t) /\ Len(u) \in Nat
      /\ u \in Seq(DOMAIN sizeOf)
      /\ \A i \in 1 .. Len(s) : u[i] = s[i]
      /\ \A i \in 1 .. Len(t) : u[Len(s) + i] = t[i]
  OBVIOUS
<1> HIDE DEF u
<1>2. PICK f : SumTo(f, s, Len(s)) /\ SizeOf(s) = f[Len(s)]
  BY <1>1, SumFound, Zenon
<1>3. PICK g : SumTo(g, t, Len(t)) /\ SizeOf(t) = g[Len(t)]
  BY <1>1, SumFound, Zenon
<1>4. PICK h : SumTo(h, u, Len(u)) /\ SizeOf(u) = h[Len(u)]
  BY <1>1, SumFound, Zenon
<1>5. h[Len(s)] = f[Len(s)]
  <2>1. Len(s) <= Len(u) /\ Len(s) <= Len(s)
    BY <1>1
  <2>2. PICK m : m = Len(s)
    BY Zenon
  <2>3. m \in Nat /\ m <= Len(s) /\ m <= Len(u) /\ \A i \in 1 .. m : u[i] = s[i]
    BY <1>1, <2>1, <2>2, Zenon
  <2>4. h[m] = f[m]
    BY <1>1, <1>2, <1>4, <2>3, SumsAgree
  <2> QED BY <2>2, <2>4, Zenon
<1>6. f[Len(s)] \in Nat
  BY <1>2, SizeIsNatural, Zenon
<1>7. \A n \in 0 .. Len(t) : g[n] \in Nat
  BY <1>1, <1>3, SumIsNatural
<1> DEFINE T == {n \in 0 .. Len(t) : h[Len(s) + n] = f[Len(s)] + g[n]}
<1>8. 0 \in T
  <2>1. 0 \in 0 .. Len(t)
    BY <1>1
  <2>2. g[0] = 0
    BY <1>3, <2>1, SumValue
  <2> QED BY <1>1, <1>5, <1>6, <2>1, <2>2
<1>9. ASSUME NEW n \in 0 .. Len(t), n \in T, n < Len(t) PROVE n + 1 \in T
  <2>1. n + 1 \in 1 .. Len(t)
    BY <1>1, <1>9
  <2>2. g[n + 1] = g[n] + sizeOf[t[n + 1]]
    BY <1>1, <1>3, <1>9, SumStep
  <2>3. PICK m : m = Len(s) + n
    BY Zenon
  <2>4. m + 1 = Len(s) + (n + 1) /\ m \in 0 .. Len(u) /\ m < Len(u)
    BY <1>1, <2>1, <2>3
  <2>5. h[m + 1] = h[m] + sizeOf[u[m + 1]]
    <3>1. Len(u) \in Nat
      BY <1>1, Zenon
    <3> QED BY <1>4, <2>4, <3>1, SumStep, Zenon
  <2>6. u[m + 1] = t[n + 1]
    BY <1>1, <2>1, <2>4
  <2>7. sizeOf[t[n + 1]] \in Nat
    BY <1>1, <2>1, ArtifactAssumption
  <2>8. h[m] = f[Len(s)] + g[n]
    BY <1>9, <2>3, Zenon
  <2>9. h[m + 1] = f[Len(s)] + g[n + 1]
    BY <1>6, <1>7, <2>2, <2>5, <2>6, <2>7, <2>8
  <2> QED BY <2>1, <2>4, <2>9
<1>10. Len(t) \in T
  <2> HIDE DEF T
  <2>1. Len(t) \in 0 .. Len(t)
    BY <1>1
  <2> QED BY <1>1, <1>8, <1>9, <2>1, UpTo, Zenon
<1>11. h[Len(u)] = f[Len(s)] + g[Len(t)]
  BY <1>1, <1>10, Zenon
<1> QED BY <1>2, <1>3, <1>4, <1>11, Zenon DEF u

-----------------------------------------------------------------------------
(***************************************************************************)
(* The cache.                                                              *)
(***************************************************************************)
\* The cache: its order is a sequence of files, each is in it once, and its size is the sum
\* of theirs and within the bound (cachingLoader).
CacheInv ==
    /\ DOMAIN cache = {"order", "size"}
    /\ cache.order \in Seq(DOMAIN sizeOf)
    /\ CacheIsBounded

\* Sequences with the same elements are equal.
LEMMA EqualSequences ==
    ASSUME NEW S, NEW s \in Seq(S), NEW t \in Seq(S), Len(s) = Len(t),
           \A i \in 1 .. Len(s) : s[i] = t[i]
    PROVE  s = t
OBVIOUS

\* The elements of a concatenation.
LEMMA Concatenated ==
    ASSUME NEW S, NEW s \in Seq(S), NEW t \in Seq(S)
    PROVE  /\ s \o t \in Seq(S)
           /\ Len(s \o t) = Len(s) + Len(t)
           /\ \A i \in 1 .. Len(s) : (s \o t)[i] = s[i]
           /\ \A i \in 1 .. Len(s) + Len(t) : i > Len(s) => (s \o t)[i] = t[i - Len(s)]
OBVIOUS

\* A sequence is its first n elements followed by the others.
LEMMA CutInTwo ==
    ASSUME NEW S, NEW s \in Seq(S), NEW n \in 0 .. Len(s)
    PROVE  /\ SubSeq(s, 1, n) \in Seq(S) /\ SubSeq(s, n + 1, Len(s)) \in Seq(S)
           /\ s = SubSeq(s, 1, n) \o SubSeq(s, n + 1, Len(s))
           /\ Len(SubSeq(s, 1, n)) = n /\ \A i \in 1 .. n : SubSeq(s, 1, n)[i] = s[i]
<1>1. /\ Len(s) \in Nat /\ n \in Nat
      /\ SubSeq(s, 1, n) \in Seq(S) /\ Len(SubSeq(s, 1, n)) = n
      /\ \A i \in 1 .. n : SubSeq(s, 1, n)[i] = s[i]
  OBVIOUS
<1>2. /\ SubSeq(s, n + 1, Len(s)) \in Seq(S) /\ Len(SubSeq(s, n + 1, Len(s))) = Len(s) - n
      /\ \A i \in 1 .. Len(s) - n : SubSeq(s, n + 1, Len(s))[i] = s[n + i]
  OBVIOUS
<1>3. PICK a, b : a = SubSeq(s, 1, n) /\ b = SubSeq(s, n + 1, Len(s))
  BY Zenon
<1>4. s = a \o b
  <2>1. a \in Seq(S) /\ b \in Seq(S) /\ Len(a) = n /\ Len(b) = Len(s) - n
    BY <1>1, <1>2, <1>3, Zenon
  <2>2. \A i \in 1 .. n : a[i] = s[i]
    BY <1>1, <1>3, Zenon
  <2>3. \A i \in 1 .. Len(s) - n : b[i] = s[n + i]
    BY <1>2, <1>3, Zenon
  <2>4. a \o b \in Seq(S) /\ Len(a \o b) = Len(s)
    BY <1>1, <2>1
  <2>5. \A i \in 1 .. Len(s) : (a \o b)[i] = s[i]
    <3> SUFFICES ASSUME NEW i \in 1 .. Len(s) PROVE (a \o b)[i] = s[i]
      BY Zenon
    <3>1. CASE i <= n
      BY <1>1, <2>1, <2>2, <3>1
    <3>2. CASE ~(i <= n)
      <4>1. i - n \in 1 .. Len(s) - n /\ n + (i - n) = i
        BY <1>1, <3>2
      <4>2. (a \o b)[i] = b[i - n]
        BY <1>1, <2>1, <3>2
      <4> QED BY <2>3, <4>1, <4>2, Zenon
    <3> QED BY <3>1, <3>2, Zenon
  <2>6. PICK c : c = a \o b
    BY Zenon
  <2>7. c \in Seq(S) /\ Len(s) = Len(c) /\ \A i \in 1 .. Len(s) : s[i] = c[i]
    BY <2>4, <2>5, <2>6, Zenon
  <2> QED BY <2>6, <2>7, EqualSequences, Zenon
<1> QED BY <1>1, <1>2, <1>3, <1>4, Zenon

\* What is where after a hit: the file is in front, those before it are one further back.
LEMMA MovedElements ==
    ASSUME NEW S, NEW s \in Seq(S), NEW k \in 1 .. Len(s)
    PROVE  LET m == MovedToFront(s, k) IN
           /\ m \in Seq(S) /\ Len(m) = Len(s)
           /\ \A i \in 1 .. Len(s) : m[i] = s[IF i = 1 THEN k ELSE IF i <= k THEN i - 1 ELSE i]
<1>1. PICK a, b : a = SubSeq(s, 1, k - 1) /\ b = SubSeq(s, k + 1, Len(s))
  BY Zenon
<1>2. /\ Len(s) \in Nat /\ k \in Nat
      /\ a \in Seq(S) /\ Len(a) = k - 1 /\ \A i \in 1 .. k - 1 : a[i] = s[i]
  BY <1>1
<1>3. b \in Seq(S) /\ Len(b) = Len(s) - k /\ \A i \in 1 .. Len(s) - k : b[i] = s[k + i]
  BY <1>1
<1>4. PICK c : c = a \o b
  BY Zenon
<1>5. c \in Seq(S) /\ Len(c) = Len(s) - 1
  <2>1. c \in Seq(S) /\ Len(c) = Len(a) + Len(b)
    BY <1>2, <1>3, <1>4, Concatenated, Zenon
  <2> QED BY <1>2, <1>3, <2>1
<1>6. \A i \in 1 .. k - 1 : c[i] = s[i]
  BY <1>2, <1>3, <1>4
<1>7. ASSUME NEW i \in k .. Len(s) - 1 PROVE c[i] = s[i + 1]
  <2>1. i - (k - 1) \in 1 .. Len(s) - k /\ k + (i - (k - 1)) = i + 1
    BY <1>2
  <2>2. c[i] = b[i - (k - 1)]
    BY <1>2, <1>3, <1>4
  <2> QED BY <1>3, <2>1, <2>2, Zenon
<1>8. PICK d : d = <<s[k]>> \o c
  BY Zenon
<1>9. d = MovedToFront(s, k)
  BY <1>1, <1>4, <1>8, Zenon DEF MovedToFront
<1>10. s[k] \in S
  OBVIOUS
<1>11. d \in Seq(S) /\ Len(d) = Len(s) /\ d[1] = s[k] /\ \A i \in 2 .. Len(s) : d[i] = c[i - 1]
  BY <1>2, <1>5, <1>8, <1>10
<1>12. ASSUME NEW i \in 1 .. Len(s)
       PROVE  d[i] = s[IF i = 1 THEN k ELSE IF i <= k THEN i - 1 ELSE i]
  <2>1. CASE i = 1
    BY <1>11, <2>1, Zenon
  <2>2. CASE i # 1 /\ i <= k
    <3>1. i \in 2 .. Len(s) /\ i - 1 \in 1 .. k - 1
      BY <1>2, <2>2
    <3> QED BY <1>6, <1>11, <2>2, <3>1, Zenon
  <2>3. CASE i # 1 /\ ~(i <= k)
    <3>1. i \in 2 .. Len(s) /\ i - 1 \in k .. Len(s) - 1 /\ (i - 1) + 1 = i
      BY <1>2, <2>3
    <3>2. c[i - 1] = s[(i - 1) + 1]
      BY <1>7, <3>1, Zenon
    <3> QED BY <1>11, <2>3, <3>1, <3>2, Zenon
  <2> QED BY <2>1, <2>2, <2>3, Zenon
<1> QED BY <1>9, <1>11, <1>12, Zenon

\* A hit leaves the size alone.
LEMMA MovedSize ==
    ASSUME NEW s \in Seq(DOMAIN sizeOf), NEW k \in 1 .. Len(s)
    PROVE  SizeOf(MovedToFront(s, k)) = SizeOf(s)
<1>1. PICK a, b, m : a = SubSeq(s, 1, k - 1) /\ b = SubSeq(s, k + 1, Len(s)) /\ m = SubSeq(s, k, Len(s))
  BY Zenon
<1>2. Len(s) \in Nat /\ k - 1 \in 0 .. Len(s) /\ (k - 1) + 1 = k /\ s[k] \in DOMAIN sizeOf /\ k \in 0 .. Len(s)
  OBVIOUS
<1>3. a \in Seq(DOMAIN sizeOf) /\ m \in Seq(DOMAIN sizeOf) /\ s = a \o m
  BY <1>1, <1>2, CutInTwo, Zenon
<1>4. b \in Seq(DOMAIN sizeOf)
  BY <1>1, <1>2, CutInTwo, Zenon
<1>5. m = <<s[k]>> \o b
  <2>1. Len(m) = Len(s) - (k - 1) /\ \A i \in 1 .. Len(s) - (k - 1) : m[i] = s[(k - 1) + i]
    BY <1>1
  <2>2. Len(b) = Len(s) - k /\ \A i \in 1 .. Len(s) - k : b[i] = s[k + i]
    BY <1>1
  <2>3. PICK d : d = <<s[k]>> \o b
    BY Zenon
  <2>4. d \in Seq(DOMAIN sizeOf) /\ Len(d) = Len(s) - (k - 1) /\ d[1] = s[k] /\ \A i \in 2 .. Len(d) : d[i] = b[i - 1]
    <3>1. <<s[k]>> \in Seq(DOMAIN sizeOf) /\ Len(<<s[k]>>) = 1 /\ <<s[k]>>[1] = s[k]
      BY <1>2
    <3>2. /\ d \in Seq(DOMAIN sizeOf) /\ Len(d) = 1 + Len(b) /\ d[1] = s[k]
          /\ \A i \in 1 .. 1 + Len(b) : i > 1 => d[i] = b[i - 1]
      BY <1>4, <2>3, <3>1, Concatenated
    <3> QED BY <1>2, <2>2, <3>2
  <2>5. ASSUME NEW i \in 1 .. Len(m) PROVE m[i] = d[i]
    <3>1. CASE i = 1
      BY <1>2, <2>1, <2>4, <3>1, Zenon
    <3>2. CASE i # 1
      <4>1. i - 1 \in 1 .. Len(s) - k /\ k + (i - 1) = (k - 1) + i /\ i \in 2 .. Len(d)
        BY <1>2, <2>1, <2>4, <3>2
      <4> QED BY <2>1, <2>2, <2>4, <4>1, Zenon
    <3> QED BY <3>1, <3>2, Zenon
  <2>6. Len(m) = Len(d)
    BY <2>1, <2>4, Zenon
  <2>7. m = d
    BY <1>3, <2>4, <2>5, <2>6, EqualSequences, Zenon
  <2> QED BY <2>3, <2>7, Zenon
<1>6. SizeOf(s) = SizeOf(a) + SizeOf(m)
  BY <1>3, SizeOfBoth, Zenon
<1>7. <<s[k]>> \in Seq(DOMAIN sizeOf) /\ a \o b \in Seq(DOMAIN sizeOf)
  BY <1>2, <1>3, <1>4
<1>8. SizeOf(m) = SizeOf(<<s[k]>>) + SizeOf(b)
  BY <1>4, <1>5, <1>7, SizeOfBoth, Zenon
<1>9. SizeOf(MovedToFront(s, k)) = SizeOf(<<s[k]>>) + SizeOf(a \o b)
  BY <1>1, <1>7, SizeOfBoth, Zenon DEF MovedToFront
<1>10. SizeOf(a \o b) = SizeOf(a) + SizeOf(b)
  BY <1>3, <1>4, SizeOfBoth, Zenon
<1>11. SizeOf(a) \in Nat /\ SizeOf(b) \in Nat /\ SizeOf(<<s[k]>>) \in Nat
  BY <1>3, <1>4, <1>7, SizeIsNatural, Zenon
<1> QED BY <1>6, <1>8, <1>9, <1>10, <1>11

\* A hit preserves the invariant of the cache (cachingLoader.Load).
LEMMA HitCache ==
    ASSUME CacheInv, NEW k \in DOMAIN cache.order,
           cache' = [cache EXCEPT !.order = MovedToFront(@, k)]
    PROVE  CacheInv'
<1>1. PICK s : s = cache.order
  BY Zenon
<1>2. /\ s \in Seq(DOMAIN sizeOf) /\ k \in 1 .. Len(s) /\ Len(s) \in Nat /\ IsInjective(s)
      /\ cache.size = SizeOf(s) /\ cache.size <= maxBytes
  BY <1>1 DEF CacheInv, CacheIsBounded
<1>3. PICK m : m = MovedToFront(s, k)
  BY Zenon
<1>4. /\ m \in Seq(DOMAIN sizeOf) /\ Len(m) = Len(s)
      /\ \A i \in 1 .. Len(s) : m[i] = s[IF i = 1 THEN k ELSE IF i <= k THEN i - 1 ELSE i]
  BY <1>2, <1>3, MovedElements
<1>5. IsInjective(m)
  <2>1. \A i, j \in 1 .. Len(s) : s[i] = s[j] => i = j
    BY <1>2 DEF IsInjective
  <2>2. ASSUME NEW i \in 1 .. Len(s), NEW j \in 1 .. Len(s), m[i] = m[j] PROVE i = j
    <3>1. PICK u, v : /\ u = (IF i = 1 THEN k ELSE IF i <= k THEN i - 1 ELSE i)
                      /\ v = (IF j = 1 THEN k ELSE IF j <= k THEN j - 1 ELSE j)
      BY Zenon
    <3>2. u \in 1 .. Len(s) /\ v \in 1 .. Len(s)
      BY <1>2, <3>1
    <3>3. s[u] = s[v]
      BY <1>4, <2>2, <3>1, Zenon
    <3>4. u = v
      BY <2>1, <3>2, <3>3, Zenon
    <3> QED BY <1>2, <3>1, <3>4
  <2>3. DOMAIN m = 1 .. Len(s)
    BY <1>4
  <2> QED BY <2>2, <2>3, Zenon DEF IsInjective
<1>6. SizeOf(m) = SizeOf(s)
  BY <1>2, <1>3, MovedSize, Zenon
<1>7. cache'.order = m /\ cache'.size = cache.size /\ DOMAIN cache' = {"order", "size"}
  BY <1>1, <1>3, Zenon DEF CacheInv
<1> QED BY <1>2, <1>4, <1>5, <1>6, <1>7, Zenon DEF CacheInv, CacheIsBounded

\* A bounded set of naturals that is not empty has a greatest one, and Max is it.
LEMMA GreatestNatural ==
    ASSUME NEW N \in Nat, NEW T \in SUBSET (0 .. N), T # {}
    PROVE  Max(T) \in T /\ \A n \in T : n <= Max(T)
<1> DEFINE U == {N - n : n \in T}
<1>1. U \in SUBSET Nat /\ U # {}
  <2>1. \A n \in T : N - n \in Nat
    OBVIOUS
  <2> QED BY <2>1, Zenon
<1>2. PICK u \in U : \A m \in U : ~(m < u)
  <2> HIDE DEF U
  <2> QED BY <1>1, LeastNatural, Zenon
<1>3. PICK n \in T : u = N - n
  BY Zenon
<1>4. \A m \in T : n >= m
  BY <1>2, <1>3
<1> DEFINE P(x) == x \in T /\ \A m \in T : x >= m
<1>5. P(CHOOSE x : P(x))
  <2>1. P(n)
    BY <1>4, Zenon
  <2> HIDE DEF P
  <2> QED BY <2>1, Zenon
<1>6. Max(T) = CHOOSE x : P(x)
  BY Zenon DEF Max
<1> QED BY <1>5, <1>6, Zenon

\* What is kept is a prefix of the order that leaves the room asked for.  There always is
\* one: without any file, what was counted is 0.
LEMMA KeptFits ==
    ASSUME CacheInv, NEW room \in Nat
    PROVE  \E n \in 0 .. Len(cache.order) :
              /\ Kept(room) = SubSeq(cache.order, 1, n)
              /\ SizeOf(Kept(room)) <= room
<1>1. PICK s : s = cache.order
  BY Zenon
<1>2. s \in Seq(DOMAIN sizeOf) /\ Len(s) \in Nat /\ cache.size = SizeOf(s) /\ SizeOf(s) \in Nat
  BY <1>1, SizeIsNatural DEF CacheInv, CacheIsBounded
<1> DEFINE rest(n) == SubSeq(s, n + 1, Len(s))
           fits == {n \in 0 .. Len(s) : cache.size - SizeOf(rest(n)) <= room}
<1>3. Kept(room) = SubSeq(s, 1, Max(fits))
  BY <1>1, Zenon DEF Kept
<1>4. 0 \in fits
  <2>1. rest(0) = s
    <3>1. PICK t : t = SubSeq(s, 1, Len(s))
      BY Zenon
    <3>2. t \in Seq(DOMAIN sizeOf) /\ Len(t) = Len(s) /\ \A i \in 1 .. Len(s) : t[i] = s[i]
      BY <1>2, <3>1
    <3>3. t = s
      BY <1>2, <3>2, EqualSequences, Zenon
    <3>4. 0 + 1 = 1
      OBVIOUS
    <3> QED BY <3>1, <3>3, <3>4, Zenon
  <2>2. cache.size - SizeOf(rest(0)) = 0
    <3>1. PICK z : z = SizeOf(s)
      BY Zenon
    <3>2. cache.size = z /\ SizeOf(rest(0)) = z /\ z \in Nat
      BY <1>2, <2>1, <3>1, Zenon
    <3> QED BY <3>2
  <2> QED BY <1>2, <2>2
<1>5. Max(fits) \in fits
  <2>1. fits \in SUBSET (0 .. Len(s))
    BY Zenon
  <2> HIDE DEF fits
  <2> QED BY <1>2, <1>4, <2>1, GreatestNatural, Zenon
<1>6. PICK n : n = Max(fits)
  BY Zenon
<1>7. n \in 0 .. Len(s) /\ cache.size - SizeOf(rest(n)) <= room
  BY <1>5, <1>6, Zenon
<1>8. PICK a, b : a = SubSeq(s, 1, n) /\ b = rest(n)
  BY Zenon
<1>9. a \in Seq(DOMAIN sizeOf) /\ b \in Seq(DOMAIN sizeOf) /\ s = a \o b
  BY <1>2, <1>7, <1>8, CutInTwo, Zenon
<1>10. SizeOf(s) = SizeOf(a) + SizeOf(b) /\ SizeOf(a) \in Nat /\ SizeOf(b) \in Nat
  BY <1>9, SizeOfBoth, SizeIsNatural, Zenon
<1>11. SizeOf(a) <= room
  BY <1>2, <1>7, <1>8, <1>10
<1>12. Kept(room) = a
  BY <1>3, <1>6, <1>8, Zenon
<1> QED BY <1>1, <1>7, <1>8, <1>11, <1>12, Zenon

\* A store preserves the invariant of the cache: the file was not in it, and what is evicted
\* is taken off the size (cachingLoader.store).
LEMMA StoredCache ==
    ASSUME CacheInv, NEW path \in DOMAIN sizeOf, path \notin Range(cache.order), ~(sizeOf[path] > maxBytes),
           NEW kept, kept = Kept(maxBytes - sizeOf[path]),
           cache' = [order |-> <<path>> \o kept,
                     size |-> cache.size - (SizeOf(cache.order) - SizeOf(kept)) + sizeOf[path]]
    PROVE  CacheInv'
<1>1. PICK s : s = cache.order
  BY Zenon
<1>2. /\ s \in Seq(DOMAIN sizeOf) /\ Len(s) \in Nat /\ cache.size = SizeOf(s) /\ SizeOf(s) \in Nat
      /\ IsInjective(s)
  BY <1>1, SizeIsNatural DEF CacheInv, CacheIsBounded
<1>3. sizeOf[path] \in Nat /\ maxBytes \in Nat /\ maxBytes - sizeOf[path] \in Nat
  BY ArtifactAssumption
<1>4. PICK n \in 0 .. Len(s) : kept = SubSeq(s, 1, n) /\ SizeOf(kept) <= maxBytes - sizeOf[path]
  BY <1>1, <1>3, KeptFits, Zenon
<1>5. kept \in Seq(DOMAIN sizeOf) /\ Len(kept) = n /\ \A i \in 1 .. n : kept[i] = s[i]
  BY <1>2, <1>4, CutInTwo
<1>6. <<path>> \in Seq(DOMAIN sizeOf) /\ Len(<<path>>) = 1 /\ <<path>>[1] = path
  OBVIOUS
<1>7. PICK d : d = <<path>> \o kept
  BY Zenon
<1>8. /\ d \in Seq(DOMAIN sizeOf) /\ Len(d) = 1 + n /\ d[1] = path
      /\ \A i \in 1 .. 1 + n : i > 1 => d[i] = kept[i - 1]
  BY <1>5, <1>6, <1>7, Concatenated
<1>9. SizeOf(d) = sizeOf[path] + SizeOf(kept) /\ SizeOf(kept) \in Nat
  BY <1>5, <1>6, <1>7, SizeOfBoth, SizeOfOne, SizeIsNatural, Zenon
<1>10. IsInjective(d)
  <2>1. \A i, j \in 1 .. Len(s) : s[i] = s[j] => i = j
    BY <1>2 DEF IsInjective
  <2>2. \A i \in 1 .. Len(s) : s[i] # path
    BY <1>1, <1>2 DEF Range
  <2>3. ASSUME NEW i \in 1 .. 1 + n, i > 1 PROVE i - 1 \in 1 .. Len(s) /\ d[i] = s[i - 1]
    <3>1. i - 1 \in 1 .. n /\ i - 1 \in 1 .. Len(s)
      BY <1>2, <2>3
    <3>2. d[i] = kept[i - 1]
      BY <1>8, <2>3, Zenon
    <3> QED BY <1>5, <3>1, <3>2, Zenon
  <2>4. ASSUME NEW i \in 1 .. 1 + n, NEW j \in 1 .. 1 + n, d[i] = d[j] PROVE i = j
    <3>1. i = 1 \/ i > 1
      OBVIOUS
    <3>2. j = 1 \/ j > 1
      OBVIOUS
    <3>3. i > 1 => d[i] # path
      BY <2>2, <2>3, Zenon
    <3>4. j > 1 => d[j] # path
      BY <2>2, <2>3, Zenon
    <3>5. i > 1 /\ j > 1 => i - 1 = j - 1
      BY <2>1, <2>3, <2>4, Zenon
    <3> QED BY <1>8, <2>4, <3>1, <3>2, <3>3, <3>4, <3>5
  <2>5. DOMAIN d = 1 .. 1 + n
    BY <1>8
  <2> QED BY <2>4, <2>5, Zenon DEF IsInjective
<1>11. cache'.order = d /\ cache'.size = sizeOf[path] + SizeOf(kept) /\ DOMAIN cache' = {"order", "size"}
  BY <1>1, <1>2, <1>3, <1>7, <1>9
<1>12. sizeOf[path] + SizeOf(kept) <= maxBytes
  BY <1>3, <1>4, <1>9
<1> QED BY <1>8, <1>9, <1>10, <1>11, <1>12, Zenon DEF CacheInv, CacheIsBounded

-----------------------------------------------------------------------------
(***************************************************************************)
(* Adding manifests to the set.                                            *)
(***************************************************************************)
\* All manifests that any repository has.
Manifests == UNION {Range(r.manifests) \cup {r.unversioned} : r \in Repositories}

\* The fields of a Set.
SetFields == {"state", "pin", "current", "views", "explicit", "rejected", "caches"}

\* Every explicit row of every view is indexed with its file.
Agrees(s) ==
    \A k \in DOMAIN s.views : \A row \in ExplicitRows(s.views[k]) :
        KeyOf(row) \in DOMAIN s.explicit /\ s.explicit[KeyOf(row)].path = row.path

\* The index names a view that lists the key with this file.
Listed(s) ==
    \A key \in DOMAIN s.explicit :
        /\ s.explicit[key].manifest \in DOMAIN s.views
        /\ \E row \in ExplicitRows(s.views[s.explicit[key].manifest]) :
              KeyOf(row) = key /\ row.path = s.explicit[key].path

\* A set as add leaves it.
SetOK(s) ==
    /\ DOMAIN s = SetFields
    /\ s.views \in Seq(Manifests)
    /\ Agrees(s)
    /\ Listed(s)

\* Set t has all that s has: what is indexed stays as it is.
Grows(s, t) ==
    /\ t.state = s.state /\ t.pin = s.pin /\ t.current = s.current /\ t.caches = s.caches
    /\ \A key \in DOMAIN s.explicit : key \in DOMAIN t.explicit /\ t.explicit[key] = s.explicit[key]

\* The views of t are those of s, followed by the first j of the manifests ms.
Viewed(s, t, ms, j) ==
    /\ Len(t.views) = Len(s.views) + j
    /\ \A i \in 1 .. Len(s.views) : t.views[i] = s.views[i]
    /\ \A i \in 1 .. j : t.views[Len(s.views) + i] = ms[i]

\* A manifest that is registered has one row for a key.
LEMMA OneRow ==
    ASSUME NEW m, RegisterFromConfig(m), NEW r \in ExplicitRows(m), NEW q \in ExplicitRows(m), KeyOf(r) = KeyOf(q)
    PROVE  r = q
<1>1. PICK a \in DOMAIN m : r = m[a]
  BY Zenon DEF ExplicitRows, Range
<1>2. PICK b \in DOMAIN m : q = m[b]
  BY Zenon DEF ExplicitRows, Range
<1> QED BY <1>1, <1>2, Zenon DEF RegisterFromConfig

\* A manifest that is accepted becomes the next view, and the set stays in order: a new
\* explicit key is indexed with its only row, an old one has its file already (Set.add).
LEMMA AddAccepts ==
    ASSUME NEW s, SetOK(s), NEW m \in Manifests, ~s.rejected, RegisterFromConfig(m),
           \A row \in ExplicitRows(m) : KeepsFile(s.explicit, row)
    PROVE  /\ SetOK(add(s, m)) /\ Grows(s, add(s, m)) /\ add(s, m).views = Append(s.views, m)
           /\ add(s, m).rejected = s.rejected
<1> DEFINE rows == ExplicitRows(m)
           new == {KeyOf(row) : row \in rows} \ DOMAIN s.explicit
           entry(key) == [manifest |-> Len(s.views) + 1, path |-> (CHOOSE row \in rows : KeyOf(row) = key).path]
           index == [key \in DOMAIN s.explicit \cup new |-> IF key \in new THEN entry(key) ELSE s.explicit[key]]
<1>1. PICK t : t = add(s, m)
  BY Zenon
<1>2. t = [s EXCEPT !.views = Append(@, m), !.explicit = [key \in DOMAIN @ \cup new |-> IF key \in new THEN entry(key) ELSE @[key]]]
  BY <1>1, Zenon DEF add
<1>3. DOMAIN s = SetFields /\ s.views \in Seq(Manifests) /\ Len(s.views) \in Nat
  BY DEF SetOK
<1>4. PICK ix : ix = index
  BY Zenon
<1>5. /\ DOMAIN t = SetFields /\ t.views = Append(s.views, m) /\ t.explicit = ix
      /\ t.rejected = s.rejected
      /\ t.state = s.state /\ t.pin = s.pin /\ t.current = s.current /\ t.caches = s.caches
  <2> HIDE DEF rows, new, entry
  <2> QED BY <1>2, <1>3, <1>4, Zenon DEF SetFields
<1>6. DOMAIN ix = DOMAIN s.explicit \cup new
  BY <1>4, Zenon
<1>7. \A key \in DOMAIN s.explicit : ix[key] = s.explicit[key]
  BY <1>4, Zenon
<1>8. ASSUME NEW row \in rows, KeyOf(row) \in new PROVE ix[KeyOf(row)].manifest = Len(s.views) + 1 /\ ix[KeyOf(row)].path = row.path
  <2>1. ix[KeyOf(row)] = entry(KeyOf(row))
    BY <1>4, <1>8, Zenon
  <2>2. PICK r : r = CHOOSE q \in rows : KeyOf(q) = KeyOf(row)
    BY Zenon
  <2>3. r \in rows /\ KeyOf(r) = KeyOf(row)
    <3> HIDE DEF rows
    <3> QED BY <2>2, Zenon
  <2>4. r = row
    BY <2>3, OneRow, Zenon
  <2> HIDE DEF rows, new, index
  <2>5. entry(KeyOf(row)) = [manifest |-> Len(s.views) + 1, path |-> row.path]
    BY <2>2, <2>4, Zenon
  <2> QED BY <2>1, <2>5
<1>9. /\ DOMAIN t.views = 1 .. Len(s.views) + 1 /\ t.views[Len(s.views) + 1] = m
      /\ \A k \in 1 .. Len(s.views) : t.views[k] = s.views[k]
      /\ t.views \in Seq(Manifests)
  BY <1>3, <1>5
<1>10. Agrees(t)
  <2> HIDE DEF new, index, entry
  <2>1. ASSUME NEW k \in DOMAIN t.views, NEW row \in ExplicitRows(t.views[k])
        PROVE  KeyOf(row) \in DOMAIN ix /\ ix[KeyOf(row)].path = row.path
    <3>1. CASE k \in 1 .. Len(s.views)
      <4>1. row \in ExplicitRows(s.views[k]) /\ k \in DOMAIN s.views
        BY <1>3, <1>9, <2>1, <3>1
      <4>2. KeyOf(row) \in DOMAIN s.explicit /\ s.explicit[KeyOf(row)].path = row.path
        BY <4>1, Zenon DEF SetOK, Agrees
      <4> QED BY <1>6, <1>7, <4>2, Zenon
    <3>2. CASE k = Len(s.views) + 1
      <4>1. row \in rows
        BY <1>9, <2>1, <3>2, Zenon
      <4>2. CASE KeyOf(row) \in DOMAIN s.explicit
        <5>1. s.explicit[KeyOf(row)].path = row.path
          BY <4>1, <4>2, Zenon DEF KeepsFile
        <5> QED BY <1>6, <1>7, <4>2, <5>1, Zenon
      <4>3. CASE KeyOf(row) \notin DOMAIN s.explicit
        <5>1. KeyOf(row) \in new
          BY <4>1, <4>3, Zenon DEF new
        <5> QED BY <1>6, <1>8, <4>1, <5>1, Zenon
      <4> QED BY <4>2, <4>3, Zenon
    <3> QED BY <1>3, <1>9, <3>1, <3>2
  <2> QED BY <1>5, <2>1, Zenon DEF Agrees
<1>11. Listed(t)
  <2>1. ASSUME NEW key \in DOMAIN ix
        PROVE  /\ ix[key].manifest \in DOMAIN t.views
               /\ \E row \in ExplicitRows(t.views[ix[key].manifest]) : KeyOf(row) = key /\ row.path = ix[key].path
    <3>1. CASE key \in DOMAIN s.explicit
      <4>1. PICK k : k = s.explicit[key].manifest
        BY Zenon
      <4>2. /\ k \in DOMAIN s.views
            /\ \E row \in ExplicitRows(s.views[k]) : KeyOf(row) = key /\ row.path = s.explicit[key].path
        BY <3>1, <4>1, Zenon DEF SetOK, Listed
      <4>3. k \in DOMAIN t.views /\ t.views[k] = s.views[k]
        BY <1>3, <1>9, <4>2
      <4> QED BY <1>7, <3>1, <4>1, <4>2, <4>3, Zenon
    <3>2. CASE key \notin DOMAIN s.explicit
      <4>1. PICK row \in rows : key = KeyOf(row) /\ KeyOf(row) \in new
        <5> HIDE DEF index, entry, rows
        <5> QED BY <1>6, <2>1, <3>2, Zenon
      <4>2. ix[key].manifest = Len(s.views) + 1 /\ ix[key].path = row.path
        BY <1>8, <4>1, Zenon
      <4>3. Len(s.views) + 1 \in DOMAIN t.views
        BY <1>3, <1>9
      <4> QED BY <1>9, <4>1, <4>2, <4>3, Zenon
    <3> QED BY <3>1, <3>2, Zenon
  <2> QED BY <1>5, <2>1, Zenon DEF Listed
<1>12. Grows(s, t)
  <2> HIDE DEF new, index, entry
  <2> QED BY <1>5, <1>6, <1>7, Zenon DEF Grows
<1> QED BY <1>1, <1>5, <1>9, <1>10, <1>11, <1>12, Zenon DEF SetOK

\* The sets that AddAll forms, up to N manifests.
AddedTo(h, s, ms, N) ==
    h = [n \in 0 .. N |-> IF n = 0 THEN [s EXCEPT !.rejected = FALSE] ELSE add(h[n - 1], ms[n])]

\* Each is what the recursion says.
LEMMA AddedValue ==
    ASSUME NEW s, NEW ms, NEW N, NEW h, AddedTo(h, s, ms, N), NEW n \in 0 .. N
    PROVE  h[n] = IF n = 0 THEN [s EXCEPT !.rejected = FALSE] ELSE add(h[n - 1], ms[n])
<1>1. h = [m \in 0 .. N |-> IF m = 0 THEN [s EXCEPT !.rejected = FALSE] ELSE add(h[m - 1], ms[m])]
  BY Zenon DEF AddedTo
<1>2. PICK g : g = h
  BY Zenon
<1>3. h = [m \in 0 .. N |-> IF m = 0 THEN [s EXCEPT !.rejected = FALSE] ELSE add(g[m - 1], ms[m])]
  BY <1>1, <1>2, Zenon
<1>4. h[n] = IF n = 0 THEN [s EXCEPT !.rejected = FALSE] ELSE add(g[n - 1], ms[n])
  BY <1>3, Zenon
<1> QED BY <1>2, <1>4, Zenon

\* There are such sets, for any number of manifests.
LEMMA AddedExists ==
    ASSUME NEW s, NEW ms, NEW N \in Nat
    PROVE  \E h : AddedTo(h, s, ms, N)
<1> DEFINE T == {n \in 0 .. N : \E h : AddedTo(h, s, ms, n)}
<1>0. PICK first : first = [s EXCEPT !.rejected = FALSE]
  BY Zenon
<1>1. 0 \in T
  <2> DEFINE h == [n \in 0 .. 0 |-> first]
  <2>1. \A n \in 0 .. 0 : n = 0
    OBVIOUS
  <2>2. h = [n \in 0 .. 0 |-> IF n = 0 THEN first ELSE add(h[n - 1], ms[n])]
    BY <2>1, Zenon
  <2>3. AddedTo(h, s, ms, 0)
    BY <1>0, <2>2, Zenon DEF AddedTo
  <2>4. 0 \in 0 .. N
    OBVIOUS
  <2> QED BY <2>3, <2>4, Zenon
<1>2. ASSUME NEW n \in 0 .. N, n \in T, n < N PROVE n + 1 \in T
  <2>1. PICK h : AddedTo(h, s, ms, n)
    BY <1>2, Zenon
  <2> DEFINE g == [j \in 0 .. n + 1 |-> IF j <= n THEN h[j] ELSE add(h[n], ms[n + 1])]
  <2>2. ASSUME NEW j \in 0 .. n + 1
        PROVE  g[j] = IF j = 0 THEN first ELSE add(g[j - 1], ms[j])
    <3>1. CASE j <= n
      <4>1. j # 0 => j - 1 \in 0 .. n + 1 /\ j - 1 <= n
        BY <3>1
      <4>2. g[j] = h[j] /\ (j # 0 => g[j - 1] = h[j - 1])
        BY <3>1, <4>1, Zenon
      <4>3. j \in 0 .. n
        BY <3>1
      <4>4. h[j] = IF j = 0 THEN [s EXCEPT !.rejected = FALSE] ELSE add(h[j - 1], ms[j])
        BY <2>1, <4>3, AddedValue
      <4> QED BY <1>0, <4>2, <4>4, Zenon
    <3>2. CASE j = n + 1
      <4>1. j # 0 /\ ~(j <= n) /\ j - 1 \in 0 .. n + 1 /\ j - 1 <= n /\ j - 1 = n
        BY <3>2
      <4>2. g[j - 1] = h[n] /\ g[j] = add(h[n], ms[j])
        BY <3>2, <4>1, Zenon
      <4> QED BY <4>1, <4>2, Zenon
    <3>3. j <= n \/ j = n + 1
      OBVIOUS
    <3> QED BY <3>1, <3>2, <3>3, Zenon
  <2>3. g = [j \in 0 .. n + 1 |-> IF j = 0 THEN first ELSE add(g[j - 1], ms[j])]
    BY <2>2, Zenon
  <2>4. AddedTo(g, s, ms, n + 1)
    BY <1>0, <2>3, Zenon DEF AddedTo
  <2>5. n + 1 \in 0 .. N
    BY <1>2
  <2> QED BY <2>4, <2>5, Zenon
<1>3. N \in T
  <2> HIDE DEF T
  <2> QED BY <1>1, <1>2, UpTo
<1> QED BY <1>3, Zenon

\* AddAll is the last of them.
LEMMA AddAllFound ==
    ASSUME NEW s, NEW ms, Len(ms) \in Nat
    PROVE  \E h : AddedTo(h, s, ms, Len(ms)) /\ AddAll(s, ms) = h[Len(ms)]
<1> DEFINE P(h) == AddedTo(h, s, ms, Len(ms))
<1>1. P(CHOOSE h : P(h))
  <2>1. \E h : P(h)
    BY AddedExists, Zenon
  <2> HIDE DEF P
  <2> QED BY <2>1, Zenon
<1>2. AddAll(s, ms) = (CHOOSE h : P(h))[Len(ms)]
  BY Zenon DEF AddAll, AddedTo
<1> QED BY <1>1, <1>2, Zenon

\* Views and index alone decide whether a set is in order.
LEMMA SameSet ==
    ASSUME NEW s, NEW t, SetOK(s), DOMAIN t = SetFields, t.views = s.views, t.explicit = s.explicit
    PROVE  SetOK(t)
<1>1. Agrees(t)
  <2>1. Agrees(s)
    BY Zenon DEF SetOK
  <2> QED BY <2>1, Zenon DEF Agrees
<1>2. Listed(t)
  <2>1. Listed(s)
    BY Zenon DEF SetOK
  <2> QED BY <2>1, Zenon DEF Listed
<1> QED BY <1>1, <1>2, Zenon DEF SetOK

\* A manifest is the next view, or it is rejected and leaves views and index alone.
LEMMA AddStep ==
    ASSUME NEW s, SetOK(s), NEW m \in Manifests, NEW t, t = add(s, m)
    PROVE  /\ SetOK(t) /\ Grows(s, t)
           /\ \/ t.views = Append(s.views, m) /\ ~s.rejected
              \/ t.views = s.views /\ t.rejected
<1>1. CASE ~s.rejected /\ RegisterFromConfig(m) /\ \A row \in ExplicitRows(m) : KeepsFile(s.explicit, row)
  BY <1>1, AddAccepts, Zenon
<1>2. CASE ~(~s.rejected /\ RegisterFromConfig(m) /\ \A row \in ExplicitRows(m) : KeepsFile(s.explicit, row))
  <2>1. t = [s EXCEPT !.rejected = TRUE]
    BY <1>2, Zenon DEF add
  <2>2. DOMAIN s = SetFields
    BY Zenon DEF SetOK
  <2>3. /\ t.views = s.views /\ t.explicit = s.explicit /\ t.rejected = TRUE
        /\ t.state = s.state /\ t.pin = s.pin /\ t.current = s.current /\ t.caches = s.caches
        /\ DOMAIN t = SetFields
    BY <2>1, <2>2, Zenon DEF SetFields
  <2>4. SetOK(t)
    BY <2>3, SameSet, Zenon
  <2> QED BY <2>3, <2>4, Zenon DEF Grows
<1> QED BY <1>1, <1>2, Zenon

\* What t is after n manifests of ms: those up to the first that was rejected are views.
Took(s, ms, n, t) ==
    /\ SetOK(t) /\ Grows(s, t)
    /\ \E j \in 0 .. n : Viewed(s, t, ms, j) /\ (~t.rejected => j = n)

\* AddAll takes the manifests in their order, up to the first that it rejects, and leaves
\* the set in order even then.
LEMMA AddAllTakes ==
    ASSUME NEW s, SetOK(s), NEW ms, Len(ms) \in Nat, \A n \in 1 .. Len(ms) : ms[n] \in Manifests
    PROVE  Took(s, ms, Len(ms), AddAll(s, ms))
<1>1. PICK h : AddedTo(h, s, ms, Len(ms)) /\ AddAll(s, ms) = h[Len(ms)]
  BY AddAllFound, Zenon
<1>2. DOMAIN s = SetFields /\ s.views \in Seq(Manifests) /\ Len(s.views) \in Nat
  BY DEF SetOK
<1> DEFINE T == {n \in 0 .. Len(ms) : Took(s, ms, n, h[n])}
<1>3. 0 \in T
  <2>1. 0 \in 0 .. Len(ms) /\ 0 \in 0 .. 0
    OBVIOUS
  <2>2. PICK t : t = h[0]
    BY Zenon
  <2>3. t = [s EXCEPT !.rejected = FALSE]
    BY <1>1, <2>1, <2>2, AddedValue
  <2>4. /\ t.views = s.views /\ t.explicit = s.explicit
        /\ t.state = s.state /\ t.pin = s.pin /\ t.current = s.current /\ t.caches = s.caches
        /\ DOMAIN t = SetFields
    BY <1>2, <2>3, Zenon DEF SetFields
  <2>5. SetOK(t) /\ Grows(s, t)
    <3>1. SetOK(t)
      BY <2>4, SameSet, Zenon
    <3> QED BY <2>4, <3>1, Zenon DEF Grows
  <2>6. Viewed(s, t, ms, 0)
    BY <1>2, <2>4 DEF Viewed
  <2> QED BY <2>1, <2>2, <2>5, <2>6, Zenon DEF Took
<1>4. ASSUME NEW n \in 0 .. Len(ms), n \in T, n < Len(ms) PROVE n + 1 \in T
  <2>1. PICK k : k = n + 1
    BY Zenon
  <2>2. k \in 0 .. Len(ms) /\ k # 0 /\ k - 1 = n /\ k \in 1 .. Len(ms) /\ n \in Nat
    BY <1>4, <2>1
  <2>3. PICK t, u : t = h[n] /\ u = h[k]
    BY Zenon
  <2>4. u = add(t, ms[k])
    <3>1. AddedTo(h, s, ms, Len(ms)) /\ k \in 0 .. Len(ms)
      BY <1>1, <2>2, Zenon
    <3>2. h[k] = IF k = 0 THEN [s EXCEPT !.rejected = FALSE] ELSE add(h[k - 1], ms[k])
      BY <3>1, AddedValue
    <3> QED BY <2>2, <2>3, <3>2, Zenon
  <2>5. Took(s, ms, n, t)
    BY <1>4, <2>3, Zenon
  <2>6. SetOK(t) /\ Grows(s, t)
    BY <2>5, Zenon DEF Took
  <2>7. PICK j \in 0 .. n : Viewed(s, t, ms, j) /\ (~t.rejected => j = n)
    BY <2>5, Zenon DEF Took
  <2>8. /\ SetOK(u) /\ Grows(t, u)
        /\ \/ u.views = Append(t.views, ms[k]) /\ ~t.rejected
           \/ u.views = t.views /\ u.rejected
    BY <2>2, <2>4, <2>6, AddStep
  <2>9. Grows(s, u)
    BY <2>6, <2>8, Zenon DEF Grows
  <2>10. \E i \in 0 .. k : Viewed(s, u, ms, i) /\ (~u.rejected => i = k)
    <3>1. CASE u.views = t.views /\ u.rejected
      <4>1. Viewed(s, u, ms, j)
        BY <2>7, <3>1, Zenon DEF Viewed
      <4>2. j \in 0 .. k
        BY <2>1, <2>2
      <4> QED BY <3>1, <4>1, <4>2, Zenon
    <3>2. CASE u.views = Append(t.views, ms[k]) /\ ~t.rejected
      <4>1. j = n
        BY <2>7, <3>2, Zenon
      <4>2. t.views \in Seq(Manifests)
        BY <2>6, Zenon DEF SetOK
      <4>3. PICK x, y, w : x = s.views /\ y = t.views /\ w = u.views
        BY Zenon
      <4>4. /\ Len(x) \in Nat /\ y \in Seq(Manifests) /\ Len(y) = Len(x) + n /\ w = Append(y, ms[k])
            /\ \A i \in 1 .. Len(x) : y[i] = x[i]
            /\ \A i \in 1 .. n : y[Len(x) + i] = ms[i]
        BY <1>2, <2>7, <3>2, <4>1, <4>2, <4>3, Zenon DEF Viewed
      <4>5. Len(w) = Len(y) + 1 /\ w[Len(y) + 1] = ms[k] /\ \A i \in 1 .. Len(y) : w[i] = y[i]
        BY <4>4
      <4>0. PICK a, b : a = Len(x) /\ b = Len(y) /\ a \in Nat /\ b = a + n
        BY <4>4, Zenon
      <4>6. Len(w) = Len(x) + k
        <5>1. b + 1 = a + k
          BY <2>1, <2>2, <4>0
        <5> QED BY <4>0, <4>5, <5>1, Zenon
      <4>7. \A i \in 1 .. Len(x) : w[i] = x[i]
        <5> SUFFICES ASSUME NEW i \in 1 .. Len(x) PROVE w[i] = x[i]
          BY Zenon
        <5>1. i \in 1 .. a
          BY <4>0, Zenon
        <5>2. i \in 1 .. b
          BY <2>2, <4>0, <5>1
        <5> QED BY <4>0, <4>4, <4>5, <5>2, Zenon
      <4>8. ASSUME NEW i \in 1 .. k PROVE w[Len(x) + i] = ms[i]
        <5>1. CASE i = k
          <6>1. a + i = b + 1
            BY <2>1, <2>2, <4>0, <5>1
          <6> QED BY <4>0, <4>5, <5>1, <6>1, Zenon
        <5>2. CASE i # k
          <6>1. i \in 1 .. n /\ a + i \in 1 .. b
            BY <2>1, <2>2, <4>0, <5>2
          <6> QED BY <4>0, <4>4, <4>5, <6>1, Zenon
        <5> QED BY <5>1, <5>2, Zenon
      <4>9. Viewed(s, u, ms, k)
        BY <4>3, <4>6, <4>7, <4>8, Zenon DEF Viewed
      <4>10. k \in 0 .. k
        BY <2>2
      <4> QED BY <4>9, <4>10, Zenon
    <3> QED BY <2>8, <3>1, <3>2, Zenon
  <2>11. Took(s, ms, k, h[k])
    BY <2>3, <2>8, <2>9, <2>10, Zenon DEF Took
  <2> QED BY <2>1, <2>2, <2>11, Zenon
<1>5. Len(ms) \in T
  <2> HIDE DEF T
  <2>1. Len(ms) \in 0 .. Len(ms)
    OBVIOUS
  <2> QED BY <1>3, <1>4, <2>1, UpTo, Zenon
<1> QED BY <1>1, <1>5, Zenon

-----------------------------------------------------------------------------
(***************************************************************************)
(* The inductive invariant.                                                *)
(***************************************************************************)
\* The fields of a caller.
LookFields == {"pc", "want", "key", "latest", "got", "erred", "path"}

\* The view of a version is the published manifest of this version, or, where a cache is off,
\* the unversioned manifest in place of version 1: no manifest is skipped, loaded twice or
\* put under another version, whichever callers fetch at what time (probe, loadUnversioned).
VersionsAreManifests ==
    \A k \in DOMAIN set.views :
        \/ k <= published /\ set.views[k] = repo.manifests[k]
        \/ k = 1 /\ ~set.caches /\ set.views[k] = repo.unversioned

\* The set: in order, empty until it is ready, and true to what is published.
SetInv ==
    /\ SetOK(set)
    /\ set.state # "ready" => set.views = <<>>
    /\ VersionsAreManifests

\* What is published is a prefix of a repository.
RepoInv == repo \in Repositories /\ published \in 0 .. Len(repo.manifests)

\* A caller that holds the slot.
Probes(l) == l.pc \in {"fetch", "install"}

\* What a caller has fetched are the manifests that follow the last view.
GotOK(got) ==
    /\ Len(got) \in Nat
    /\ \A j \in 1 .. Len(got) : latest + j <= published /\ got[j] = repo.manifests[latest + j]

\* A caller with the slot knows the latest view, although it holds no lock while it fetches.
LookOK(l) ==
    /\ DOMAIN l = LookFields
    /\ Probes(l) => set.state = "ready" /\ l.latest = latest
    /\ l.pc = "install" => GotOK(l.got)
    /\ l.pc = "load" => l.path \in DOMAIN sizeOf

\* At most one caller has the slot.
LooksInv ==
    /\ DOMAIN look = Lookups
    /\ \A c \in Lookups : LookOK(look[c])
    /\ \A c, d \in Lookups : Probes(look[c]) /\ Probes(look[d]) => c = d

\* The inductive invariant.
ArtifactIInv == RepoInv /\ SetInv /\ LooksInv /\ CacheInv

\* What is published are manifests.
LEMMA RepoManifests ==
    ASSUME RepoInv
    PROVE  /\ repo.manifests \in Seq(Manifests) /\ Len(repo.manifests) \in Nat /\ published \in Nat
           /\ repo.unversioned \in Manifests
           /\ \A k \in 1 .. published : repo.manifests[k] \in Manifests
<1>1. PICK ms : ms = repo.manifests
  BY Zenon
<1>2. ms \in Seq(Range(ms)) /\ published \in 0 .. Len(ms)
  BY <1>1, ArtifactAssumption, Zenon DEF RepoInv
<1>3. Range(ms) \subseteq Manifests /\ repo.unversioned \in Manifests
  <2>1. repo \in Repositories
    BY Zenon DEF RepoInv
  <2>2. Range(repo.manifests) \cup {repo.unversioned} \subseteq Manifests
    BY <2>1, Zenon DEF Manifests
  <2> QED BY <1>1, <2>2, Zenon
<1>4. ms \in Seq(Manifests)
  <2>1. Len(ms) \in Nat /\ ms \in [1 .. Len(ms) -> Range(ms)]
    BY <1>2
  <2>2. ms \in [1 .. Len(ms) -> Manifests]
    BY <1>3, <2>1, Zenon
  <2> QED BY <2>1, <2>2
<1>5. \A k \in 1 .. published : ms[k] \in Manifests
  BY <1>2, <1>4
<1> QED BY <1>1, <1>2, <1>3, <1>4, <1>5

\* What is fetched from version n + 1 on are the published manifests that follow n.
LEMMA FetchedManifests ==
    ASSUME RepoInv, NEW n \in Nat, NEW got \in Fetched(n + 1)
    PROVE  /\ Len(got) \in Nat
           /\ \A j \in 1 .. Len(got) : n + j <= published /\ got[j] = repo.manifests[n + j]
<1>1. PICK ms : ms = repo.manifests
  BY Zenon
<1>2. ms \in Seq(Manifests) /\ Len(ms) \in Nat /\ published \in Nat /\ published <= Len(ms)
  BY <1>1, RepoManifests DEF RepoInv
<1>3. CASE got = <<>>
  BY <1>3
<1>4. CASE got # <<>>
  <2>1. PICK k \in n + 1 .. published : got = SubSeq(ms, n + 1, k)
    BY <1>1, <1>4, Zenon DEF Fetched
  <2>2. Len(got) = k - n /\ \A j \in 1 .. k - n : got[j] = ms[n + j]
    BY <1>2, <2>1
  <2> QED BY <1>1, <1>2, <2>1, <2>2
<1> QED BY <1>3, <1>4, Zenon

\* A caller that goes elsewhere does not hold the slot.
LEMMA GoesTo ==
    ASSUME NEW c, NEW pc \in {"idle", "again", "found", "slot"}, Goes(c, pc)
    PROVE  \E l : look' = [look EXCEPT ![c] = l] /\ LookOK(l)' /\ ~Probes(l)
<1>1. CASE pc = "idle"
  <2>1. look' = [look EXCEPT ![c] = NoLookup]
    BY <1>1, Zenon DEF Goes
  <2>2. DOMAIN NoLookup = LookFields /\ NoLookup.pc = "idle"
    BY Zenon DEF NoLookup, LookFields
  <2>3. LookOK(NoLookup)' /\ ~Probes(NoLookup)
    BY <2>2, Zenon DEF LookOK, Probes
  <2> QED BY <2>1, <2>3, Zenon
<1>2. CASE pc # "idle"
  <2>1. PICK l : l = [NoLookup EXCEPT !.pc = pc, !.want = look[c].want, !.key = look[c].key]
    BY Zenon
  <2>2. look' = [look EXCEPT ![c] = l]
    BY <1>2, <2>1, Zenon DEF Goes
  <2>3. DOMAIN l = LookFields /\ l.pc = pc
    BY <2>1, Zenon DEF NoLookup, LookFields
  <2>4. LookOK(l)' /\ ~Probes(l)
    BY <2>3, Zenon DEF LookOK, Probes
  <2> QED BY <2>2, <2>4, Zenon
<1> QED BY <1>1, <1>2, Zenon

\* What a step does to what is loaded: no version changes its manifest, and no explicit key
\* its entry.
Stays ==
    /\ \A key \in DOMAIN set.explicit : key \in DOMAIN set'.explicit /\ set'.explicit[key] = set.explicit[key]
    /\ \A k \in DOMAIN set.views : k \in DOMAIN set'.views /\ set'.views[k] = set.views[k]

\* What is loaded stays as it is (Registry, GetExplicit).
LoadedStays == [][Stays]_artifactVars

-----------------------------------------------------------------------------
(***************************************************************************)
(* Its steps.                                                              *)
(***************************************************************************)
\* Steps that leave the set and the repository alone.
LEMMA SetIsLeft ==
    ASSUME RepoInv, SetInv, UNCHANGED <<repo, published, set>>
    PROVE  RepoInv' /\ SetInv' /\ Stays
<1>1. repo' = repo /\ published' = published /\ set' = set
  BY Zenon
<1>2. RepoInv'
  BY <1>1, Zenon DEF RepoInv
<1>3. SetInv'
  BY <1>1, Zenon DEF SetInv, SetOK, Agrees, Listed, VersionsAreManifests
<1>4. Stays
  BY <1>1, Zenon DEF Stays
<1> QED BY <1>2, <1>3, <1>4, Zenon

\* A step of one caller: it takes the slot only when it is free.
LEMMA OneLook ==
    ASSUME LooksInv, NEW c \in Lookups, NEW l, look' = [look EXCEPT ![c] = l],
           UNCHANGED <<repo, published, set>>, LookOK(l)', Probes(l) => SlotIsFree \/ Probes(look[c])
    PROVE  LooksInv'
<1>1. DOMAIN look = Lookups
  BY Zenon DEF LooksInv
<1>2. DOMAIN look' = Lookups /\ look'[c] = l /\ \A d \in Lookups : d # c => look'[d] = look[d]
  BY <1>1, Zenon
<1>3. ASSUME NEW d \in Lookups PROVE LookOK(look[d])'
  <2>1. CASE d = c
    BY <1>2, <2>1, Zenon DEF LookOK, GotOK, latest, Probes
  <2>2. CASE d # c
    <3>1. PICK r : r = look[d]
      BY Zenon
    <3>2. LookOK(r)
      BY <3>1, Zenon DEF LooksInv
    <3>3. LookOK(r)'
      BY <3>2, Zenon DEF LookOK, GotOK, latest
    <3>4. look'[d] = r
      BY <1>2, <2>2, <3>1, Zenon
    <3> QED BY <3>3, <3>4, Zenon DEF LookOK, GotOK, latest, Probes
  <2> QED BY <2>1, <2>2, Zenon
<1>4. \A e \in Lookups : Probes(look[e]) => (Probes(l) => e = c)
  BY Zenon DEF SlotIsFree, LooksInv, Probes
<1>5. ASSUME NEW d \in Lookups, NEW e \in Lookups, Probes(look'[d]), Probes(look'[e]) PROVE d = e
  <2>1. CASE d = c /\ e = c
    BY <2>1, Zenon
  <2>2. CASE d = c /\ e # c
    BY <1>2, <1>4, <1>5, <2>2, Zenon
  <2>3. CASE d # c /\ e = c
    BY <1>2, <1>4, <1>5, <2>3, Zenon
  <2>4. CASE d # c /\ e # c
    BY <1>2, <1>5, <2>4, Zenon DEF LooksInv
  <2> QED BY <2>1, <2>2, <2>3, <2>4, Zenon
<1> QED BY <1>2, <1>3, <1>5, Zenon DEF LooksInv, Probes

\* The set may change freely while nobody has the slot.
LEMMA NobodyProbes ==
    ASSUME LooksInv, \A c \in Lookups : ~Probes(look[c]), UNCHANGED look
    PROVE  LooksInv'
<1>1. look' = look
  BY Zenon
<1>2. ASSUME NEW c \in Lookups PROVE LookOK(look[c])'
  <2>1. PICK r : r = look[c]
    BY Zenon
  <2>2. LookOK(r) /\ ~Probes(r)
    BY <2>1, Zenon DEF LooksInv
  <2>3. LookOK(r)'
    BY <2>2, Zenon DEF LookOK, Probes
  <2>4. look'[c] = r
    BY <1>1, <2>1, Zenon
  <2> QED BY <2>3, <2>4, Zenon DEF LookOK, GotOK, latest, Probes
<1> QED BY <1>1, <1>2, Zenon DEF LooksInv, Probes

\* Steps that leave the cache alone.
LEMMA CacheIsLeft ==
    ASSUME CacheInv, UNCHANGED cache
    PROVE  CacheInv'
BY Zenon DEF CacheInv, CacheIsBounded

\* Steps after which a caller is without the slot.
LEMMA GoesStep ==
    ASSUME RepoInv, SetInv, LooksInv, NEW c \in Lookups, NEW pc \in {"idle", "again", "found", "slot"}, Goes(c, pc),
           UNCHANGED <<repo, published, set>>
    PROVE  RepoInv' /\ SetInv' /\ Stays /\ LooksInv'
<1>1. PICK l : look' = [look EXCEPT ![c] = l] /\ LookOK(l)' /\ ~Probes(l)
  BY GoesTo, Zenon
<1>2. LooksInv'
  BY <1>1, OneLook, Zenon
<1> QED BY <1>2, SetIsLeft, Zenon

\* Steps that begin a lookup.
LEMMA AsksStep ==
    ASSUME RepoInv, SetInv, LooksInv, NEW c \in Lookups, NEW l, look' = [look EXCEPT ![c] = l],
           DOMAIN l = LookFields, l.pc \in {"found", "slot"}, UNCHANGED <<repo, published, set>>
    PROVE  RepoInv' /\ SetInv' /\ Stays /\ LooksInv'
<1>1. LookOK(l)' /\ ~Probes(l)
  BY Zenon DEF LookOK, Probes
<1>2. LooksInv'
  BY <1>1, OneLook, Zenon
<1> QED BY <1>2, SetIsLeft, Zenon

\* After AddAll every view is an old one or one of the new manifests, in its place.
LEMMA GrownSet ==
    ASSUME RepoInv, SetInv, NEW ms, NEW t, Took(set, ms, Len(ms), t), Len(ms) \in Nat
    PROVE  /\ \A key \in DOMAIN set.explicit : key \in DOMAIN t.explicit /\ t.explicit[key] = set.explicit[key]
           /\ \A k \in DOMAIN set.views : k \in DOMAIN t.views /\ t.views[k] = set.views[k]
           /\ Len(set.views) \in Nat /\ t.views \in Seq(Manifests)
           /\ \A k \in DOMAIN t.views : \/ k \in DOMAIN set.views
                                        \/ \E j \in 1 .. Len(ms) : k = Len(set.views) + j /\ t.views[k] = ms[j]
<1>1. PICK j \in 0 .. Len(ms) : Viewed(set, t, ms, j)
  BY Zenon DEF Took
<1>2. PICK x, y : x = set.views /\ y = t.views
  BY Zenon
<1>3. x \in Seq(Manifests) /\ y \in Seq(Manifests)
  BY <1>2, Zenon DEF SetInv, Took, SetOK
<1>4. Len(y) = Len(x) + j /\ (\A i \in 1 .. Len(x) : y[i] = x[i]) /\ (\A i \in 1 .. j : y[Len(x) + i] = ms[i])
  BY <1>1, <1>2, Zenon DEF Viewed
<1>5. Len(x) \in Nat /\ DOMAIN x = 1 .. Len(x) /\ DOMAIN y = 1 .. Len(x) + j /\ j \in Nat /\ j <= Len(ms)
  BY <1>3, <1>4
<1>6. \A k \in DOMAIN x : k \in DOMAIN y /\ y[k] = x[k]
  BY <1>4, <1>5
<1>7. ASSUME NEW k \in DOMAIN y, k \notin DOMAIN x
      PROVE  \E i \in 1 .. Len(ms) : k = Len(x) + i /\ y[k] = ms[i]
  <2>1. PICK i : i = k - Len(x)
    BY Zenon
  <2>2. i \in 1 .. j /\ i \in 1 .. Len(ms) /\ k = Len(x) + i
    BY <1>5, <1>7, <2>1
  <2> QED BY <1>4, <2>2, Zenon
<1>8. \A key \in DOMAIN set.explicit : key \in DOMAIN t.explicit /\ t.explicit[key] = set.explicit[key]
  BY Zenon DEF Took, Grows
<1> QED BY <1>2, <1>3, <1>5, <1>6, <1>7, <1>8, Zenon

\* Loading the set preserves the invariant, whether it fails or not (LoadSet).
LEMMA LoadSetStep ==
    ASSUME ArtifactIInv, NEW got \in Fetched(1), NEW failed, LoadSet(got, failed)
    PROVE  RepoInv' /\ SetInv' /\ Stays /\ LooksInv'
<1> DEFINE cfgs == loadUnversioned(got)
<1>1. PICK ms : ms = cfgs
  BY Zenon
<1>2. PICK t : t = AddAll(set, ms)
  BY Zenon
<1>3. set.state = "loading" /\ repo' = repo /\ published' = published /\ look' = look
  BY Zenon DEF LoadSet
<1>4. RepoInv /\ SetInv /\ LooksInv
  BY Zenon DEF ArtifactIInv
<1>5. set' = IF failed \/ Malformed \in Range(ms) \/ t.rejected \/ t.views = <<>> \/ set.pin > Len(t.views)
             THEN [set EXCEPT !.state = "failed"]
             ELSE [t EXCEPT !.state = "ready", !.current = Len(t.views), !.caches = ms = got]
  BY <1>1, <1>2, Zenon DEF LoadSet
<1>6. RepoInv'
  BY <1>3, <1>4, Zenon DEF RepoInv
<1>7. LooksInv'
  <2>1. \A c \in Lookups : ~Probes(look[c])
    BY <1>3, <1>4, Zenon DEF LooksInv, LookOK
  <2> QED BY <1>3, <1>4, <2>1, NobodyProbes, Zenon
<1>8. SetOK(set) /\ set.views = <<>> /\ DOMAIN set = SetFields
  BY <1>3, <1>4, Zenon DEF SetInv, SetOK
<1>9. CASE set' = [set EXCEPT !.state = "failed"]
  <2>1. DOMAIN set' = SetFields /\ set'.views = set.views /\ set'.explicit = set.explicit /\ set'.caches = set.caches
    BY <1>8, <1>9, Zenon DEF SetFields
  <2>2. SetOK(set')
    BY <1>8, <2>1, SameSet, Zenon
  <2>3. SetOK(set)'
    BY <2>2, Zenon DEF SetOK, Agrees, Listed
  <2>4. VersionsAreManifests'
    BY <1>3, <1>4, <2>1, Zenon DEF SetInv, VersionsAreManifests
  <2>5. SetInv'
    BY <1>8, <2>1, <2>3, <2>4, Zenon DEF SetInv
  <2>6. Stays
    BY <2>1, Zenon DEF Stays
  <2> QED BY <1>6, <1>7, <2>5, <2>6, Zenon
<1>10. CASE set' = [t EXCEPT !.state = "ready", !.current = Len(t.views), !.caches = ms = got]
  <2>1. Len(got) \in Nat /\ \A j \in 1 .. Len(got) : j <= published /\ got[j] = repo.manifests[j]
    <3>1. got \in Fetched(0 + 1)
      OBVIOUS
    <3>2. /\ Len(got) \in Nat
          /\ \A j \in 1 .. Len(got) : 0 + j <= published /\ got[j] = repo.manifests[0 + j]
      BY <1>4, <3>1, FetchedManifests, Zenon
    <3>3. \A j \in 1 .. Len(got) : 0 + j = j
      BY <3>2
    <3> QED BY <3>2, <3>3, Zenon
  <2>2. ms = got \/ ms = <<repo.unversioned>>
    BY <1>1, Zenon DEF loadUnversioned
  <2>3. Len(ms) \in Nat /\ \A j \in 1 .. Len(ms) : ms[j] \in Manifests
    <3>1. CASE ms = got
      <4>1. ASSUME NEW j \in 1 .. Len(got) PROVE got[j] \in Manifests
        BY <1>4, <2>1, RepoManifests
      <4> QED BY <2>1, <3>1, <4>1, Zenon
    <3>2. CASE ms = <<repo.unversioned>>
      BY <1>4, <3>2, RepoManifests
    <3> QED BY <2>2, <3>1, <3>2, Zenon
  <2>4. Took(set, ms, Len(ms), t)
    BY <1>2, <1>8, <2>3, AddAllTakes, Zenon
  <2>5. SetOK(t) /\ DOMAIN t = SetFields
    BY <2>4, Zenon DEF Took, SetOK
  <2>6. /\ DOMAIN set' = SetFields /\ set'.views = t.views /\ set'.explicit = t.explicit
        /\ set'.caches = (ms = got) /\ set'.state = "ready"
    BY <1>10, <2>5, Zenon DEF SetFields
  <2>7. SetOK(set)'
    <3>1. SetOK(set')
      BY <2>5, <2>6, SameSet, Zenon
    <3> QED BY <3>1, Zenon DEF SetOK, Agrees, Listed
  <2>8. Stays
    <3>1. /\ \A key \in DOMAIN set.explicit : key \in DOMAIN t.explicit /\ t.explicit[key] = set.explicit[key]
          /\ \A k \in DOMAIN set.views : k \in DOMAIN t.views /\ t.views[k] = set.views[k]
      BY <1>4, <2>3, <2>4, GrownSet
    <3> QED BY <2>6, <3>1, Zenon DEF Stays
  <2>9. VersionsAreManifests'
    <3> SUFFICES ASSUME NEW k \in DOMAIN t.views
                 PROVE  \/ k <= published /\ t.views[k] = repo.manifests[k]
                        \/ k = 1 /\ ~(ms = got) /\ t.views[k] = repo.unversioned
      BY <1>3, <2>6, Zenon DEF VersionsAreManifests
    <3>1. PICK j \in 1 .. Len(ms) : k = Len(set.views) + j /\ t.views[k] = ms[j]
      BY <1>4, <1>8, <2>3, <2>4, GrownSet
    <3>2. k = j
      BY <1>8, <2>3, <3>1
    <3>3. CASE ms = got
      BY <2>1, <3>1, <3>2, <3>3, Zenon
    <3>4. CASE ms = <<repo.unversioned>> /\ ms # got
      BY <3>1, <3>2, <3>4
    <3> QED BY <2>2, <3>3, <3>4, Zenon
  <2>10. SetInv'
    BY <2>6, <2>7, <2>9, Zenon DEF SetInv
  <2> QED BY <1>6, <1>7, <2>8, <2>10, Zenon
<1> QED BY <1>5, <1>9, <1>10, Zenon

\* So does a restart.
LEMMA RestartStep ==
    ASSUME ArtifactIInv, Restart
    PROVE  RepoInv' /\ SetInv' /\ Stays /\ LooksInv'
<1>1. /\ set.state = "failed" /\ set' = [set EXCEPT !.state = "loading"]
      /\ repo' = repo /\ published' = published /\ look' = look
  BY Zenon DEF Restart
<1>2. RepoInv /\ SetInv /\ LooksInv
  BY Zenon DEF ArtifactIInv
<1>3. RepoInv'
  BY <1>1, <1>2, Zenon DEF RepoInv
<1>4. LooksInv'
  <2>1. \A c \in Lookups : ~Probes(look[c])
    BY <1>1, <1>2, Zenon DEF LooksInv, LookOK
  <2> QED BY <1>1, <1>2, <2>1, NobodyProbes, Zenon
<1>5. SetOK(set) /\ set.views = <<>> /\ DOMAIN set = SetFields
  BY <1>1, <1>2, Zenon DEF SetInv, SetOK
<1>6. DOMAIN set' = SetFields /\ set'.views = set.views /\ set'.explicit = set.explicit /\ set'.caches = set.caches
  BY <1>1, <1>5, Zenon DEF SetFields
<1>7. SetOK(set)'
  <2>1. SetOK(set')
    BY <1>5, <1>6, SameSet, Zenon
  <2> QED BY <2>1, Zenon DEF SetOK, Agrees, Listed
<1>8. VersionsAreManifests'
  BY <1>1, <1>2, <1>6, Zenon DEF SetInv, VersionsAreManifests
<1>9. SetInv'
  BY <1>5, <1>6, <1>7, <1>8, Zenon DEF SetInv
<1>10. Stays
  BY <1>6, Zenon DEF Stays
<1> QED BY <1>3, <1>4, <1>9, <1>10, Zenon

\* A manifest that is published while callers have fetched older ones changes nothing for
\* them.
LEMMA PublishStep ==
    ASSUME ArtifactIInv, Publish
    PROVE  RepoInv' /\ SetInv' /\ Stays /\ LooksInv'
<1>1. published' = published + 1 /\ published < Len(repo.manifests) /\ repo' = repo /\ set' = set /\ look' = look
  BY Zenon DEF Publish
<1>2. RepoInv /\ SetInv /\ LooksInv
  BY Zenon DEF ArtifactIInv
<1>3. published \in Nat /\ Len(repo.manifests) \in Nat
  BY <1>2, RepoManifests, Zenon
<1>4. RepoInv'
  BY <1>1, <1>2, <1>3 DEF RepoInv
<1>5. SetOK(set) /\ (set.state # "ready" => set.views = <<>>) /\ VersionsAreManifests /\ DOMAIN set.views \subseteq Nat
  BY <1>2 DEF SetInv, SetOK
<1>6. VersionsAreManifests'
  <2>1. \A k \in DOMAIN set.views : k <= published => k <= published'
    BY <1>1, <1>3, <1>5
  <2> QED BY <1>1, <1>5, <2>1, Zenon DEF VersionsAreManifests
<1>7. SetInv'
  BY <1>1, <1>5, <1>6, Zenon DEF SetInv, SetOK, Agrees, Listed
<1>8. Stays
  BY <1>1, Zenon DEF Stays
<1>9. Len(set.views) \in Nat
  BY <1>5 DEF SetOK
<1>10. ASSUME NEW c \in Lookups PROVE LookOK(look[c])'
  <2>1. PICK r : r = look[c]
    BY Zenon
  <2>2. LookOK(r)
    BY <1>2, <2>1, Zenon DEF LooksInv
  <2>3. GotOK(r.got) => GotOK(r.got)'
    BY <1>1, <1>3, <1>9 DEF GotOK, latest
  <2>4. LookOK(r)'
    BY <1>1, <2>2, <2>3, Zenon DEF LookOK, latest
  <2>5. look'[c] = r
    BY <1>1, <2>1, Zenon
  <2> QED BY <2>4, <2>5, Zenon DEF LookOK, GotOK, latest, Probes
<1>11. LooksInv'
  BY <1>1, <1>2, <1>10, Zenon DEF LooksInv, Probes
<1> QED BY <1>4, <1>7, <1>8, <1>11, Zenon

\* Taking the slot preserves the invariant (probe).
LEMMA probeStep ==
    ASSUME ArtifactIInv, NEW c \in Lookups, probe(c)
    PROVE  RepoInv' /\ SetInv' /\ Stays /\ LooksInv'
<1>1. RepoInv /\ SetInv /\ LooksInv
  BY Zenon DEF ArtifactIInv
<1>2. At(c, "slot") /\ SlotIsFree /\ UNCHANGED <<repo, published, set>>
  BY Zenon DEF probe
<1>3. CASE Goes(c, "again")
  BY <1>1, <1>2, <1>3, GoesStep, Zenon
<1>4. CASE look' = [look EXCEPT ![c].pc = "fetch", ![c].latest = latest]
  <2>1. PICK n : n = latest
    BY Zenon
  <2>2. PICK l : l = [look[c] EXCEPT !.pc = "fetch", !.latest = n]
    BY Zenon
  <2>3. look' = [look EXCEPT ![c] = l]
    BY <1>4, <2>1, <2>2, Zenon
  <2>4. DOMAIN look[c] = LookFields
    BY <1>1, Zenon DEF LooksInv, LookOK
  <2>5. DOMAIN l = LookFields /\ l.pc = "fetch" /\ l.latest = n
    BY <2>2, <2>4, Zenon DEF LookFields
  <2>6. n = latest' /\ set'.state = "ready"
    BY <1>2, <2>1, Zenon DEF latest, At
  <2>7. LookOK(l)'
    BY <2>5, <2>6, Zenon DEF LookOK
  <2>8. LooksInv'
    BY <1>1, <1>2, <2>3, <2>7, OneLook, Zenon
  <2> QED BY <1>1, <1>2, <2>8, SetIsLeft, Zenon
<1> QED BY <1>3, <1>4, Zenon DEF probe

\* What the source answers is still what follows the last view: only the holder of the slot
\* adds views (fetchManifests).
LEMMA FetchesStep ==
    ASSUME ArtifactIInv, NEW c \in Lookups, NEW got \in Fetched(look[c].latest + 1), NEW failed,
           Fetches(c, got, failed)
    PROVE  RepoInv' /\ SetInv' /\ Stays /\ LooksInv'
<1>1. RepoInv /\ SetInv /\ LooksInv
  BY Zenon DEF ArtifactIInv
<1>2. /\ look[c].pc = "fetch" /\ look' = [look EXCEPT ![c].pc = "install", ![c].got = got, ![c].erred = failed]
      /\ UNCHANGED <<repo, published, set>>
  BY Zenon DEF Fetches, At
<1>3. PICK l : l = [look[c] EXCEPT !.pc = "install", !.got = got, !.erred = failed]
  BY Zenon
<1>4. look' = [look EXCEPT ![c] = l]
  BY <1>2, <1>3, Zenon
<1>5. LookOK(look[c]) /\ DOMAIN look[c] = LookFields
  BY <1>1, Zenon DEF LooksInv, LookOK
<1>6. Probes(look[c]) /\ set.state = "ready" /\ look[c].latest = latest
  BY <1>2, <1>5, Zenon DEF LookOK, Probes
<1>7. DOMAIN l = LookFields /\ l.pc = "install" /\ l.got = got /\ l.latest = look[c].latest
  BY <1>3, <1>5, Zenon DEF LookFields
<1>8. PICK n : n = latest
  BY Zenon
<1>9. n \in Nat
  BY <1>1, <1>8 DEF latest, SetInv, SetOK
<1>10. got \in Fetched(n + 1)
  BY <1>6, <1>8, Zenon
<1>11. Len(got) \in Nat /\ \A j \in 1 .. Len(got) : n + j <= published /\ got[j] = repo.manifests[n + j]
  BY <1>1, <1>9, <1>10, FetchedManifests, Zenon
<1>12. GotOK(got)'
  BY <1>2, <1>8, <1>11, Zenon DEF GotOK, latest
<1>13. n = latest' /\ set'.state = "ready"
  BY <1>2, <1>6, <1>8, Zenon DEF latest
<1>14. LookOK(l)'
  BY <1>6, <1>7, <1>8, <1>12, <1>13, Zenon DEF LookOK
<1>15. LooksInv'
  BY <1>1, <1>2, <1>4, <1>6, <1>14, OneLook, Zenon
<1> QED BY <1>1, <1>2, <1>15, SetIsLeft, Zenon

\* Installing what was fetched preserves the invariant (probe).
LEMMA InstallsStep ==
    ASSUME ArtifactIInv, NEW c \in Lookups, NEW cut, Installs(c, cut)
    PROVE  RepoInv' /\ SetInv' /\ Stays /\ LooksInv'
<1>1. RepoInv /\ SetInv /\ LooksInv
  BY Zenon DEF ArtifactIInv
<1>2. PICK ms, t : ms = look[c].got /\ t = AddAll(set, ms)
  BY Zenon
<1>3. PICK pc \in {"idle", "again", "found", "slot"} : Goes(c, pc)
  BY Zenon DEF Installs
<1>4. /\ set.state = "ready" /\ look[c].pc = "install" /\ set' = t
      /\ repo' = repo /\ published' = published
  BY <1>2, Zenon DEF Installs, At
<1>5. LookOK(look[c])
  BY <1>1, Zenon DEF LooksInv
<1>6. GotOK(ms) /\ Probes(look[c])
  BY <1>2, <1>4, <1>5, Zenon DEF LookOK, Probes
<1>7. Len(set.views) \in Nat /\ SetOK(set) /\ VersionsAreManifests
  BY <1>1 DEF SetInv, SetOK
<1>8. /\ Len(ms) \in Nat
      /\ \A j \in 1 .. Len(ms) : Len(set.views) + j <= published /\ ms[j] = repo.manifests[Len(set.views) + j]
  BY <1>6, Zenon DEF GotOK, latest
<1>9. ASSUME NEW j \in 1 .. Len(ms) PROVE ms[j] \in Manifests
  <2>1. Len(set.views) + j \in 1 .. published /\ ms[j] = repo.manifests[Len(set.views) + j]
    BY <1>7, <1>8
  <2> QED BY <1>1, <2>1, RepoManifests, Zenon
<1>10. Took(set, ms, Len(ms), t)
  BY <1>2, <1>7, <1>8, <1>9, AddAllTakes, Zenon
<1>11. /\ \A key \in DOMAIN set.explicit : key \in DOMAIN t.explicit /\ t.explicit[key] = set.explicit[key]
       /\ \A k \in DOMAIN set.views : k \in DOMAIN t.views /\ t.views[k] = set.views[k]
       /\ \A k \in DOMAIN t.views : \/ k \in DOMAIN set.views
                                    \/ \E j \in 1 .. Len(ms) : k = Len(set.views) + j /\ t.views[k] = ms[j]
  BY <1>1, <1>8, <1>10, GrownSet
<1>12. Stays
  BY <1>4, <1>11, Zenon DEF Stays
<1>13. SetOK(t) /\ t.state = set.state /\ t.caches = set.caches
  BY <1>10, Zenon DEF Took, Grows
<1>14. SetOK(set)'
  BY <1>4, <1>13, Zenon DEF SetOK, Agrees, Listed
<1>15. VersionsAreManifests'
  <2> SUFFICES ASSUME NEW k \in DOMAIN t.views
               PROVE  \/ k <= published /\ t.views[k] = repo.manifests[k]
                      \/ k = 1 /\ ~set.caches /\ t.views[k] = repo.unversioned
    BY <1>4, <1>13, Zenon DEF VersionsAreManifests
  <2>1. CASE k \in DOMAIN set.views
    BY <1>7, <1>11, <2>1, Zenon DEF VersionsAreManifests
  <2>2. CASE k \notin DOMAIN set.views
    <3>1. PICK j \in 1 .. Len(ms) : k = Len(set.views) + j /\ t.views[k] = ms[j]
      BY <1>11, <2>2, Zenon
    <3> QED BY <1>8, <3>1, Zenon
  <2> QED BY <2>1, <2>2, Zenon
<1>16. SetInv'
  BY <1>4, <1>13, <1>14, <1>15, Zenon DEF SetInv
<1>17. RepoInv'
  BY <1>1, <1>4, Zenon DEF RepoInv
<1>18. PICK l : look' = [look EXCEPT ![c] = l] /\ LookOK(l)' /\ ~Probes(l)
  BY <1>3, GoesTo, Zenon
<1>19. DOMAIN look = Lookups
  BY <1>1, Zenon DEF LooksInv
<1>20. DOMAIN look' = Lookups /\ look'[c] = l /\ \A d \in Lookups : d # c => look'[d] = look[d]
  BY <1>18, <1>19, Zenon
<1>21. ASSUME NEW d \in Lookups PROVE LookOK(look[d])' /\ ~Probes(look'[d])
  <2>1. CASE d = c
    BY <1>18, <1>20, <2>1, Zenon DEF LookOK, GotOK, latest, Probes
  <2>2. CASE d # c
    <3>1. PICK r : r = look[d]
      BY Zenon
    <3>2. LookOK(r) /\ ~Probes(r)
      BY <1>1, <1>6, <2>2, <3>1, Zenon DEF LooksInv
    <3>3. LookOK(r)'
      BY <3>2, Zenon DEF LookOK, Probes
    <3>4. look'[d] = r
      BY <1>20, <2>2, <3>1, Zenon
    <3> QED BY <3>2, <3>3, <3>4, Zenon DEF LookOK, GotOK, latest, Probes
  <2> QED BY <2>1, <2>2, Zenon
<1>22. LooksInv'
  BY <1>20, <1>21, Zenon DEF LooksInv, Probes
<1> QED BY <1>12, <1>16, <1>17, <1>22, Zenon

\* Loading a file preserves it: a hit moves it to the front, a miss goes to the source.
LEMMA LoadStep ==
    ASSUME ArtifactIInv, NEW c \in Lookups, NEW path \in DOMAIN sizeOf, Load(c, path)
    PROVE  RepoInv' /\ SetInv' /\ Stays /\ LooksInv' /\ CacheInv'
<1>1. RepoInv /\ SetInv /\ LooksInv /\ CacheInv
  BY Zenon DEF ArtifactIInv
<1>2. look[c].pc = "found" /\ UNCHANGED <<repo, published, set>>
  BY Zenon DEF Load, At
<1>3. CASE path \in Range(cache.order)
  <2>1. PICK k \in DOMAIN cache.order : cache' = [cache EXCEPT !.order = MovedToFront(@, k)]
    BY <1>3, Zenon DEF Load
  <2>2. CacheInv'
    BY <1>1, <2>1, HitCache, Zenon
  <2>3. Goes(c, "idle")
    BY <1>3, Zenon DEF Load
  <2> QED BY <1>1, <1>2, <2>2, <2>3, GoesStep, Zenon
<1>4. CASE path \notin Range(cache.order)
  <2>1. look' = [look EXCEPT ![c].pc = "load", ![c].path = path] /\ cache' = cache
    BY <1>4, Zenon DEF Load
  <2>2. PICK l : l = [look[c] EXCEPT !.pc = "load", !.path = path]
    BY Zenon
  <2>3. look' = [look EXCEPT ![c] = l]
    BY <2>1, <2>2, Zenon
  <2>4. DOMAIN look[c] = LookFields
    BY <1>1, Zenon DEF LooksInv, LookOK
  <2>5. DOMAIN l = LookFields /\ l.pc = "load" /\ l.path = path
    BY <2>2, <2>4, Zenon DEF LookFields
  <2>6. LookOK(l)' /\ ~Probes(l)
    BY <2>5, Zenon DEF LookOK, Probes
  <2>7. LooksInv'
    BY <1>1, <1>2, <2>3, <2>6, OneLook, Zenon
  <2>8. CacheInv'
    BY <1>1, <2>1, CacheIsLeft, Zenon
  <2> QED BY <1>1, <1>2, <2>7, <2>8, SetIsLeft, Zenon
<1> QED BY <1>3, <1>4, Zenon

\* So does storing the file after a miss, whoever stored one meanwhile (store).
LEMMA storeStep ==
    ASSUME ArtifactIInv, NEW c \in Lookups, store(c)
    PROVE  RepoInv' /\ SetInv' /\ Stays /\ LooksInv' /\ CacheInv'
<1>1. RepoInv /\ SetInv /\ LooksInv /\ CacheInv
  BY Zenon DEF ArtifactIInv
<1>2. PICK path, kept : path = look[c].path /\ kept = Kept(maxBytes - sizeOf[path])
  BY Zenon
<1>3. look[c].pc = "load" /\ UNCHANGED <<repo, published, set>> /\ Goes(c, "idle")
  BY Zenon DEF store, At
<1>4. LookOK(look[c])
  BY <1>1, Zenon DEF LooksInv
<1>5. path \in DOMAIN sizeOf
  BY <1>2, <1>3, <1>4, Zenon DEF LookOK
<1>6. CASE cache' = cache
  <2>1. CacheInv'
    BY <1>1, <1>6, CacheIsLeft, Zenon
  <2> QED BY <1>1, <1>3, <2>1, GoesStep, Zenon
<1>7. CASE cache' # cache
  <2>1. /\ path \notin Range(cache.order) /\ ~(sizeOf[path] > maxBytes)
        /\ cache' = [order |-> <<path>> \o kept,
                     size |-> cache.size - (SizeOf(cache.order) - SizeOf(kept)) + sizeOf[path]]
    BY <1>2, <1>7, Zenon DEF store, StoredMeanwhile
  <2>2. CacheInv'
    BY <1>1, <1>2, <1>5, <2>1, StoredCache, Zenon
  <2> QED BY <1>1, <1>3, <2>2, GoesStep, Zenon
<1> QED BY <1>6, <1>7, Zenon

\* The invariant holds initially.
LEMMA InitArtifacts == ArtifactInit => ArtifactIInv
<1> SUFFICES ASSUME ArtifactInit PROVE ArtifactIInv
  BY Zenon
<1>1. RepoInv
  BY Zenon DEF ArtifactInit, RepoInv
<1>2. SetInv
  <2>1. PICK pin : set = [state |-> "loading", pin |-> pin, current |-> 0, views |-> <<>>,
                          explicit |-> [key \in {} |-> 0], rejected |-> FALSE, caches |-> FALSE]
    BY Zenon DEF ArtifactInit
  <2>2. DOMAIN set = SetFields /\ set.views = <<>> /\ set.explicit = [key \in {} |-> 0]
    BY <2>1, Zenon DEF SetFields
  <2>3. set.views \in Seq(Manifests) /\ DOMAIN set.views = {} /\ DOMAIN set.explicit = {}
    BY <2>2
  <2>4. SetOK(set)
    BY <2>2, <2>3, Zenon DEF SetOK, Agrees, Listed
  <2> QED BY <2>2, <2>3, <2>4, Zenon DEF SetInv, VersionsAreManifests
<1>3. LooksInv
  <2>1. DOMAIN NoLookup = LookFields /\ NoLookup.pc = "idle"
    BY Zenon DEF NoLookup, LookFields
  <2>2. LookOK(NoLookup) /\ ~Probes(NoLookup)
    BY <2>1, Zenon DEF LookOK, Probes
  <2>3. DOMAIN look = Lookups /\ \A c \in Lookups : look[c] = NoLookup
    BY Zenon DEF ArtifactInit
  <2> QED BY <2>2, <2>3, Zenon DEF LooksInv
<1>4. CacheInv
  <2>1. DOMAIN cache = {"order", "size"} /\ cache.order = <<>> /\ cache.size = 0
    BY Zenon DEF ArtifactInit, NoCache
  <2>2. IsInjective(<<>>)
    BY DEF IsInjective
  <2>3. <<>> \in Seq(DOMAIN sizeOf) /\ 0 <= maxBytes
    BY ArtifactAssumption
  <2> QED BY <2>1, <2>2, <2>3, SizeOfNone, Zenon DEF CacheInv, CacheIsBounded
<1> QED BY <1>1, <1>2, <1>3, <1>4, Zenon DEF ArtifactIInv

\* Every step preserves it, and leaves alone what is loaded.
LEMMA NextArtifacts ==
    ASSUME ArtifactIInv, [ArtifactNext]_artifactVars
    PROVE  ArtifactIInv' /\ Stays
<1>1. RepoInv /\ SetInv /\ LooksInv /\ CacheInv
  BY Zenon DEF ArtifactIInv
<1> DEFINE Same == RepoInv' /\ SetInv' /\ Stays /\ LooksInv'
<1>2. ASSUME Same, CacheInv' PROVE ArtifactIInv' /\ Stays
  BY <1>2, Zenon DEF ArtifactIInv
<1>3. ASSUME Same, UNCHANGED cache PROVE ArtifactIInv' /\ Stays
  BY <1>1, <1>2, <1>3, CacheIsLeft, Zenon
<1> HIDE DEF Same
<1>4. ASSUME NEW got \in Fetched(1), NEW failed \in BOOLEAN, LoadSet(got, failed)
      PROVE  ArtifactIInv' /\ Stays
  BY <1>3, <1>4, LoadSetStep, Zenon DEF LoadSet, Same
<1>5. CASE Restart
  BY <1>3, <1>5, RestartStep, Zenon DEF Restart, Same
<1>6. CASE Publish
  BY <1>3, <1>6, PublishStep, Zenon DEF Publish, Same
<1>7. CASE Tick \/ UNCHANGED artifactVars
  <2>1. UNCHANGED <<repo, published, set, look, cache>>
    BY <1>7, Zenon DEF Tick, artifactVars
  <2>2. RepoInv' /\ SetInv' /\ Stays
    BY <1>1, <2>1, SetIsLeft, Zenon
  <2>3. LooksInv'
    BY <1>1, <2>1, Zenon DEF LooksInv, LookOK, GotOK, latest, Probes
  <2> QED BY <1>3, <2>1, <2>2, <2>3, Zenon DEF Same
<1>8. ASSUME NEW c \in Lookups, NEW v, Registry(c, v) PROVE ArtifactIInv' /\ Stays
  <2>1. PICK l : l = [NoLookup EXCEPT !.pc = IF v <= latest THEN "found" ELSE "slot", !.want = v]
    BY Zenon
  <2>2. look' = [look EXCEPT ![c] = l] /\ UNCHANGED <<repo, published, set, cache>>
    BY <1>8, <2>1, Zenon DEF Registry
  <2>3. DOMAIN l = LookFields /\ l.pc \in {"found", "slot"}
    BY <2>1, Zenon DEF NoLookup, LookFields
  <2> QED BY <1>1, <1>3, <2>2, <2>3, AsksStep, Zenon DEF Same
<1>9. ASSUME NEW c \in Lookups, NEW key, GetExplicit(c, key) PROVE ArtifactIInv' /\ Stays
  <2>1. PICK l : l = [NoLookup EXCEPT !.pc = IF key \in DOMAIN set.explicit THEN "found" ELSE "slot", !.key = key]
    BY Zenon
  <2>2. look' = [look EXCEPT ![c] = l] /\ UNCHANGED <<repo, published, set, cache>>
    BY <1>9, <2>1, Zenon DEF GetExplicit
  <2>3. DOMAIN l = LookFields /\ l.pc \in {"found", "slot"}
    BY <2>1, Zenon DEF NoLookup, LookFields
  <2> QED BY <1>1, <1>3, <2>2, <2>3, AsksStep, Zenon DEF Same
<1>10. ASSUME NEW c \in Lookups, Steps(c) PROVE ArtifactIInv' /\ Stays
  <2>1. CASE probe(c)
    BY <1>3, <2>1, probeStep, Zenon DEF probe, Same
  <2>2. ASSUME NEW got \in Fetched(look[c].latest + 1), NEW failed \in BOOLEAN, Fetches(c, got, failed)
        PROVE  ArtifactIInv' /\ Stays
    BY <1>3, <2>2, FetchesStep, Zenon DEF Fetches, Same
  <2>3. ASSUME NEW cut \in BOOLEAN, Installs(c, cut) PROVE ArtifactIInv' /\ Stays
    BY <1>3, <2>3, InstallsStep, Zenon DEF Installs, Same
  <2>4. CASE LooksAgain(c)
    <3>1. PICK pc \in {"idle", "again", "found", "slot"} : Goes(c, pc)
      BY <2>4, Zenon DEF LooksAgain
    <3>2. UNCHANGED <<repo, published, set, cache>>
      BY <2>4, Zenon DEF LooksAgain
    <3> QED BY <1>1, <1>3, <3>1, <3>2, GoesStep, Zenon DEF Same
  <2> QED BY <1>10, <2>1, <2>2, <2>3, <2>4, Zenon DEF Steps
<1>11. ASSUME NEW c \in Lookups, GivesUp(c) \/ LoadFails(c) PROVE ArtifactIInv' /\ Stays
  <2>1. Goes(c, "idle") /\ UNCHANGED <<repo, published, set, cache>>
    BY <1>11, Zenon DEF GivesUp, LoadFails
  <2> QED BY <1>1, <1>3, <2>1, GoesStep, Zenon DEF Same
<1>12. ASSUME NEW c \in Lookups, NEW path \in DOMAIN sizeOf, Load(c, path) PROVE ArtifactIInv' /\ Stays
  BY <1>2, <1>12, LoadStep, Zenon DEF Same
<1>13. ASSUME NEW c \in Lookups, store(c) PROVE ArtifactIInv' /\ Stays
  BY <1>2, <1>13, storeStep, Zenon DEF Same
<1> QED BY <1>4, <1>5, <1>6, <1>7, <1>8, <1>9, <1>10, <1>11, <1>12, <1>13, Zenon DEF ArtifactNext

-----------------------------------------------------------------------------
(***************************************************************************)
(* Theorems.                                                               *)
(***************************************************************************)
\* The inductive invariant holds in every reachable state, for every repository, number of
\* callers, pin and size of the cache.
THEOREM ArtifactInvariance == ArtifactSpec => []ArtifactIInv
<1>1. ArtifactIInv /\ [ArtifactNext]_artifactVars => ArtifactIInv'
  BY NextArtifacts, Zenon
<1> QED BY <1>1, InitArtifacts, PTL DEF ArtifactSpec

\* All loaded manifests agree on the file of an explicit version (Set.add, GetExplicit).
THEOREM ExplicitVersionsAgree == ArtifactSpec => []ExplicitKeepsFile
<1>1. ArtifactIInv => ExplicitKeepsFile
  BY Zenon DEF ArtifactIInv, SetInv, SetOK, Agrees, ExplicitKeepsFile
<1> QED BY <1>1, ArtifactInvariance, PTL

\* The cache holds each file once, counts its bytes right and stays within its bound
\* (cachingLoader).
THEOREM CacheStaysBounded == ArtifactSpec => []CacheIsBounded
<1>1. ArtifactIInv => CacheIsBounded
  BY Zenon DEF ArtifactIInv, CacheInv
<1> QED BY <1>1, ArtifactInvariance, PTL

\* A version is always answered from the manifest published under it (Registry, probe).
THEOREM VersionsArePublished == ArtifactSpec => []VersionsAreManifests
<1>1. ArtifactIInv => VersionsAreManifests
  BY Zenon DEF ArtifactIInv, SetInv
<1> QED BY <1>1, ArtifactInvariance, PTL

\* A version that is loaded never changes its manifest, nor an explicit key its entry: a
\* registry handed out earlier stays valid (Registry, GetExplicit).
THEOREM LoadedManifestsStay == ArtifactSpec => LoadedStays
<1>1. ArtifactIInv /\ [ArtifactNext]_artifactVars => [Stays]_artifactVars
  BY NextArtifacts, Zenon
<1> QED BY <1>1, ArtifactInvariance, PTL DEF ArtifactSpec, LoadedStays

-----------------------------------------------------------------------------
(***************************************************************************)
(* What a successful lookup reads.                                         *)
(***************************************************************************)
\* A caller that was told its manifest is there finds it: what is loaded stays.
FoundOK(l) ==
    /\ l.want \in Nat
    /\ l.pc = "found" => IF l.want # 0 THEN l.want \in DOMAIN set.views ELSE l.key \in DOMAIN set.explicit

\* This holds of all callers.
FoundInv == \A c \in Lookups : FoundOK(look[c])

\* A lookup that succeeds reads an existing view, and one by explicit version exactly the
\* file that the index names, even if views were added since (GetExplicit, loadAndParse).
FoundHasItsFile ==
    \A c \in Lookups : look[c].pc = "found" =>
        IF look[c].want # 0 THEN look[c].want \in DOMAIN set.views
        ELSE {row.path : row \in Rows(c)} = {set.explicit[look[c].key].path}

\* Steps that leave the caller alone.
LEMMA FoundStays ==
    ASSUME Stays, FoundInv, NEW c \in Lookups, look'[c] = look[c]
    PROVE  FoundOK(look[c])'
<1>1. PICK r : r = look[c]
  BY Zenon
<1>2. FoundOK(r)
  BY <1>1, Zenon DEF FoundInv
<1>3. FoundOK(r)'
  BY <1>2, Zenon DEF FoundOK, Stays
<1>4. r = look'[c]
  BY <1>1, Zenon
<1> QED BY <1>3, <1>4, Zenon DEF FoundOK

\* A step of one caller.
LEMMA OneFound ==
    ASSUME ArtifactIInv, Stays, FoundInv, NEW c \in Lookups, NEW l, look' = [look EXCEPT ![c] = l], FoundOK(l)'
    PROVE  FoundInv'
<1>1. DOMAIN look = Lookups
  BY Zenon DEF ArtifactIInv, LooksInv
<1>2. look'[c] = l /\ \A d \in Lookups : d # c => look'[d] = look[d]
  BY <1>1, Zenon
<1>3. ASSUME NEW d \in Lookups PROVE FoundOK(look[d])'
  <2>1. CASE d = c
    BY <1>2, <2>1, Zenon DEF FoundOK
  <2>2. CASE d # c
    BY <1>2, <2>2, FoundStays, Zenon
  <2> QED BY <2>1, <2>2, Zenon
<1> QED BY <1>3, Zenon DEF FoundInv

\* A caller that goes elsewhere, to "found" only if it is loaded.
LEMMA GoesFound ==
    ASSUME ArtifactIInv, Stays, FoundInv, NEW c \in Lookups, NEW pc, Goes(c, pc),
           pc = "found" => Loaded(c) /\ UNCHANGED set
    PROVE  FoundInv'
<1>1. CASE pc = "idle"
  <2>1. look' = [look EXCEPT ![c] = NoLookup]
    BY <1>1, Zenon DEF Goes
  <2>2. NoLookup.want = 0 /\ NoLookup.pc # "found"
    BY Zenon DEF NoLookup
  <2>3. FoundOK(NoLookup)'
    BY <2>2 DEF FoundOK
  <2> QED BY <2>1, <2>3, OneFound, Zenon
<1>2. CASE pc # "idle"
  <2>1. PICK w, k : w = look[c].want /\ k = look[c].key
    BY Zenon
  <2>2. PICK l : l = [NoLookup EXCEPT !.pc = pc, !.want = w, !.key = k]
    BY Zenon
  <2>3. look' = [look EXCEPT ![c] = l]
    BY <1>2, <2>1, <2>2, Zenon DEF Goes
  <2>4. l.pc = pc /\ l.want = w /\ l.key = k
    BY <2>2, Zenon DEF NoLookup
  <2>5. w \in Nat
    BY <2>1, Zenon DEF FoundInv, FoundOK
  <2>6. set.views \in Seq(Manifests)
    BY Zenon DEF ArtifactIInv, SetInv, SetOK
  <2>7. pc = "found" => IF w # 0 THEN w \in DOMAIN set.views ELSE k \in DOMAIN set.explicit
    BY <2>1, <2>5, <2>6 DEF Loaded, latest
  <2>8. pc = "found" => IF w # 0 THEN w \in DOMAIN set'.views ELSE k \in DOMAIN set'.explicit
    BY <2>7, Zenon
  <2>9. FoundOK(l)'
    BY <2>4, <2>5, <2>8, Zenon DEF FoundOK
  <2> QED BY <2>3, <2>9, OneFound, Zenon
<1> QED BY <1>1, <1>2, Zenon

\* A caller that is not at "found".
LEMMA BusyFound ==
    ASSUME ArtifactIInv, Stays, FoundInv, NEW c \in Lookups, NEW l, look' = [look EXCEPT ![c] = l],
           l.want = look[c].want, l.pc # "found"
    PROVE  FoundInv'
<1>1. l.want \in Nat
  BY Zenon DEF FoundInv, FoundOK
<1>2. FoundOK(l)'
  BY <1>1, Zenon DEF FoundOK
<1> QED BY <1>2, OneFound, Zenon

\* Every step preserves it, since what is loaded stays.
LEMMA NextFound ==
    ASSUME ArtifactIInv, FoundInv, [ArtifactNext]_artifactVars
    PROVE  FoundInv'
<1>1. Stays
  BY NextArtifacts, Zenon
<1>2. ASSUME look' = look PROVE FoundInv'
  BY <1>1, <1>2, FoundStays, Zenon DEF FoundInv
<1>3. \A c \in Lookups : DOMAIN look[c] = LookFields
  BY Zenon DEF ArtifactIInv, LooksInv, LookOK
<1>4. ASSUME NEW got \in Fetched(1), NEW failed \in BOOLEAN, LoadSet(got, failed) PROVE FoundInv'
  BY <1>2, <1>4, Zenon DEF LoadSet
<1>5. CASE Restart \/ Publish \/ Tick \/ UNCHANGED artifactVars
  BY <1>2, <1>5, Zenon DEF Restart, Publish, Tick, artifactVars
<1>6. ASSUME NEW c \in Lookups, NEW v \in 1 .. Len(repo.manifests), Registry(c, v) PROVE FoundInv'
  <2>1. PICK l : l = [NoLookup EXCEPT !.pc = IF v <= latest THEN "found" ELSE "slot", !.want = v]
    BY Zenon
  <2>2. look' = [look EXCEPT ![c] = l] /\ set' = set
    BY <1>6, <2>1, Zenon DEF Registry
  <2>3. l.want = v /\ l.pc = IF v <= latest THEN "found" ELSE "slot"
    BY <2>1, Zenon DEF NoLookup
  <2>4. set.views \in Seq(Manifests)
    BY Zenon DEF ArtifactIInv, SetInv, SetOK
  <2>5. v \in Nat /\ v # 0 /\ (v <= latest => v \in DOMAIN set.views)
    BY <2>4 DEF latest
  <2>6. FoundOK(l)'
    BY <2>2, <2>3, <2>5, Zenon DEF FoundOK
  <2> QED BY <1>1, <2>2, <2>6, OneFound, Zenon
<1>7. ASSUME NEW c \in Lookups, NEW key, GetExplicit(c, key) PROVE FoundInv'
  <2>1. PICK l : l = [NoLookup EXCEPT !.pc = IF key \in DOMAIN set.explicit THEN "found" ELSE "slot", !.key = key]
    BY Zenon
  <2>2. look' = [look EXCEPT ![c] = l] /\ set' = set
    BY <1>7, <2>1, Zenon DEF GetExplicit
  <2>3. l.want = 0 /\ l.key = key /\ l.pc = IF key \in DOMAIN set.explicit THEN "found" ELSE "slot"
    BY <2>1, Zenon DEF NoLookup
  <2>4. FoundOK(l)'
    BY <2>2, <2>3 DEF FoundOK
  <2> QED BY <1>1, <2>2, <2>4, OneFound, Zenon
<1>8. ASSUME NEW c \in Lookups, probe(c) PROVE FoundInv'
  <2>1. CASE Goes(c, "again")
    BY <1>1, <2>1, GoesFound, Zenon
  <2>2. CASE look' = [look EXCEPT ![c].pc = "fetch", ![c].latest = latest]
    <3>1. PICK l : l = [look[c] EXCEPT !.pc = "fetch", !.latest = latest]
      BY Zenon
    <3>2. look' = [look EXCEPT ![c] = l]
      BY <2>2, <3>1, Zenon
    <3>3. l.want = look[c].want /\ l.pc # "found"
      BY <1>3, <3>1, Zenon DEF LookFields
    <3> QED BY <1>1, <3>2, <3>3, BusyFound, Zenon
  <2> QED BY <1>8, <2>1, <2>2, Zenon DEF probe
<1>9. ASSUME NEW c \in Lookups, NEW got, NEW failed, Fetches(c, got, failed) PROVE FoundInv'
  <2>1. PICK l : l = [look[c] EXCEPT !.pc = "install", !.got = got, !.erred = failed]
    BY Zenon
  <2>2. look' = [look EXCEPT ![c] = l]
    BY <1>9, <2>1, Zenon DEF Fetches
  <2>3. l.want = look[c].want /\ l.pc # "found"
    BY <1>3, <2>1, Zenon DEF LookFields
  <2> QED BY <1>1, <2>2, <2>3, BusyFound, Zenon
<1>10. ASSUME NEW c \in Lookups, NEW cut, Installs(c, cut) PROVE FoundInv'
  <2>1. PICK pc : Goes(c, pc) /\ pc # "found"
    BY <1>10 DEF Installs
  <2> QED BY <1>1, <2>1, GoesFound, Zenon
<1>11. ASSUME NEW c \in Lookups, LooksAgain(c) PROVE FoundInv'
  <2>1. PICK pc : pc = (IF Loaded(c) THEN "found" ELSE "idle")
    BY Zenon
  <2>2. Goes(c, pc) /\ UNCHANGED set /\ (pc = "found" => Loaded(c))
    BY <1>11, <2>1, Zenon DEF LooksAgain
  <2> QED BY <1>1, <2>2, GoesFound, Zenon
<1>12. ASSUME NEW c \in Lookups, GivesUp(c) \/ LoadFails(c) \/ store(c) PROVE FoundInv'
  <2>1. Goes(c, "idle")
    BY <1>12, Zenon DEF GivesUp, LoadFails, store
  <2> QED BY <1>1, <2>1, GoesFound, Zenon
<1>13. ASSUME NEW c \in Lookups, NEW path, Load(c, path) PROVE FoundInv'
  <2>1. CASE Goes(c, "idle")
    BY <1>1, <2>1, GoesFound, Zenon
  <2>2. CASE look' = [look EXCEPT ![c].pc = "load", ![c].path = path]
    <3>1. PICK l : l = [look[c] EXCEPT !.pc = "load", !.path = path]
      BY Zenon
    <3>2. look' = [look EXCEPT ![c] = l]
      BY <2>2, <3>1, Zenon
    <3>3. l.want = look[c].want /\ l.pc # "found"
      BY <1>3, <3>1, Zenon DEF LookFields
    <3> QED BY <1>1, <3>2, <3>3, BusyFound, Zenon
  <2> QED BY <1>13, <2>1, <2>2, Zenon DEF Load
<1> QED BY <1>4, <1>5, <1>6, <1>7, <1>8, <1>9, <1>10, <1>11, <1>12, <1>13, Zenon DEF ArtifactNext, Steps

\* The file of an explicit lookup, from the index.
LEMMA FoundFile ==
    ASSUME ArtifactIInv, FoundInv
    PROVE  FoundHasItsFile
<1> SUFFICES ASSUME NEW c \in Lookups, look[c].pc = "found"
             PROVE  IF look[c].want # 0 THEN look[c].want \in DOMAIN set.views
                    ELSE {row.path : row \in Rows(c)} = {set.explicit[look[c].key].path}
  BY Zenon DEF FoundHasItsFile
<1>1. CASE look[c].want # 0
  BY <1>1, Zenon DEF FoundInv, FoundOK
<1>2. CASE look[c].want = 0
  <2>1. PICK key : key = look[c].key
    BY Zenon
  <2>2. key \in DOMAIN set.explicit
    BY <1>2, <2>1, Zenon DEF FoundInv, FoundOK
  <2>3. Agrees(set) /\ Listed(set)
    BY Zenon DEF ArtifactIInv, SetInv, SetOK
  <2>4. PICK k : k = set.explicit[key].manifest
    BY Zenon
  <2>5. k \in DOMAIN set.views
    BY <2>2, <2>3, <2>4, Zenon DEF Listed
  <2>6. PICK r \in ExplicitRows(set.views[k]) : KeyOf(r) = key /\ r.path = set.explicit[key].path
    BY <2>2, <2>3, <2>4, Zenon DEF Listed
  <2>7. Rows(c) = {row \in Range(set.views[k]) : KeyOf(row) = key}
    BY <1>2, <2>1, <2>4, Zenon DEF Rows, Get
  <2>8. r \in Rows(c)
    BY <2>6, <2>7, Zenon DEF ExplicitRows
  <2>9. ASSUME NEW row \in Rows(c) PROVE row.path = set.explicit[key].path
    <3>1. row \in Range(set.views[k]) /\ KeyOf(row) = key
      BY <2>7, Zenon
    <3>2. row.version = r.version
      BY <2>6, <3>1 DEF KeyOf
    <3>3. row \in ExplicitRows(set.views[k])
      BY <2>6, <3>1, <3>2, Zenon DEF ExplicitRows
    <3> QED BY <2>3, <2>5, <3>1, <3>3, Zenon DEF Agrees
  <2> QED BY <1>2, <2>1, <2>6, <2>8, <2>9, Zenon
<1> QED BY <1>1, <1>2, Zenon

\* Every successful lookup reads the file it asked for, whenever it reads it.
THEOREM FoundFilesAreIndexed == ArtifactSpec => []FoundHasItsFile
<1>1. ArtifactInit => FoundInv
  <2>1. NoLookup.want = 0 /\ NoLookup.pc # "found"
    BY Zenon DEF NoLookup
  <2>2. FoundOK(NoLookup)
    BY <2>1 DEF FoundOK
  <2> QED BY <2>2, Zenon DEF ArtifactInit, FoundInv
<1>2. ArtifactIInv /\ FoundInv /\ [ArtifactNext]_artifactVars => FoundInv'
  BY NextFound, Zenon
<1>3. ArtifactIInv /\ FoundInv => FoundHasItsFile
  BY FoundFile, Zenon
<1> QED BY <1>1, <1>2, <1>3, ArtifactInvariance, PTL DEF ArtifactSpec

=============================================================================
