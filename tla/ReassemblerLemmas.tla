-------------------------- MODULE ReassemblerLemmas --------------------------
(***************************************************************************)
(* What each method of the reassembler keeps and computes, for every map   *)
(* of stored segments and every substring of a stream of n bytes whose     *)
(* byte at index i is i itself.                                            *)
(*                                                                         *)
(* Each loop is a recursive function: it is shown to exist, so that it     *)
(* obeys its equation, and its invariant follows by induction over the     *)
(* turns.                                                                  *)
(***************************************************************************)
EXTENDS StreamReassembler, Lemmas

\* The maps from start indices to strings.
Maps == UNION {[K -> Seq(Nat)] : K \in SUBSET Nat}

\* data holds the bytes of the stream from index on.
InPlace(data, index) ==
    data \in Seq(Nat) /\ \A k \in 1 .. Len(data) : data[k] = index + k - 1

\* Stored segments hold the bytes of their places, are not empty, lie inside a
\* stream of n bytes and do not overlap.
Placed(S, n) ==
    /\ S \in Maps
    /\ \A i \in DOMAIN S : InPlace(S[i], i) /\ Len(S[i]) > 0 /\ i + Len(S[i]) <= n
    /\ \A i \in DOMAIN S, j \in DOMAIN S : i < j => i + Len(S[i]) <= j

LEMMA MapFacts ==
    ASSUME NEW S \in Maps
    PROVE  /\ DOMAIN S \subseteq Nat /\ S = [i \in DOMAIN S |-> S[i]]
           /\ \A i \in DOMAIN S : i \in Nat /\ S[i] \in Seq(Nat) /\ Len(S[i]) \in Nat
<1>1. PICK K \in SUBSET Nat : S \in [K -> Seq(Nat)]
  BY DEF Maps
<1>2. DOMAIN S = K /\ S = [i \in DOMAIN S |-> S[i]] /\ \A i \in DOMAIN S : S[i] \in Seq(Nat)
  BY <1>1
<1> QED
  BY <1>2

LEMMA IsMap ==
    ASSUME NEW S, NEW K \in SUBSET Nat, S = [i \in K |-> S[i]], \A i \in K : S[i] \in Seq(Nat)
    PROVE  S \in Maps /\ DOMAIN S = K
<1>1. S \in [K -> Seq(Nat)] /\ DOMAIN S = K
  OBVIOUS
<1> QED
  BY <1>1 DEF Maps

LEMMA EraseFacts ==
    ASSUME NEW S \in Maps, NEW i
    PROVE  /\ Erase(S, i) \in Maps /\ DOMAIN Erase(S, i) = DOMAIN S \ {i}
           /\ \A j \in DOMAIN S \ {i} : Erase(S, i)[j] = S[j]
<1> DEFINE K == DOMAIN S \ {i}
           T == Erase(S, i)
<1>1. T = [j \in K |-> S[j]]
  BY DEF Erase, Restrict
<1>2. K \in SUBSET Nat /\ \A j \in K : S[j] \in Seq(Nat)
  BY MapFacts
<1>3. \A j \in K : T[j] = S[j]
  BY <1>1
<1>4. T = [j \in K |-> T[j]]
  BY <1>1, <1>3
<1> HIDE DEF K, T
<1>5. T \in Maps /\ DOMAIN T = K
  BY <1>2, <1>3, <1>4, IsMap
<1> QED
  BY <1>3, <1>5 DEF K, T

IsInsert(U, S, i, data) ==
    /\ U \in Maps /\ DOMAIN U = DOMAIN S \cup {i} /\ U[i] = data
    /\ \A j \in DOMAIN S : U[j] = S[j]

LEMMA InsertFacts ==
    ASSUME NEW S \in Maps, NEW i \in Nat, i \notin DOMAIN S, NEW data \in Seq(Nat)
    PROVE  IsInsert(Insert(S, i, data), S, i, data)
<1> DEFINE K == DOMAIN S \cup {i}
           T == Insert(S, i, data)
<1>1. T = [j \in K |-> IF j \in DOMAIN S THEN S[j] ELSE data]
  BY DEF Insert
<1>2. K \in SUBSET Nat /\ \A j \in DOMAIN S : S[j] \in Seq(Nat)
  BY MapFacts
<1>3. T[i] = data /\ \A j \in DOMAIN S : T[j] = S[j]
  BY <1>1
<1>4. T = [j \in K |-> T[j]]
  BY <1>1
<1>5. \A j \in K : T[j] \in Seq(Nat)
  BY <1>2, <1>3
<1> HIDE DEF K, T
<1>6. T \in Maps /\ DOMAIN T = K
  BY <1>2, <1>4, <1>5, IsMap
<1> QED
  BY <1>3, <1>6 DEF K, T, IsInsert

\* A map with some of the segments of another.
Part(T, S) == T \in Maps /\ DOMAIN T \subseteq DOMAIN S /\ \A i \in DOMAIN T : T[i] = S[i]

LEMMA PartPlaced ==
    ASSUME NEW n, NEW S, Placed(S, n), NEW T, Part(T, S)
    PROVE  Placed(T, n)
  BY Zenon DEF Part, Placed

LEMMA ErasePart ==
    ASSUME NEW S, NEW T, Part(T, S), NEW i
    PROVE  Part(Erase(T, i), S) /\ DOMAIN Erase(T, i) = DOMAIN T \ {i}
<1>1. T \in Maps /\ DOMAIN T \subseteq DOMAIN S /\ \A j \in DOMAIN T : T[j] = S[j]
  BY DEF Part
<1>2. /\ Erase(T, i) \in Maps /\ DOMAIN Erase(T, i) = DOMAIN T \ {i}
      /\ \A j \in DOMAIN T \ {i} : Erase(T, i)[j] = T[j]
  BY Zenon, <1>1, EraseFacts
<1> QED
  BY Zenon, <1>1, <1>2 DEF Part

LEMMA PlacedFacts ==
    ASSUME NEW n, NEW S, Placed(S, n), NEW i \in DOMAIN S
    PROVE  /\ i \in Nat /\ S[i] \in Seq(Nat) /\ Len(S[i]) \in Nat /\ Len(S[i]) > 0
           /\ i + Len(S[i]) <= n /\ InPlace(S[i], i)
           /\ \A j \in DOMAIN S : i < j => i + Len(S[i]) <= j
           /\ \A j \in DOMAIN S : j < i => j + Len(S[j]) <= i
<1>1. S \in Maps
  BY DEF Placed
<1> QED
  BY <1>1, MapFacts DEF Placed

\* A loop over the map has passed all keys when it ends.
LEMMA EndBound ==
    ASSUME NEW n \in Nat, NEW S, Placed(S, n)
    PROVE  End(S) \in 0 .. n /\ \A i \in DOMAIN S : i < End(S)
<1> DEFINE T == {0} \cup {i + 1 : i \in DOMAIN S}
<1>1. \A i \in DOMAIN S : i \in Nat /\ i + 1 \in 0 .. n
  <2>1. ASSUME NEW i \in DOMAIN S PROVE i \in Nat /\ i + 1 \in 0 .. n
    <3>1. i \in Nat /\ Len(S[i]) \in Nat /\ Len(S[i]) > 0 /\ i + Len(S[i]) <= n
      BY PlacedFacts
    <3> QED
      BY <3>1
  <2> QED
    BY <2>1
<1>2. T \subseteq 0 .. n /\ T # {}
  BY <1>1
<1>3. End(S) = CHOOSE x \in T : \A y \in T : x >= y
  BY DEF End, Max
<1>4. \A i \in DOMAIN S : i + 1 \in T
  OBVIOUS
<1> HIDE DEF T
<1>5. \E x \in T : \A y \in T : x >= y
  BY Zenon, <1>2, GreatestNat
<1>6. End(S) \in T /\ \A y \in T : End(S) >= y
  BY <1>3, <1>5
<1>7. End(S) \in 0 .. n
  BY Zenon, <1>2, <1>6
<1>8. ASSUME NEW i \in DOMAIN S PROVE i < End(S)
  <2>1. End(S) >= i + 1 /\ i \in Nat
    BY <1>1, <1>4, <1>6
  <2> QED
    BY <1>7, <2>1
<1> QED
  BY <1>7, <1>8

-----------------------------------------------------------------------------
(* The number of stored bytes                                              *)

LEMMA SizeFacts ==
    ASSUME NEW S \in Maps, NEW i
    PROVE  SizeAt(S, i) \in Nat
  BY MapFacts DEF SizeAt

IsTotal(g, S, K) ==
    g[0] = 0 /\ \A k \in 1 .. K : g[k] = g[k - 1] + SizeAt(S, k - 1)

LEMMA TotalType ==
    ASSUME NEW S \in Maps, NEW K \in Nat, NEW g, IsTotal(g, S, K)
    PROVE  \A k \in 0 .. K : g[k] \in Nat
<1> DEFINE I == {k \in 0 .. K : g[k] \in Nat}
<1>1. 0 \in I
  BY DEF IsTotal
<1>2. ASSUME NEW k \in 1 .. K, k - 1 \in I PROVE k \in I
  <2>1. g[k] = g[k - 1] + SizeAt(S, k - 1) /\ g[k - 1] \in Nat
    BY <1>2 DEF IsTotal
  <2> QED
    BY <2>1, SizeFacts
<1> HIDE DEF I
<1>3. \A k \in 0 .. K : k \in I
  BY <1>1, <1>2, RangeInd
<1> QED
  BY <1>3 DEF I

\* The loop of unassembled_bytes (stream_reassembler.cc:142-148) can be taken to
\* the end of the stream.
LEMMA TotalLoop ==
    ASSUME NEW n \in Nat, NEW S, Placed(S, n)
    PROVE  \E g : IsTotal(g, S, n) /\ TotalSize(S) = g[n]
<1> DEFINE B(K, g) == [k \in 0 .. K |-> IF k = 0 THEN 0 ELSE g[k - 1] + SizeAt(S, k - 1)]
           Runs == {K \in Nat : \E g : g = B(K, g)}
           E == End(S)
           total == CHOOSE g : g = B(E, g)
<1>1. E \in Nat /\ E <= n /\ \A i \in DOMAIN S : i < E
  BY EndBound
<1>2. TotalSize(S) = total[E]
  BY DEF TotalSize
<1> HIDE DEF E
<1>3. 0 \in Runs
  <2> DEFINE g == [k \in 0 .. 0 |-> 0]
  <2>1. g = B(0, g)
    OBVIOUS
  <2> QED
    BY Zenon, <2>1
<1>4. ASSUME NEW K \in Nat, K \in Runs PROVE K + 1 \in Runs
  <2>1. PICK g : g = B(K, g)
    BY <1>4
  <2> DEFINE x == g[K] + SizeAt(S, K)
             h == [k \in 0 .. K + 1 |-> IF k = K + 1 THEN x ELSE g[k]]
  <2>2. ASSUME NEW k \in 0 .. K + 1
        PROVE  h[k] = IF k = 0 THEN 0 ELSE h[k - 1] + SizeAt(S, k - 1)
    <3>1. CASE k = K + 1
      <4>1. h[k] = x /\ h[k - 1] = g[K] /\ k - 1 = K
        BY <3>1
      <4> QED
        BY <3>1, <4>1
    <3>2. CASE k = 0
      <4>1. h[k] = g[0] /\ g[0] = 0
        BY <2>1, <3>2
      <4> QED
        BY <3>2, <4>1
    <3>3. CASE k \in 1 .. K
      <4>1. h[k] = g[k] /\ h[k - 1] = g[k - 1] /\ g[k] = g[k - 1] + SizeAt(S, k - 1)
        BY <2>1, <3>3
      <4> QED
        BY <3>3, <4>1
    <3> QED
      BY <3>1, <3>2, <3>3
  <2>3. h = [k \in 0 .. K + 1 |-> h[k]]
    OBVIOUS
  <2> HIDE DEF h
  <2>4. h = B(K + 1, h)
    BY Zenon, <2>2, <2>3
  <2> QED
    BY <2>4
<1>5. \A K \in Nat : K \in Runs
  <2> HIDE DEF Runs
  <2> QED
    BY <1>3, <1>4, NatInd
<1>6. ASSUME NEW K \in Nat, NEW g, g = B(K, g)
      PROVE  IsTotal(g, S, K)
  BY <1>6 DEF IsTotal
<1>7. IsTotal(total, S, E)
  <2>1. \E g : g = B(E, g)
    BY Zenon, <1>1, <1>5
  <2>2. total = B(E, total)
    BY Zenon, <2>1
  <2> HIDE DEF total, B
  <2> QED
    BY <1>1, <1>6, <2>2
<1>8. PICK g : IsTotal(g, S, n)
  BY <1>5, <1>6
<1> HIDE DEF total, Runs
<1>9. \A k \in 0 .. E : total[k] = g[k]
  <2> DEFINE I == {k \in 0 .. E : total[k] = g[k]}
  <2>1. 0 \in I
    BY <1>1, <1>7, <1>8 DEF IsTotal
  <2>2. ASSUME NEW k \in 1 .. E, k - 1 \in I PROVE k \in I
    BY <1>1, <1>7, <1>8, <2>2 DEF IsTotal
  <2> HIDE DEF I
  <2>3. \A k \in 0 .. E : k \in I
    BY <1>1, <2>1, <2>2, RangeInd
  <2> QED
    BY <2>3 DEF I
<1>10. \A k \in 0 .. n - E : g[E + k] = g[E]
  <2> DEFINE I == {k \in 0 .. n - E : g[E + k] = g[E]}
  <2>0. n - E \in Nat
    BY <1>1
  <2>1. 0 \in I
    BY <1>1
  <2>2. ASSUME NEW k \in 1 .. n - E, k - 1 \in I PROVE k \in I
    <3>1. E + k \in 1 .. n /\ (E + k) - 1 = E + (k - 1) /\ E + (k - 1) >= E /\ E + (k - 1) \in Nat
      BY <1>1
    <3>2. E + (k - 1) \notin DOMAIN S
      BY <1>1, <3>1
    <3>3. g[E + k] = g[E + (k - 1)] + 0
      BY <1>8, <3>1, <3>2 DEF IsTotal, SizeAt
    <3>4. g[E] \in Nat
      <4>1. S \in Maps
        BY DEF Placed
      <4> QED
        BY <1>1, <1>8, <4>1, TotalType
    <3>5. g[E + (k - 1)] = g[E]
      BY <2>2
    <3>6. g[E + k] = g[E]
      BY <3>3, <3>4, <3>5
    <3> QED
      BY <3>6
  <2> HIDE DEF I
  <2>3. \A k \in 0 .. n - E : k \in I
    BY <2>0, <2>1, <2>2, RangeInd
  <2> QED
    BY <2>3 DEF I
<1>11. total[E] = g[n]
  <2>1. n - E \in 0 .. n - E /\ E + (n - E) = n /\ E \in 0 .. E
    BY <1>1
  <2> QED
    BY <1>9, <1>10, <2>1
<1> QED
  BY <1>2, <1>8, <1>11

LEMMA TotalNat ==
    ASSUME NEW n \in Nat, NEW S, Placed(S, n)
    PROVE  TotalSize(S) \in Nat
<1>1. PICK g : IsTotal(g, S, n) /\ TotalSize(S) = g[n]
  BY TotalLoop
<1>2. S \in Maps
  BY DEF Placed
<1> QED
  BY <1>1, <1>2, TotalType

\* Where one map holds c bytes more at one index, and the same elsewhere.
LEMMA TotalPlus ==
    ASSUME NEW n \in Nat, NEW S, Placed(S, n), NEW T, Placed(T, n),
           NEW i \in Nat, i < n, NEW c \in Nat, SizeAt(T, i) = SizeAt(S, i) + c,
           \A j \in Nat : j # i => SizeAt(T, j) = SizeAt(S, j)
    PROVE  TotalSize(T) = TotalSize(S) + c
<1>1. PICK f : IsTotal(f, S, n) /\ TotalSize(S) = f[n]
  BY TotalLoop
<1>2. PICK g : IsTotal(g, T, n) /\ TotalSize(T) = g[n]
  BY TotalLoop
<1>3. /\ \A k \in 0 .. n : f[k] \in Nat
      /\ \A k \in Nat : SizeAt(S, k) \in Nat
  <2>1. S \in Maps
    BY DEF Placed
  <2> QED
    BY <1>1, <2>1, TotalType, SizeFacts
<1> DEFINE I == {k \in 0 .. n : g[k] = f[k] + (IF k > i THEN c ELSE 0)}
<1>4. 0 \in I
  BY <1>1, <1>2 DEF IsTotal
<1>5. ASSUME NEW k \in 1 .. n, k - 1 \in I PROVE k \in I
  <2>1. g[k] = g[k - 1] + SizeAt(T, k - 1) /\ f[k] = f[k - 1] + SizeAt(S, k - 1)
    BY <1>1, <1>2 DEF IsTotal
  <2>2. g[k - 1] = f[k - 1] + (IF k - 1 > i THEN c ELSE 0)
    BY <1>5
  <2>3. k - 1 \in 0 .. n /\ k - 1 \in Nat /\ f[k - 1] \in Nat /\ SizeAt(S, k - 1) \in Nat
    BY <1>3
  <2>4. CASE k - 1 = i
    <3>1. SizeAt(T, k - 1) = SizeAt(S, k - 1) + c
      BY <2>4
    <3>2. g[k - 1] = f[k - 1]
      BY <2>2, <2>3, <2>4
    <3>3. g[k] = f[k] + c /\ k > i
      BY <2>1, <2>3, <2>4, <3>1, <3>2
    <3> QED
      BY <3>3
  <2>5. CASE k - 1 # i
    <3>1. SizeAt(T, k - 1) = SizeAt(S, k - 1)
      BY <2>3, <2>5
    <3>2. (k > i) <=> (k - 1 > i)
      BY <2>5
    <3>3. g[k] = f[k] + (IF k > i THEN c ELSE 0)
      BY <2>1, <2>2, <2>3, <3>1, <3>2
    <3> QED
      BY <3>3
  <2> QED
    BY <2>4, <2>5
<1> HIDE DEF I
<1>6. \A k \in 0 .. n : k \in I
  BY <1>4, <1>5, RangeInd
<1>7. g[n] = f[n] + c
  BY <1>6 DEF I
<1> QED
  BY <1>1, <1>2, <1>7

\* Segments that do not overlap and lie between a and b hold at most b - a bytes.
LEMMA TotalWindow ==
    ASSUME NEW n \in Nat, NEW S, Placed(S, n), NEW a \in Nat, NEW b \in Nat, a <= b,
           \A i \in DOMAIN S : a <= i /\ i + Len(S[i]) <= b
    PROVE  TotalSize(S) <= b - a
<1>1. PICK g : IsTotal(g, S, n) /\ TotalSize(S) = g[n]
  BY TotalLoop
<1>2. \A k \in 0 .. n : g[k] \in Nat
  <2>1. S \in Maps
    BY DEF Placed
  <2> QED
    BY <1>1, <2>1, TotalType
<1> DEFINE Below(k, m) == \A i \in DOMAIN S : i < k => i + Len(S[i]) <= m
           I == {k \in 0 .. n : \A m \in Nat : a <= m /\ Below(k, m) => g[k] <= m - a}
<1>3. 0 \in I
  BY <1>1 DEF IsTotal
<1>4. ASSUME NEW k \in 1 .. n, k - 1 \in I PROVE k \in I
  <2> SUFFICES ASSUME NEW m \in Nat, a <= m, Below(k, m) PROVE g[k] <= m - a
    OBVIOUS
  <2>1. g[k] = g[k - 1] + SizeAt(S, k - 1) /\ k - 1 \in Nat /\ g[k - 1] \in Nat
    BY <1>1, <1>2 DEF IsTotal
  <2>2. CASE k - 1 \in DOMAIN S
    <3>1. k - 1 >= a /\ (k - 1) + Len(S[k - 1]) <= m /\ Len(S[k - 1]) \in Nat
      BY <2>2, PlacedFacts
    <3>2. Below(k - 1, k - 1)
      BY <2>2 DEF Placed
    <3>3. g[k - 1] <= (k - 1) - a
      BY <1>4, <2>1, <3>1, <3>2
    <3>4. g[k] = g[k - 1] + Len(S[k - 1])
      BY <2>1, <2>2 DEF SizeAt
    <3> HIDE DEF Below
    <3> QED
      BY <2>1, <3>1, <3>3, <3>4
  <2>3. CASE k - 1 \notin DOMAIN S
    <3>1. Below(k - 1, m)
      <4>1. ASSUME NEW i \in DOMAIN S, i < k - 1 PROVE i + Len(S[i]) <= m
        <5>1. i \in Nat
          BY PlacedFacts
        <5> QED
          BY <4>1, <5>1
      <4> QED
        BY <4>1
    <3>2. g[k - 1] <= m - a
      BY <1>4, <3>1
    <3>3. g[k] = g[k - 1] + 0
      BY <2>1, <2>3 DEF SizeAt
    <3> HIDE DEF Below
    <3> QED
      BY <2>1, <3>2, <3>3
  <2> QED
    BY <2>2, <2>3
<1>5. Below(n, b)
  OBVIOUS
<1> HIDE DEF I
<1>6. \A k \in 0 .. n : k \in I
  BY <1>3, <1>4, RangeInd
<1>7. g[n] <= b - a
  BY <1>5, <1>6 DEF I
<1> QED
  BY <1>1, <1>7

-----------------------------------------------------------------------------
(* Strings in their places                                                 *)

LEMMA FrontPlaced ==
    ASSUME NEW p, NEW i \in Nat, InPlace(p, i), NEW k \in 0 .. Len(p)
    PROVE  InPlace(Prefix(p, k), i) /\ Len(Prefix(p, k)) = k
<1>1. p \in Seq(Nat) /\ \A j \in 1 .. Len(p) : p[j] = i + j - 1
  BY DEF InPlace
<1>2. /\ Prefix(p, k) \in Seq(Nat) /\ Len(Prefix(p, k)) = k
      /\ \A j \in 1 .. k : Prefix(p, k)[j] = p[j]
  BY <1>1, FrontOf DEF Prefix
<1>3. \A j \in 1 .. k : j \in 1 .. Len(p)
  BY <1>1
<1> QED
  BY Zenon, <1>1, <1>2, <1>3 DEF InPlace

LEMMA BackPlaced ==
    ASSUME NEW p, NEW i \in Nat, InPlace(p, i), NEW k \in 0 .. Len(p)
    PROVE  InPlace(Suffix(p, k), i + k) /\ Len(Suffix(p, k)) = Len(p) - k
<1> DEFINE s == Suffix(p, k)
<1>1. p \in Seq(Nat) /\ \A j \in 1 .. Len(p) : p[j] = i + j - 1
  BY DEF InPlace
<1>2. /\ s \in Seq(Nat) /\ Len(s) = Len(p) - k
      /\ \A j \in 1 .. Len(p) - k : s[j] = p[k + j]
  BY <1>1 DEF Suffix
<1> HIDE DEF s
<1>3. ASSUME NEW j \in 1 .. Len(s) PROVE s[j] = (i + k) + j - 1
  <2>1. k + j \in 1 .. Len(p) /\ s[j] = p[k + j]
    BY <1>1, <1>2
  <2>2. p[k + j] = i + (k + j) - 1
    BY <1>1, <2>1
  <2> QED
    BY <2>1, <2>2
<1> QED
  BY <1>2, <1>3 DEF InPlace, s

LEMMA JoinPlaced ==
    ASSUME NEW p, NEW q, NEW i \in Nat, InPlace(p, i), InPlace(q, i + Len(p))
    PROVE  InPlace(p \o q, i) /\ Len(p \o q) = Len(p) + Len(q)
<1> DEFINE L == Len(p)
           k == Len(q)
           x == p \o q
<1>1. /\ p \in Seq(Nat) /\ \A j \in 1 .. L : p[j] = i + j - 1
      /\ q \in Seq(Nat) /\ \A j \in 1 .. k : q[j] = (i + L) + j - 1
      /\ L \in Nat /\ k \in Nat
  BY DEF InPlace
<1>2. /\ x \in Seq(Nat) /\ Len(x) = L + k
      /\ \A j \in 1 .. L : x[j] = p[j]
      /\ \A j \in L + 1 .. L + k : x[j] = q[j - L]
  BY <1>1, JoinOf
<1> HIDE DEF L, k, x
<1>3. ASSUME NEW j \in 1 .. L + k PROVE x[j] = i + j - 1
  <2>1. CASE j <= L
    BY <1>1, <1>2, <2>1
  <2>2. CASE j > L
    <3>1. j \in L + 1 .. L + k /\ j - L \in 1 .. k
      BY <1>1, <2>2
    <3>2. x[j] = (i + L) + (j - L) - 1
      BY <1>1, <1>2, <3>1
    <3> QED
      BY <1>1, <3>2
  <2> QED
    BY <1>1, <2>1, <2>2
<1> QED
  BY <1>2, <1>3 DEF InPlace, L, k, x

-----------------------------------------------------------------------------
(* The loop of insert_segment                                              *)

\* The byte at index x is stored.
Covers(S, x) == \E i \in DOMAIN S : i <= x /\ x < i + Len(S[i])

AccType == [data : Seq(Nat), index : Nat, end : Nat, segments : Maps, stop : BOOLEAN]

\* The loop's data, when some segment of S covered it and it was dropped.
Dropped(acc, k, S) ==
    acc.data = <<>> /\ \E c \in DOMAIN acc.segments :
        c < k /\ c <= acc.index /\ acc.end < c + Len(S[c])

\* The loop's data, joined with every segment it met so far.
Carried(acc, k, S) ==
    /\ acc.data # <<>> /\ InPlace(acc.data, acc.index)
    /\ Len(acc.data) = acc.end - acc.index + 1
    /\ ~acc.stop => \A i \in DOMAIN acc.segments : i < k => i + Len(S[i]) <= acc.index
    /\ acc.stop => \A i \in DOMAIN acc.segments : i + Len(S[i]) <= acc.index \/ acc.end < i

\* The data has grown from i0 .. e0 by segments of S, which have been erased.
Grown(acc, S, i0, e0) ==
    /\ acc.index <= acc.end /\ acc.index <= i0 /\ e0 <= acc.end
    /\ acc.index = i0 \/ acc.index \in DOMAIN S
    /\ \A x \in Nat : acc.index <= x /\ x <= acc.end => Covers(S, x) \/ (i0 <= x /\ x <= e0)
    /\ \A i \in DOMAIN S \ DOMAIN acc.segments :
          acc.index <= i /\ i + Len(S[i]) <= acc.end + 1

\* The invariant of the loop when every key below k has been visited.
Merging(acc, k, S, i0, e0) ==
    /\ acc \in AccType
    /\ Part(acc.segments, S)
    /\ Grown(acc, S, i0, e0)
    /\ Dropped(acc, k, S) \/ Carried(acc, k, S)

LEMMA AccFields ==
    ASSUME NEW acc \in AccType
    PROVE  /\ acc.data \in Seq(Nat) /\ acc.index \in Nat /\ acc.end \in Nat
           /\ acc.segments \in Maps /\ acc.stop \in BOOLEAN
  BY Zenon DEF AccType

With(acc, d, i, e, T) == [acc EXCEPT !.data = d, !.index = i, !.end = e, !.segments = T]

IsWith(u, acc, d, i, e, T) ==
    /\ u \in AccType /\ u.data = d /\ u.index = i /\ u.end = e /\ u.segments = T
    /\ u.stop = acc.stop

LEMMA AccWith ==
    ASSUME NEW acc \in AccType, NEW d \in Seq(Nat), NEW i \in Nat, NEW e \in Nat, NEW T \in Maps
    PROVE  IsWith(With(acc, d, i, e, T), acc, d, i, e, T)
  BY Zenon DEF AccType, With, IsWith

LEMMA AccErase ==
    ASSUME NEW acc \in AccType, NEW T \in Maps
    PROVE  \E u \in AccType :
              /\ u = [acc EXCEPT !.segments = T]
              /\ u.data = acc.data /\ u.index = acc.index /\ u.end = acc.end
              /\ u.segments = T /\ u.stop = acc.stop
<1> DEFINE u == [acc EXCEPT !.segments = T]
<1>1. /\ u \in AccType /\ u.data = acc.data /\ u.index = acc.index /\ u.end = acc.end
      /\ u.segments = T /\ u.stop = acc.stop
  BY Zenon DEF AccType
<1> QED
  BY Zenon, <1>1

LEMMA AccStop ==
    ASSUME NEW acc \in AccType
    PROVE  \E u \in AccType :
              /\ u = [acc EXCEPT !.stop = TRUE]
              /\ u.data = acc.data /\ u.index = acc.index /\ u.end = acc.end
              /\ u.segments = acc.segments /\ u.stop = TRUE
<1> DEFINE u == [acc EXCEPT !.stop = TRUE]
<1>1. /\ u \in AccType /\ u.data = acc.data /\ u.index = acc.index /\ u.end = acc.end
      /\ u.segments = acc.segments /\ u.stop = TRUE
  BY Zenon DEF AccType
<1> QED
  BY Zenon, <1>1

LEMMA AccDrop ==
    ASSUME NEW acc \in AccType
    PROVE  \E u \in AccType :
              /\ u = [acc EXCEPT !.data = <<>>]
              /\ u.data = <<>> /\ u.index = acc.index /\ u.end = acc.end
              /\ u.segments = acc.segments /\ u.stop = acc.stop
<1> DEFINE e == <<>>
           u == [acc EXCEPT !.data = e]
<1>0. e \in Seq(Nat)
  OBVIOUS
<1> HIDE DEF e
<1>1. /\ u \in AccType /\ u.data = e /\ u.index = acc.index /\ u.end = acc.end
      /\ u.segments = acc.segments /\ u.stop = acc.stop
  BY Zenon, <1>0 DEF AccType
<1> QED
  BY Zenon, <1>1 DEF e

\* The data overlaps the segment at k.
Meets(acc, k, S, i0, e0) ==
    /\ acc \in AccType /\ Part(acc.segments, S) /\ Grown(acc, S, i0, e0)
    /\ k \in DOMAIN acc.segments /\ k <= acc.end /\ acc.index < k + Len(S[k])
    /\ i0 \in Nat /\ e0 \in Nat

\* u is acc without the segment at k, of L bytes, and with data that covers it.
Widened(u, acc, k, L) ==
    /\ u \in AccType
    /\ u.segments = Erase(acc.segments, k)
    /\ u.index = IF k < acc.index THEN k ELSE acc.index
    /\ u.end = IF k + L - 1 > acc.end THEN k + L - 1 ELSE acc.end

\* A segment that the data overlaps is erased and the data grows to cover it.
LEMMA GrowBy ==
    ASSUME NEW n, NEW S, Placed(S, n), NEW i0, NEW e0, NEW acc, NEW k, Meets(acc, k, S, i0, e0),
           NEW u, Widened(u, acc, k, Len(S[k]))
    PROVE  Part(u.segments, S) /\ Grown(u, S, i0, e0) /\ DOMAIN u.segments = DOMAIN acc.segments \ {k}
<1> DEFINE a == acc.index
           e == acc.end
           b == u.index
           f == u.end
           L == Len(S[k])
<1>0. /\ acc \in AccType /\ u \in AccType /\ Part(acc.segments, S) /\ Grown(acc, S, i0, e0)
      /\ i0 \in Nat /\ e0 \in Nat /\ k \in DOMAIN acc.segments
  BY DEF Meets, Widened
<1>1. a \in Nat /\ e \in Nat /\ b \in Nat /\ f \in Nat
  BY <1>0, AccFields
<1>2. k \in DOMAIN S
  BY <1>0 DEF Part
<1>3. k \in Nat /\ L \in Nat /\ L > 0
  BY <1>2, PlacedFacts
<1>4. Part(u.segments, S) /\ DOMAIN u.segments = DOMAIN acc.segments \ {k}
  <2>1. /\ Part(Erase(acc.segments, k), S)
        /\ DOMAIN Erase(acc.segments, k) = DOMAIN acc.segments \ {k}
    BY Zenon, <1>0, ErasePart
  <2> QED
    BY Zenon, <2>1 DEF Widened
<1>5. /\ b = IF k < a THEN k ELSE a
      /\ f = IF k + L - 1 > e THEN k + L - 1 ELSE e
      /\ k <= e /\ a < k + L
  BY DEF Widened, Meets
<1>6. /\ a <= e /\ a <= i0 /\ e0 <= e
      /\ a = i0 \/ a \in DOMAIN S
      /\ \A x \in Nat : a <= x /\ x <= e => Covers(S, x) \/ (i0 <= x /\ x <= e0)
      /\ \A i \in DOMAIN S \ DOMAIN acc.segments : a <= i /\ i + Len(S[i]) <= e + 1
  BY <1>0 DEF Grown
<1> HIDE DEF a, e, b, f, L
<1>7. b <= a /\ b <= k /\ e <= f /\ k + L <= f + 1
  BY <1>1, <1>3, <1>5
<1>8. b <= f /\ b <= i0 /\ e0 <= f
  BY <1>0, <1>1, <1>6, <1>7
<1>9. b = i0 \/ b \in DOMAIN S
  BY <1>2, <1>5, <1>6
<1>10. ASSUME NEW x \in Nat, b <= x, x <= f
       PROVE  Covers(S, x) \/ (i0 <= x /\ x <= e0)
  <2>1. CASE a <= x /\ x <= e
    BY <1>6, <2>1
  <2>2. CASE ~(a <= x /\ x <= e)
    <3>1. k <= x /\ x < k + L
      BY <1>1, <1>3, <1>5, <1>10, <2>2
    <3> QED
      BY <1>2, <3>1 DEF Covers, L
  <2> QED
    BY <2>1, <2>2
<1>11. ASSUME NEW i \in DOMAIN S \ DOMAIN u.segments
       PROVE  b <= i /\ i + Len(S[i]) <= f + 1
  <2>1. CASE i = k
    BY <1>7, <2>1 DEF L
  <2>2. CASE i # k
    <3>1. i \in DOMAIN S \ DOMAIN acc.segments
      BY <1>4, <2>2
    <3>2. a <= i /\ i + Len(S[i]) <= e + 1
      BY <1>6, <3>1
    <3>3. i \in Nat /\ Len(S[i]) \in Nat
      BY PlacedFacts
    <3> QED
      BY <1>1, <1>7, <3>2, <3>3
  <2> QED
    BY <2>1, <2>2
<1>12. Grown(u, S, i0, e0)
  BY Zenon, <1>8, <1>9, <1>10, <1>11 DEF Grown, b, f
<1> QED
  BY <1>4, <1>12

\* The turn at a key that the data overlaps.
LEMMA OverlapStep ==
    ASSUME NEW n, NEW S, Placed(S, n), NEW i0 \in Nat, NEW e0 \in Nat, NEW k \in Nat,
           NEW acc, Merging(acc, k, S, i0, e0), ~acc.stop, k \in DOMAIN acc.segments,
           acc.index < k + Len(S[k]), k <= acc.end
    PROVE  Merging(MergeOverlap(acc, k), k + 1, S, i0, e0)
<1> DEFINE L == Len(S[k])
           a == acc.index
           e == acc.end
           d == acc.data
           T == acc.segments
           p == S[k]
<1>1. /\ acc \in AccType /\ Part(T, S) /\ Grown(acc, S, i0, e0)
      /\ Dropped(acc, k, S) \/ Carried(acc, k, S)
  BY DEF Merging
<1>2. d \in Seq(Nat) /\ a \in Nat /\ e \in Nat /\ T \in Maps
  BY <1>1, AccFields
<1>3. k \in DOMAIN S /\ T[k] = p
  BY <1>1 DEF Part
<1>4. L \in Nat /\ L > 0 /\ InPlace(p, k) /\ L = Len(p)
  BY <1>3, PlacedFacts
<1>5. a < k + L /\ k <= e /\ a <= e
  BY <1>1 DEF Grown
<1>6. Carried(acc, k, S)
  <2>1. ASSUME NEW c \in DOMAIN T, c < k, e < c + Len(S[c]) PROVE FALSE
    <3>1. c \in DOMAIN S
      BY <1>1 DEF Part
    <3>2. c \in Nat /\ Len(S[c]) \in Nat /\ c + Len(S[c]) <= k
      BY <1>3, <2>1, <3>1, PlacedFacts
    <3> QED
      BY <1>2, <1>5, <2>1, <3>2
  <2> QED
    BY <1>1, <2>1 DEF Dropped
<1>7. /\ InPlace(d, a) /\ Len(d) = e - a + 1
      /\ \A i \in DOMAIN T : i < k => i + Len(S[i]) <= a
  BY <1>6 DEF Carried
<1>8. Erase(T, k) \in Maps
  BY Zenon, <1>2, EraseFacts
<1>9. ASSUME NEW u \in AccType, u.segments = Erase(T, k), u.stop = FALSE, u.data # <<>>,
             u.index = IF k < a THEN k ELSE a,
             u.end = IF k + L - 1 > e THEN k + L - 1 ELSE e,
             InPlace(u.data, u.index), Len(u.data) = u.end - u.index + 1
      PROVE  Merging(u, k + 1, S, i0, e0)
  <2>0. Meets(acc, k, S, i0, e0) /\ Widened(u, acc, k, Len(S[k]))
    BY <1>1, <1>5, <1>9 DEF Widened, Meets
  <2>1. /\ Part(u.segments, S) /\ Grown(u, S, i0, e0)
        /\ DOMAIN u.segments = DOMAIN T \ {k}
    BY <2>0, GrowBy
  <2>2. ASSUME NEW i \in DOMAIN u.segments, i < k + 1 PROVE i + Len(S[i]) <= u.index
    <3>1. i \in DOMAIN T /\ i # k
      BY <2>1
    <3>2. i \in DOMAIN S
      BY <1>1, <3>1 DEF Part
    <3>3. i \in Nat /\ Len(S[i]) \in Nat
      BY <3>2, PlacedFacts
    <3>4. i < k
      BY <2>2, <3>1, <3>3
    <3>5. i + Len(S[i]) <= a /\ i + Len(S[i]) <= k
      BY <1>3, <1>7, <3>1, <3>2, <3>4, PlacedFacts
    <3> QED
      BY <1>9, <3>5
  <2>3. Carried(u, k + 1, S)
    BY <1>9, <2>2 DEF Carried
  <2> QED
    BY <1>9, <2>1, <2>3 DEF Merging
<1>10. /\ T[k] = p /\ MergeOverlap(acc, k) =
          IF a <= k /\ e >= k + L - 1
          THEN [acc EXCEPT !.segments = Erase(T, k)]
          ELSE IF k <= a /\ k + L - 1 >= e
          THEN [acc EXCEPT !.data = <<>>]
          ELSE IF a < k
          THEN With(acc, d \o Extra(p, (k + L - 1) - e), a,
                    a + Len(d \o Extra(p, (k + L - 1) - e)) - 1, Erase(T, k))
          ELSE With(acc, Prefix(p, a - k) \o d, k, k + Len(Prefix(p, a - k) \o d) - 1,
                    Erase(T, k))
  BY <1>3 DEF MergeOverlap, With
<1> DEFINE m == MergeOverlap(acc, k)
<1> HIDE DEF L, a, e, d, T, p, m
<1>11. CASE a <= k /\ e >= k + L - 1
  <2>1. m = [acc EXCEPT !.segments = Erase(T, k)]
    BY <1>10, <1>11 DEF m
  <2>2. PICK u \in AccType : /\ u = [acc EXCEPT !.segments = Erase(T, k)]
                             /\ u.data = acc.data /\ u.index = acc.index /\ u.end = acc.end
                             /\ u.segments = Erase(T, k) /\ u.stop = acc.stop
    BY Zenon, <1>1, <1>8, AccErase
  <2>3. u.data = d /\ u.index = a /\ u.end = e /\ u.stop = FALSE
    BY <2>2 DEF d, a, e
  <2>4. u.index = (IF k < a THEN k ELSE a) /\ u.end = (IF k + L - 1 > e THEN k + L - 1 ELSE e)
    BY <1>2, <1>4, <1>11, <2>3
  <2>5. d # <<>>
    BY <1>6 DEF Carried, d
  <2>6. Merging(u, k + 1, S, i0, e0)
    BY Zenon, <1>7, <1>9, <2>2, <2>3, <2>4, <2>5
  <2> QED
    BY <2>1, <2>2, <2>6 DEF m
<1>12. CASE ~(a <= k /\ e >= k + L - 1) /\ k <= a /\ k + L - 1 >= e
  <2>1. m = [acc EXCEPT !.data = <<>>]
    BY <1>10, <1>12 DEF m
  <2>2. PICK u \in AccType : /\ u = [acc EXCEPT !.data = <<>>]
                             /\ u.data = <<>> /\ u.index = acc.index /\ u.end = acc.end
                             /\ u.segments = acc.segments /\ u.stop = acc.stop
    BY Zenon, <1>1, AccDrop
  <2>3. k \in DOMAIN u.segments /\ k < k + 1 /\ k <= u.index /\ u.end < k + Len(S[k])
    BY <1>2, <1>4, <1>12, <2>2 DEF a, e, L
  <2>4. Dropped(u, k + 1, S)
    BY <2>2, <2>3 DEF Dropped
  <2>5. Part(u.segments, S) /\ Grown(u, S, i0, e0)
    BY <1>1, <2>2 DEF Grown, T
  <2>6. Merging(u, k + 1, S, i0, e0)
    BY <2>4, <2>5 DEF Merging
  <2> QED
    BY <2>1, <2>2, <2>6 DEF m
<1>13. CASE ~(a <= k /\ e >= k + L - 1) /\ ~(k <= a /\ k + L - 1 >= e) /\ a < k
  <2> DEFINE x == (k + L - 1) - e
             s == Extra(p, x)
             y == d \o s
             z == a + Len(y) - 1
  <2>1. m = With(acc, y, a, z, Erase(T, k))
    BY <1>10, <1>13 DEF m
  <2>2. L - x \in 0 .. L /\ k + (L - x) = e + 1 /\ a + (e - a + 1) = e + 1 /\ k + L - 1 > e
    BY <1>2, <1>4, <1>5, <1>13
  <2>3. s = Suffix(p, L - x)
    BY <1>4 DEF Extra
  <2> HIDE DEF x, s
  <2>4. InPlace(s, e + 1) /\ Len(s) = L - (L - x)
    BY <1>4, <2>2, <2>3, BackPlaced
  <2>5. InPlace(y, a) /\ Len(y) = (e - a + 1) + (L - (L - x))
    BY Zenon, <1>2, <1>7, <2>2, <2>4, JoinPlaced
  <2>6. z = k + L - 1 /\ z \in Nat /\ Len(y) = z - a + 1 /\ Len(y) > 0
    <3>1. Len(y) = (e - a + 1) + x /\ x \in Int
      BY <1>2, <1>4, <2>5 DEF x
    <3> HIDE DEF y
    <3> QED
      BY <1>2, <1>4, <1>5, <3>1 DEF x
  <2>7. y \in Seq(Nat) /\ y # <<>>
    BY <2>5, <2>6 DEF InPlace
  <2> HIDE DEF y, z
  <2>8. /\ m \in AccType /\ m.data = y /\ m.index = a /\ m.end = z /\ m.segments = Erase(T, k)
        /\ m.stop = acc.stop
    <3>1. acc \in AccType /\ y \in Seq(Nat) /\ a \in Nat /\ z \in Nat /\ Erase(T, k) \in Maps
      BY <1>1, <1>2, <1>8, <2>6, <2>7
    <3>2. IsWith(With(acc, y, a, z, Erase(T, k)), acc, y, a, z, Erase(T, k))
      BY <3>1, AccWith
    <3> QED
      BY Zenon, <2>1, <3>2 DEF IsWith
  <2>9. m.index = (IF k < a THEN k ELSE a) /\ m.end = (IF k + L - 1 > e THEN k + L - 1 ELSE e)
    BY <1>2, <1>4, <1>13, <2>2, <2>6, <2>8
  <2>10. m.stop = FALSE /\ m.data # <<>> /\ InPlace(m.data, m.index)
         /\ Len(m.data) = m.end - m.index + 1 /\ m.segments = Erase(T, k)
    BY <2>5, <2>6, <2>7, <2>8
  <2>11. Merging(m, k + 1, S, i0, e0)
    BY Zenon, <1>9, <2>8, <2>9, <2>10
  <2> QED
    BY <2>11 DEF m
<1>14. CASE ~(a <= k /\ e >= k + L - 1) /\ ~(k <= a /\ k + L - 1 >= e) /\ ~(a < k)
  <2> DEFINE x == a - k
             s == Prefix(p, x)
             y == s \o d
             z == k + Len(y) - 1
  <2>1. m = With(acc, y, k, z, Erase(T, k))
    BY <1>10, <1>14 DEF m
  <2>2. x \in 0 .. L /\ k + x = a /\ k < a /\ ~(k + L - 1 > e)
    BY <1>2, <1>4, <1>5, <1>14
  <2> HIDE DEF x
  <2>3. InPlace(s, k) /\ Len(s) = x
    BY <1>4, <2>2, FrontPlaced
  <2> HIDE DEF s
  <2>4. InPlace(y, k) /\ Len(y) = x + (e - a + 1)
    BY Zenon, <1>7, <2>2, <2>3, JoinPlaced
  <2> HIDE DEF y
  <2>5. z = e /\ Len(y) = z - k + 1 /\ Len(y) > 0
    BY <1>2, <1>5, <2>2, <2>4
  <2>6. y \in Seq(Nat) /\ y # <<>>
    BY <2>4, <2>5 DEF InPlace
  <2> HIDE DEF z
  <2>7. /\ m \in AccType /\ m.data = y /\ m.index = k /\ m.end = z /\ m.segments = Erase(T, k)
        /\ m.stop = acc.stop
    <3>1. acc \in AccType /\ y \in Seq(Nat) /\ z \in Nat /\ Erase(T, k) \in Maps
      BY <1>1, <1>2, <1>8, <2>5, <2>6
    <3>2. IsWith(With(acc, y, k, z, Erase(T, k)), acc, y, k, z, Erase(T, k))
      BY <3>1, AccWith
    <3> QED
      BY Zenon, <2>1, <3>2 DEF IsWith
  <2>8. m.index = (IF k < a THEN k ELSE a) /\ m.end = (IF k + L - 1 > e THEN k + L - 1 ELSE e)
    BY <1>2, <1>4, <2>2, <2>5, <2>7
  <2>9. m.stop = FALSE /\ m.data # <<>> /\ InPlace(m.data, m.index)
        /\ Len(m.data) = m.end - m.index + 1 /\ m.segments = Erase(T, k)
    BY <2>4, <2>5, <2>6, <2>7
  <2>10. Merging(m, k + 1, S, i0, e0)
    BY Zenon, <1>9, <2>7, <2>8, <2>9
  <2> QED
    BY <2>10 DEF m
<1> QED
  BY Zenon, <1>11, <1>12, <1>13, <1>14 DEF m

\* The turns that leave the data and the segments as they are.
LEMMA PassStep ==
    ASSUME NEW n, NEW S, Placed(S, n), NEW i0 \in Nat, NEW e0 \in Nat, NEW k \in Nat,
           NEW acc, Merging(acc, k, S, i0, e0),
           \/ acc.stop
           \/ k \notin DOMAIN acc.segments
           \/ k + Len(S[k]) <= acc.index
    PROVE  Merging(acc, k + 1, S, i0, e0)
<1>1. /\ acc \in AccType /\ Part(acc.segments, S) /\ Grown(acc, S, i0, e0)
      /\ Dropped(acc, k, S) \/ Carried(acc, k, S)
  BY DEF Merging
<1>2. \A i \in DOMAIN acc.segments : i \in Nat
  BY <1>1, MapFacts DEF Part
<1>3. CASE Dropped(acc, k, S)
  <2>1. Dropped(acc, k + 1, S)
    BY <1>2, <1>3 DEF Dropped
  <2> QED
    BY <1>1, <2>1 DEF Merging
<1>4. CASE Carried(acc, k, S)
  <2>1. ASSUME ~acc.stop, NEW i \in DOMAIN acc.segments, i < k + 1
        PROVE  i + Len(S[i]) <= acc.index
    <3>1. CASE i = k
      BY <2>1, <3>1
    <3>2. CASE i # k
      <4>1. i < k
        BY <1>2, <2>1, <3>2
      <4> QED
        BY <1>4, <2>1, <4>1 DEF Carried
    <3> QED
      BY <3>1, <3>2
  <2>2. Carried(acc, k + 1, S)
    BY <1>4, <2>1 DEF Carried
  <2> QED
    BY <1>1, <2>2 DEF Merging
<1> QED
  BY <1>1, <1>3, <1>4

\* The turn at the first segment that lies after the data.
LEMMA StopStep ==
    ASSUME NEW n, NEW S, Placed(S, n), NEW i0 \in Nat, NEW e0 \in Nat, NEW k \in Nat,
           NEW acc, Merging(acc, k, S, i0, e0), ~acc.stop, k > acc.end
    PROVE  Merging([acc EXCEPT !.stop = TRUE], k + 1, S, i0, e0)
<1>1. /\ acc \in AccType /\ Part(acc.segments, S) /\ Grown(acc, S, i0, e0)
      /\ Dropped(acc, k, S) \/ Carried(acc, k, S)
  BY DEF Merging
<1>2. PICK u \in AccType : /\ u = [acc EXCEPT !.stop = TRUE]
                           /\ u.data = acc.data /\ u.index = acc.index /\ u.end = acc.end
                           /\ u.segments = acc.segments /\ u.stop = TRUE
  BY Zenon, <1>1, AccStop
<1>3. \A i \in DOMAIN acc.segments : i \in Nat
  BY <1>1, MapFacts DEF Part
<1>4. acc.end \in Nat
  BY <1>1, AccFields
<1>5. Part(u.segments, S) /\ Grown(u, S, i0, e0)
  BY <1>1, <1>2 DEF Grown
<1>6. CASE Dropped(acc, k, S)
  <2>1. Dropped(u, k + 1, S)
    BY <1>2, <1>3, <1>6 DEF Dropped
  <2> QED
    BY <1>2, <1>5, <2>1 DEF Merging
<1>7. CASE Carried(acc, k, S)
  <2>1. ASSUME NEW i \in DOMAIN u.segments
        PROVE  i + Len(S[i]) <= u.index \/ u.end < i
    <3>1. CASE i < k
      BY <1>2, <1>7, <2>1, <3>1 DEF Carried
    <3>2. CASE ~(i < k)
      BY <1>2, <1>3, <1>4, <2>1, <3>2
    <3> QED
      BY <3>1, <3>2
  <2>2. Carried(u, k + 1, S)
    BY <1>2, <1>7, <2>1 DEF Carried
  <2> QED
    BY <1>2, <1>5, <2>2 DEF Merging
<1> QED
  BY <1>1, <1>2, <1>6, <1>7

\* One turn of the loop (stream_reassembler.cc:57-106).
LEMMA MergeTurn ==
    ASSUME NEW n, NEW S, Placed(S, n), NEW i0 \in Nat, NEW e0 \in Nat, NEW k \in Nat,
           NEW acc, Merging(acc, k, S, i0, e0)
    PROVE  Merging(MergeStep(acc, k), k + 1, S, i0, e0)
<1>1. acc \in AccType /\ Part(acc.segments, S)
  BY DEF Merging
<1>2. acc.index \in Nat /\ acc.end \in Nat
  BY <1>1, AccFields
<1>3. CASE acc.stop \/ k \notin DOMAIN acc.segments
  <2>1. MergeStep(acc, k) = acc
    BY <1>3 DEF MergeStep
  <2> QED
    BY <1>3, <2>1, PassStep
<1>4. CASE ~acc.stop /\ k \in DOMAIN acc.segments
  <2>1. k \in DOMAIN S /\ acc.segments[k] = S[k]
    BY <1>1, <1>4 DEF Part
  <2> DEFINE L == Len(S[k])
  <2>2. L \in Nat
    BY <2>1, PlacedFacts
  <2>3. MergeStep(acc, k) = IF k + L - 1 < acc.index THEN acc
                            ELSE IF k > acc.end THEN [acc EXCEPT !.stop = TRUE]
                            ELSE MergeOverlap(acc, k)
    BY <1>4, <2>1 DEF MergeStep
  <2>4. CASE k + L - 1 < acc.index
    <3>1. k + Len(S[k]) <= acc.index
      BY <1>2, <2>2, <2>4
    <3>2. MergeStep(acc, k) = acc
      BY <2>3, <2>4
    <3> QED
      BY <3>1, <3>2, PassStep
  <2>5. CASE ~(k + L - 1 < acc.index) /\ k > acc.end
    <3>1. MergeStep(acc, k) = [acc EXCEPT !.stop = TRUE]
      BY <2>3, <2>5
    <3>2. Merging([acc EXCEPT !.stop = TRUE], k + 1, S, i0, e0)
      BY <1>4, <2>5, StopStep
    <3> QED
      BY <3>1, <3>2
  <2>6. CASE ~(k + L - 1 < acc.index) /\ ~(k > acc.end)
    <3>1. acc.index < k + Len(S[k]) /\ k <= acc.end
      BY <1>2, <2>2, <2>6
    <3>2. MergeStep(acc, k) = MergeOverlap(acc, k)
      BY <2>3, <2>6
    <3>3. Merging(MergeOverlap(acc, k), k + 1, S, i0, e0)
      BY <1>4, <3>1, OverlapStep
    <3> QED
      BY <3>2, <3>3
  <2> QED
    BY <2>4, <2>5, <2>6
<1> QED
  BY <1>3, <1>4

\* The loop as a whole: when it ends every key has been visited.
LEMMA MergeLoop ==
    ASSUME NEW n \in Nat, NEW r, Placed(r.segments, n), NEW i0 \in Nat, NEW data,
           InPlace(data, i0), data # <<>>
    PROVE  \E acc : /\ Merging(acc, End(r.segments), r.segments, i0, i0 + Len(data) - 1)
                    /\ insert_segment(r, data, i0) = AfterMerge(r, acc)
<1> DEFINE S == r.segments
           e0 == i0 + Len(data) - 1
           E == End(S)
           a == [data |-> data, index |-> i0, end |-> e0, segments |-> S, stop |-> FALSE]
           B(K, g) == [k \in 0 .. K |-> IF k = 0 THEN a ELSE MergeStep(g[k - 1], k - 1)]
           Runs == {K \in Nat : \E g : g = B(K, g)}
           merged == CHOOSE g : g = B(E, g)
<1>0. data \in Seq(Nat) /\ Len(data) \in Nat /\ Len(data) > 0
  BY DEF InPlace
<1>1. E \in Nat
  BY EndBound
<1>2. insert_segment(r, data, i0) = AfterMerge(r, merged[E])
  BY DEF insert_segment
<1>3. S \in Maps /\ e0 \in Nat /\ i0 <= e0 /\ Len(data) = e0 - i0 + 1
  BY <1>0 DEF Placed
<1>4. Merging(a, 0, S, i0, e0)
  <2> HIDE DEF S, e0
  <2>1. /\ a \in AccType /\ a.data = data /\ a.index = i0 /\ a.end = e0 /\ a.segments = S
        /\ a.stop = FALSE
    BY Zenon, <1>0, <1>3 DEF AccType
  <2> HIDE DEF a
  <2>2. Part(S, S)
    BY <1>3 DEF Part
  <2>3. Grown(a, S, i0, e0)
    BY <1>3, <2>1 DEF Grown
  <2>4. \A i \in DOMAIN S : ~(i < 0)
    BY <1>3, MapFacts
  <2>5. Carried(a, 0, S)
    BY <1>3, <2>1, <2>4 DEF Carried
  <2> QED
    BY <2>1, <2>2, <2>3, <2>5 DEF Merging
<1> HIDE DEF S, e0, E, a
<1>5. 0 \in Runs
  <2> DEFINE g == [k \in 0 .. 0 |-> a]
  <2>1. g = B(0, g)
    OBVIOUS
  <2> QED
    BY Zenon, <2>1
<1>6. ASSUME NEW K \in Nat, K \in Runs PROVE K + 1 \in Runs
  <2>1. PICK g : g = B(K, g)
    BY <1>6
  <2> DEFINE x == MergeStep(g[K], K)
             h == [k \in 0 .. K + 1 |-> IF k = K + 1 THEN x ELSE g[k]]
  <2>2. ASSUME NEW k \in 0 .. K + 1
        PROVE  h[k] = IF k = 0 THEN a ELSE MergeStep(h[k - 1], k - 1)
    <3>1. CASE k = K + 1
      <4>1. h[k] = x /\ h[k - 1] = g[K] /\ k - 1 = K
        BY <3>1
      <4> QED
        BY <3>1, <4>1
    <3>2. CASE k = 0
      <4>1. h[k] = g[0] /\ g[0] = a
        BY <2>1, <3>2
      <4> QED
        BY <3>2, <4>1
    <3>3. CASE k \in 1 .. K
      <4>1. h[k] = g[k] /\ h[k - 1] = g[k - 1] /\ g[k] = MergeStep(g[k - 1], k - 1)
        BY <2>1, <3>3
      <4> QED
        BY <3>3, <4>1
    <3> QED
      BY <3>1, <3>2, <3>3
  <2>3. h = [k \in 0 .. K + 1 |-> h[k]]
    OBVIOUS
  <2> HIDE DEF h
  <2>4. h = B(K + 1, h)
    BY Zenon, <2>2, <2>3
  <2> QED
    BY <2>4
<1>7. \A K \in Nat : K \in Runs
  <2> HIDE DEF Runs
  <2> QED
    BY <1>5, <1>6, NatInd
<1>8. merged = B(E, merged)
  <2>1. \E g : g = B(E, g)
    BY Zenon, <1>1, <1>7
  <2> QED
    BY Zenon, <2>1
<1>9. merged[0] = a /\ \A k \in 1 .. E : merged[k] = MergeStep(merged[k - 1], k - 1)
  <2> HIDE DEF merged
  <2> QED
    BY <1>1, <1>8
<1> HIDE DEF merged, Runs, B
<1> DEFINE I == {k \in 0 .. E : Merging(merged[k], k, S, i0, e0)}
<1>10. 0 \in I
  BY <1>1, <1>4, <1>9
<1>11. ASSUME NEW k \in 1 .. E, k - 1 \in I PROVE k \in I
  <2>1. Placed(S, n) /\ e0 \in Nat /\ k - 1 \in Nat /\ Merging(merged[k - 1], k - 1, S, i0, e0)
    BY <1>3, <1>11 DEF S
  <2>2. Merging(MergeStep(merged[k - 1], k - 1), (k - 1) + 1, S, i0, e0)
    BY <2>1, MergeTurn
  <2>3. (k - 1) + 1 = k /\ merged[k] = MergeStep(merged[k - 1], k - 1)
    BY <1>9
  <2> QED
    BY <2>2, <2>3
<1> HIDE DEF I
<1>12. \A k \in 0 .. E : k \in I
  BY <1>1, <1>10, <1>11, RangeInd
<1>13. Merging(merged[E], E, S, i0, e0)
  BY <1>1, <1>12 DEF I
<1> QED
  BY <1>2, <1>13 DEF S, E, e0

-----------------------------------------------------------------------------
(* What insert_segment leaves                                              *)

\* The data that is left after the loop overlaps no stored segment, or one of
\* them covers it and it was dropped.
Apart(acc, S) == \A i \in DOMAIN acc.segments : i + Len(S[i]) <= acc.index \/ acc.end < i

Left(acc, S, n, i0, e0) ==
    /\ acc \in AccType /\ Part(acc.segments, S) /\ Grown(acc, S, i0, e0) /\ acc.end < n
    /\ acc.data # <<>> /\ InPlace(acc.data, acc.index)
    /\ Len(acc.data) = acc.end - acc.index + 1
    /\ Apart(acc, S)

LEMMA MergeEnd ==
    ASSUME NEW n \in Nat, NEW S, Placed(S, n), NEW i0 \in Nat, NEW e0 \in Nat, e0 < n,
           NEW acc, Merging(acc, End(S), S, i0, e0)
    PROVE  /\ acc \in AccType /\ Part(acc.segments, S) /\ Grown(acc, S, i0, e0) /\ acc.end < n
           /\ Dropped(acc, End(S), S) \/ Left(acc, S, n, i0, e0)
<1>1. /\ acc \in AccType /\ Part(acc.segments, S) /\ Grown(acc, S, i0, e0)
      /\ Dropped(acc, End(S), S) \/ Carried(acc, End(S), S)
  BY DEF Merging
<1>2. acc.index \in Nat /\ acc.end \in Nat
  BY <1>1, AccFields
<1>3. acc.end < n
  <2>1. Covers(S, acc.end) \/ acc.end <= e0
    BY <1>1, <1>2 DEF Grown
  <2>2. CASE Covers(S, acc.end)
    <3>1. PICK i \in DOMAIN S : acc.end < i + Len(S[i])
      BY <2>2 DEF Covers
    <3>2. i \in Nat /\ Len(S[i]) \in Nat /\ i + Len(S[i]) <= n
      BY PlacedFacts
    <3> QED
      BY <1>2, <3>1, <3>2
  <2> QED
    BY <1>2, <2>1, <2>2
<1>4. \A i \in DOMAIN acc.segments : i < End(S)
  BY <1>1, EndBound DEF Part
<1>5. Carried(acc, End(S), S) => Apart(acc, S)
  BY <1>4 DEF Carried, Apart
<1> QED
  BY <1>1, <1>3, <1>5 DEF Carried, Left

LEMMA TotalMono ==
    ASSUME NEW n \in Nat, NEW S, Placed(S, n), NEW T, Placed(T, n),
           \A j \in Nat : SizeAt(T, j) <= SizeAt(S, j)
    PROVE  TotalSize(T) <= TotalSize(S)
<1>1. PICK f : IsTotal(f, S, n) /\ TotalSize(S) = f[n]
  BY TotalLoop
<1>2. PICK g : IsTotal(g, T, n) /\ TotalSize(T) = g[n]
  BY TotalLoop
<1>3. /\ \A k \in 0 .. n : f[k] \in Nat /\ g[k] \in Nat
      /\ \A k \in Nat : SizeAt(S, k) \in Nat /\ SizeAt(T, k) \in Nat
  <2>1. S \in Maps /\ T \in Maps
    BY DEF Placed
  <2> QED
    BY <1>1, <1>2, <2>1, TotalType, SizeFacts
<1> DEFINE I == {k \in 0 .. n : g[k] <= f[k]}
<1>4. 0 \in I
  BY <1>1, <1>2 DEF IsTotal
<1>5. ASSUME NEW k \in 1 .. n, k - 1 \in I PROVE k \in I
  <2>1. g[k] = g[k - 1] + SizeAt(T, k - 1) /\ f[k] = f[k - 1] + SizeAt(S, k - 1)
    BY <1>1, <1>2 DEF IsTotal
  <2>2. g[k - 1] <= f[k - 1]
    BY <1>5
  <2>3. /\ k - 1 \in 0 .. n /\ k - 1 \in Nat /\ f[k - 1] \in Nat /\ SizeAt(S, k - 1) \in Nat
        /\ g[k - 1] \in Nat /\ SizeAt(T, k - 1) \in Nat /\ SizeAt(T, k - 1) <= SizeAt(S, k - 1)
    BY <1>3
  <2>4. g[k] <= f[k]
    BY <2>1, <2>2, <2>3
  <2> QED
    BY <2>4
<1> HIDE DEF I
<1>6. \A k \in 0 .. n : k \in I
  BY <1>4, <1>5, RangeInd
<1>7. g[n] <= f[n]
  BY <1>6 DEF I
<1> QED
  BY <1>1, <1>2, <1>7

LEMMA TotalPart ==
    ASSUME NEW n \in Nat, NEW S, Placed(S, n), NEW T, Part(T, S)
    PROVE  TotalSize(T) <= TotalSize(S)
<1>1. Placed(T, n) /\ S \in Maps /\ T \in Maps
  BY PartPlaced DEF Placed, Part
<1>2. ASSUME NEW j \in Nat PROVE SizeAt(T, j) <= SizeAt(S, j)
  <2>1. CASE j \in DOMAIN T
    <3>1. SizeAt(T, j) = SizeAt(S, j)
      BY <2>1 DEF SizeAt, Part
    <3> QED
      BY <1>1, <3>1, SizeFacts
  <2>2. CASE j \notin DOMAIN T
    <3>1. SizeAt(T, j) = 0 /\ SizeAt(S, j) \in Nat
      BY <1>1, <2>2, SizeFacts DEF SizeAt
    <3> QED
      BY <3>1
  <2> QED
    BY <2>1, <2>2
<1> QED
  BY <1>1, <1>2, TotalMono

\* A string stored at a new key.
LEMMA TotalInsert ==
    ASSUME NEW n \in Nat, NEW S, Placed(S, n), NEW i \in Nat, i < n, i \notin DOMAIN S,
           NEW data \in Seq(Nat), Placed(Insert(S, i, data), n)
    PROVE  TotalSize(Insert(S, i, data)) = TotalSize(S) + Len(data)
<1> DEFINE T == Insert(S, i, data)
<1>1. S \in Maps
  BY DEF Placed
<1>i. IsInsert(T, S, i, data)
  BY <1>1, InsertFacts
<1> HIDE DEF T
<1>2. DOMAIN T = DOMAIN S \cup {i} /\ T[i] = data /\ \A j \in DOMAIN S : T[j] = S[j]
  BY <1>i DEF IsInsert
<1>3. SizeAt(T, i) = Len(data) /\ SizeAt(S, i) = 0 /\ Len(data) \in Nat
  BY <1>2 DEF SizeAt
<1>4. \A j \in Nat : j # i => SizeAt(T, j) = SizeAt(S, j)
  BY <1>2 DEF SizeAt
<1>5. Placed(T, n)
  BY DEF T
<1>6. SizeAt(T, i) = SizeAt(S, i) + Len(data)
  BY <1>3
<1> HIDE DEF Placed
<1> QED
  BY <1>3, <1>4, <1>5, <1>6, TotalPlus DEF T

-----------------------------------------------------------------------------
(* The reassembler                                                         *)

RType == [output : StreamType(Nat, Nat), capacity : Nat, first_unassembled : Nat,
          segments : Maps, eof_index : Nat]

\* What every method keeps, for a stream of n bytes.
Shape(r, n) ==
    /\ r \in RType
    /\ r.output.capacity = r.capacity
    /\ Holds(r.output)
    /\ r.first_unassembled = r.output.bytes_written
    /\ r.first_unassembled <= n
    /\ n + r.capacity < SIZE_MOD
    /\ Placed(r.segments, n)
    /\ Len(r.output.buffer) + TotalSize(r.segments) <= r.capacity

\* The first index that is not acceptable, and what fits in the memory left.
RightEdge(r) == r.output.bytes_read + r.capacity
Room(r) == r.capacity - Len(r.output.buffer) - TotalSize(r.segments)

LEMMA RFields ==
    ASSUME NEW r \in RType
    PROVE  /\ r.output \in StreamType(Nat, Nat) /\ r.capacity \in Nat
           /\ r.first_unassembled \in Nat /\ r.segments \in Maps /\ r.eof_index \in Nat
  BY Zenon DEF RType

LEMMA StreamFields ==
    ASSUME NEW b \in StreamType(Nat, Nat)
    PROVE  /\ b.capacity \in Nat /\ b.buffer \in Seq(Nat) /\ b.bytes_written \in Nat
           /\ b.bytes_read \in Nat /\ b.input_ended \in BOOLEAN /\ b.error \in BOOLEAN
  BY Zenon DEF StreamType

LEMMA ShapeFacts ==
    ASSUME NEW n \in Nat, NEW r, Shape(r, n)
    PROVE  /\ r.capacity \in Nat /\ r.first_unassembled \in Nat /\ r.output.bytes_read \in Nat
           /\ Len(r.output.buffer) \in Nat /\ TotalSize(r.segments) \in Nat
           /\ r.first_unassembled = r.output.bytes_read + Len(r.output.buffer)
           /\ Len(r.output.buffer) + TotalSize(r.segments) <= r.capacity
           /\ r.first_unassembled <= n /\ n + r.capacity < SIZE_MOD
           /\ RightEdge(r) \in Nat /\ r.first_unassembled <= RightEdge(r) /\ RightEdge(r) < SIZE_MOD
           /\ Room(r) \in Nat /\ Room(r) <= RightEdge(r) - r.first_unassembled
           /\ Room(r) = RightEdge(r) - r.first_unassembled - TotalSize(r.segments)
<1>1. r.output \in StreamType(Nat, Nat) /\ r.capacity \in Nat /\ r.first_unassembled \in Nat
  BY RFields DEF Shape
<1>2. r.output.bytes_read \in Nat /\ Len(r.output.buffer) \in Nat
  BY <1>1, StreamFields
<1>3. TotalSize(r.segments) \in Nat
  BY TotalNat DEF Shape
<1>4. /\ r.first_unassembled = r.output.bytes_read + Len(r.output.buffer)
      /\ Len(r.output.buffer) + TotalSize(r.segments) <= r.capacity
      /\ r.first_unassembled <= n /\ n + r.capacity < SIZE_MOD
  BY DEF Shape, Holds
<1> DEFINE b == r.output.bytes_read
           L == Len(r.output.buffer)
           T == TotalSize(r.segments)
           f == r.first_unassembled
           c == r.capacity
<1>5. RightEdge(r) = b + c /\ Room(r) = c - L - T
  BY DEF RightEdge, Room
<1>6. b \in Nat /\ L \in Nat /\ T \in Nat /\ f \in Nat /\ c \in Nat /\ f = b + L /\ L + T <= c
      /\ f <= n /\ n + c < SIZE_MOD /\ SIZE_MOD \in Nat
  BY <1>1, <1>2, <1>3, <1>4, SizeModAssumption
<1> HIDE DEF b, L, T, f, c
<1>7. /\ RightEdge(r) \in Nat /\ f <= RightEdge(r) /\ RightEdge(r) < SIZE_MOD
      /\ Room(r) \in Nat /\ Room(r) <= RightEdge(r) - f /\ Room(r) = RightEdge(r) - f - T
  BY <1>5, <1>6
<1> QED
  BY <1>6, <1>7 DEF b, L, T, f, c

LEMMA SizeMinusFacts ==
    ASSUME NEW a \in Nat, NEW b \in Nat
    PROVE  /\ SizeMinus(a, b) \in Nat
           /\ b <= a /\ a < SIZE_MOD => SizeMinus(a, b) = a - b
<1>1. SIZE_MOD \in Nat \ {0}
  BY SizeModAssumption
<1>2. (a - b) % SIZE_MOD \in 0 .. (SIZE_MOD - 1)
  BY <1>1, DivMod
<1>3. ASSUME b <= a, a < SIZE_MOD PROVE (a - b) % SIZE_MOD = a - b
  <2>1. a - b \in 0 .. (SIZE_MOD - 1) /\ a - b = 0 * SIZE_MOD + (a - b)
    BY <1>1, <1>3
  <2> QED
    BY <1>1, <2>1, ModUnique
<1> QED
  BY <1>1, <1>2, <1>3 DEF SizeMinus

\* truncate_data (stream_reassembler.cc:134-140) keeps a prefix that fits in the
\* memory left, and inside the window if the data starts there; it cuts no more
\* than it has to.
LEMMA TruncateFacts ==
    ASSUME NEW n \in Nat, NEW r, Shape(r, n), NEW data \in Seq(Nat), NEW index \in Nat
    PROVE  \E m \in 0 .. Len(data) :
              /\ truncate_data(r, data, index) = Prefix(data, m)
              /\ m <= Room(r)
              /\ index <= RightEdge(r) => /\ index + m <= RightEdge(r)
                                          /\ m = Len(data) \/ index + m = RightEdge(r) \/ m = Room(r)
<1> DEFINE s == SizeMinus(RightEdge(r), index)
           a == SizeMinus(r.capacity - Len(r.output.buffer), TotalSize(r.segments))
           m == MinOf(MinOf(Len(data), s), a)
           R == Room(r)
           E == RightEdge(r)
           L == Len(data)
<1>1. truncate_data(r, data, index) = Prefix(data, m)
  BY DEF truncate_data, RightEdge, unassembled_bytes, buffer_size
<1>2. R \in Nat /\ E \in Nat /\ E < SIZE_MOD /\ L \in Nat
  BY ShapeFacts
<1>3. a = R
  <2> DEFINE u == r.capacity - Len(r.output.buffer)
             t == TotalSize(r.segments)
             c == r.capacity
             b == Len(r.output.buffer)
  <2>0. u = c - b /\ c \in Nat /\ b \in Nat /\ t \in Nat /\ b + t <= c /\ n + c < SIZE_MOD
        /\ R = c - b - t /\ SIZE_MOD \in Nat
    BY ShapeFacts, SizeModAssumption DEF Room
  <2> HIDE DEF u, t, R, c, b
  <2>1. u \in Nat /\ t \in Nat /\ t <= u /\ u < SIZE_MOD /\ u - t = R
    BY <2>0
  <2>2. SizeMinus(u, t) = u - t
    BY <2>1, SizeMinusFacts
  <2> QED
    BY <2>1, <2>2 DEF u, t
<1>4. s \in Nat /\ (index <= E => s = E - index)
  BY Zenon, <1>2, SizeMinusFacts
<1> HIDE DEF s, a, R, E, L
<1>5. m = MinOf(MinOf(L, s), R)
  BY <1>3 DEF L
<1> HIDE DEF m
<1>6. /\ m \in 0 .. L /\ m <= R
      /\ index <= E => index + m <= E /\ (m = L \/ index + m = E \/ m = R)
  BY <1>2, <1>4, <1>5 DEF MinOf
<1> QED
  BY <1>1, <1>6 DEF L, R, E

\* A string in its place, clear of the stored segments, is stored at a new key.
Clear(T, i, p, n) ==
    /\ InPlace(p, i) /\ Len(p) > 0 /\ i + Len(p) <= n
    /\ \A j \in DOMAIN T : j + Len(T[j]) <= i \/ i + Len(p) <= j

LEMMA StoreFits ==
    ASSUME NEW n \in Nat, NEW T, Placed(T, n), NEW i \in Nat, NEW p, Clear(T, i, p, n)
    PROVE  /\ Placed(Insert(T, i, p), n) /\ IsInsert(Insert(T, i, p), T, i, p)
           /\ TotalSize(Insert(T, i, p)) = TotalSize(T) + Len(p)
<1> DEFINE U == Insert(T, i, p)
<1>0. /\ InPlace(p, i) /\ Len(p) > 0 /\ i + Len(p) <= n
      /\ \A j \in DOMAIN T : j + Len(T[j]) <= i \/ i + Len(p) <= j
  BY DEF Clear
<1>1. p \in Seq(Nat) /\ Len(p) \in Nat /\ T \in Maps
  BY <1>0 DEF InPlace, Placed
<1>2. \A j \in DOMAIN T : j \in Nat /\ Len(T[j]) \in Nat /\ Len(T[j]) > 0
  BY PlacedFacts
<1>3. i \notin DOMAIN T
  BY <1>0, <1>1, <1>2
<1>4. IsInsert(U, T, i, p)
  BY Zenon, <1>1, <1>3, InsertFacts
<1> HIDE DEF U
<1>x. /\ U \in Maps /\ DOMAIN U = DOMAIN T \cup {i} /\ U[i] = p
      /\ \A j \in DOMAIN T : U[j] = T[j]
  BY <1>4 DEF IsInsert
<1>5. ASSUME NEW j \in DOMAIN U
      PROVE  InPlace(U[j], j) /\ Len(U[j]) > 0 /\ j + Len(U[j]) <= n
  BY <1>0, <1>x DEF Placed
<1>6. ASSUME NEW j \in DOMAIN U, NEW k \in DOMAIN U, j < k
      PROVE  j + Len(U[j]) <= k
  <2>1. CASE j \in DOMAIN T /\ k \in DOMAIN T
    BY <1>x, <1>6, <2>1 DEF Placed
  <2>2. CASE j = i /\ k \in DOMAIN T
    BY <1>0, <1>1, <1>2, <1>x, <1>6, <2>2
  <2>3. CASE j \in DOMAIN T /\ k = i
    BY <1>0, <1>1, <1>2, <1>x, <1>6, <2>3
  <2>4. CASE j = i /\ k = i
    BY <1>6, <2>4
  <2> QED
    BY <1>x, <2>1, <2>2, <2>3, <2>4
<1>7. Placed(U, n)
  BY Zenon, <1>x, <1>5, <1>6 DEF Placed
<1>8. i < n
  BY <1>0, <1>1
<1>9. TotalSize(U) = TotalSize(T) + Len(p)
  BY <1>1, <1>3, <1>7, <1>8, TotalInsert DEF U
<1> QED
  BY <1>4, <1>7, <1>9 DEF U

\* The segments lie between a and b.
InWindow(S, a, b) == \A i \in DOMAIN S : a <= i /\ i + Len(S[i]) <= b

\* Every byte that is stored in S is stored in U.
NoLoss(S, U) == \A x \in Nat : Covers(S, x) => Covers(U, x)

\* The map that insert_segment leaves.  If all segments lie in the window f .. E,
\* and the data i0 .. e0 starts in it, no byte is lost but those of the data that
\* lie past the window.
Stores(U, S, i0, e0, f, E) ==
    /\ DOMAIN U \subseteq DOMAIN S \cup {i0}
    /\ InWindow(S, f, E) /\ f <= i0 /\ i0 <= E =>
          /\ InWindow(U, f, E)
          /\ NoLoss(S, U)
          /\ \A x \in Nat : i0 <= x /\ x <= e0 /\ x < E => Covers(U, x)

\* The segments that stay and the data that is left make up all there was.
LEMMA MergedCovers ==
    ASSUME NEW n \in Nat, NEW S, Placed(S, n), NEW i0 \in Nat, NEW e0 \in Nat,
           NEW acc \in AccType, Part(acc.segments, S), Grown(acc, S, i0, e0), NEW x \in Nat,
           Covers(S, x) \/ (i0 <= x /\ x <= e0)
    PROVE  Covers(acc.segments, x) \/ (acc.index <= x /\ x <= acc.end)
<1>1. acc.index \in Nat /\ acc.end \in Nat
  BY AccFields
<1>2. CASE i0 <= x /\ x <= e0
  BY <1>1, <1>2 DEF Grown
<1>3. CASE Covers(S, x)
  <2>1. PICK i \in DOMAIN S : i <= x /\ x < i + Len(S[i])
    BY <1>3 DEF Covers
  <2>2. CASE i \in DOMAIN acc.segments
    BY <2>1, <2>2 DEF Covers, Part
  <2>3. CASE i \notin DOMAIN acc.segments
    <3>1. acc.index <= i /\ i + Len(S[i]) <= acc.end + 1
      BY <2>3 DEF Grown
    <3>2. i \in Nat /\ Len(S[i]) \in Nat
      BY PlacedFacts
    <3> QED
      BY <1>1, <2>1, <3>1, <3>2
  <2> QED
    BY <2>2, <2>3
<1> QED
  BY <1>2, <1>3

LEMMA PartWindow ==
    ASSUME NEW S, NEW T, Part(T, S), NEW f, NEW E, InWindow(S, f, E)
    PROVE  InWindow(T, f, E)
  BY Zenon DEF Part, InWindow

\* The data was dropped: nothing is stored.
LEMMA DropStores ==
    ASSUME NEW n \in Nat, NEW S, Placed(S, n), NEW i0 \in Nat, NEW e0 \in Nat, NEW k,
           NEW acc \in AccType, Part(acc.segments, S), Grown(acc, S, i0, e0), Dropped(acc, k, S),
           NEW f \in Nat, NEW E \in Nat
    PROVE  Stores(acc.segments, S, i0, e0, f, E)
<1> DEFINE T == acc.segments
<1>1. acc.index \in Nat /\ acc.end \in Nat
  BY AccFields
<1>2. PICK c \in DOMAIN T : c <= acc.index /\ acc.end < c + Len(S[c])
  BY DEF Dropped
<1>3. c \in DOMAIN S /\ T[c] = S[c] /\ c \in Nat /\ Len(S[c]) \in Nat
  BY PlacedFacts DEF Part
<1>4. ASSUME NEW x \in Nat, Covers(S, x) \/ (i0 <= x /\ x <= e0) PROVE Covers(T, x)
  <2>1. Covers(T, x) \/ (acc.index <= x /\ x <= acc.end)
    BY <1>4, MergedCovers
  <2>2. CASE acc.index <= x /\ x <= acc.end
    <3>1. c <= x /\ x < c + Len(T[c])
      BY <1>1, <1>2, <1>3, <2>2
    <3> QED
      BY <3>1 DEF Covers
  <2> QED
    BY <2>1, <2>2
<1>5. InWindow(S, f, E) => InWindow(T, f, E)
  BY PartWindow
<1>6. NoLoss(S, T) /\ \A x \in Nat : i0 <= x /\ x <= e0 /\ x < E => Covers(T, x)
  BY <1>4 DEF NoLoss
<1>7. DOMAIN T \subseteq DOMAIN S \cup {i0}
  BY DEF Part
<1> QED
  BY <1>5, <1>6, <1>7 DEF Stores

\* A prefix of the data that is left can be stored.
\* U is the map of acc and the first m bytes of its data.
Keeps(U, acc, m, n) ==
    /\ Placed(U, n) /\ TotalSize(U) = TotalSize(acc.segments) + m
    /\ \A j \in DOMAIN acc.segments : j \in DOMAIN U /\ U[j] = acc.segments[j]
    /\ m > 0 => acc.index \in DOMAIN U /\ Len(U[acc.index]) = m
    /\ \A j \in DOMAIN U : j \in DOMAIN acc.segments \/ (m > 0 /\ j = acc.index)

LEMMA LeftFits ==
    ASSUME NEW n \in Nat, NEW S, Placed(S, n), NEW i0 \in Nat, NEW e0 \in Nat,
           NEW acc, Left(acc, S, n, i0, e0), NEW m \in 1 .. Len(acc.data)
    PROVE  Keeps(Insert(acc.segments, acc.index, Prefix(acc.data, m)), acc, m, n)
<1> DEFINE T == acc.segments
           i == acc.index
           e == acc.end
           p == Prefix(acc.data, m)
           U == Insert(T, i, p)
<1>1. /\ acc \in AccType /\ Part(T, S) /\ e < n
      /\ InPlace(acc.data, i) /\ Len(acc.data) = e - i + 1
      /\ \A j \in DOMAIN T : j + Len(S[j]) <= i \/ e < j
  BY DEF Left, Apart
<1>2. i \in Nat /\ e \in Nat
  BY <1>1, AccFields
<1>3. m \in 0 .. Len(acc.data) /\ m \in Nat /\ m > 0 /\ i + m <= e + 1
  BY <1>1, <1>2
<1>4. InPlace(p, i) /\ Len(p) = m
  BY <1>1, <1>2, <1>3, FrontPlaced
<1>5. Placed(T, n)
  BY <1>1, PartPlaced
<1>6. ASSUME NEW j \in DOMAIN T PROVE j + Len(T[j]) <= i \/ i + Len(p) <= j
  <2>1. T[j] = S[j] /\ j \in Nat
    BY <1>1, <1>5, PlacedFacts DEF Part
  <2>2. j + Len(T[j]) <= i \/ e < j
    BY <1>1, <2>1
  <2> HIDE DEF T, i, e, p
  <2> QED
    BY <1>2, <1>3, <1>4, <2>1, <2>2
<1>7. Len(p) > 0 /\ i + Len(p) <= n
  <2> HIDE DEF T, i, e, p
  <2> QED
    BY <1>1, <1>2, <1>3, <1>4
<1> HIDE DEF T, i, e, p
<1>8. Clear(T, i, p, n)
  BY Zenon, <1>4, <1>6, <1>7 DEF Clear
<1>9. /\ Placed(U, n) /\ IsInsert(U, T, i, p) /\ TotalSize(U) = TotalSize(T) + Len(p)
  BY <1>2, <1>5, <1>8, StoreFits
<1> HIDE DEF U
<1>10. /\ DOMAIN U = DOMAIN T \cup {i} /\ U[i] = p /\ Len(U[i]) = m
       /\ \A j \in DOMAIN T : U[j] = T[j]
  BY <1>4, <1>9 DEF IsInsert
<1>11. Keeps(U, acc, m, n)
  BY <1>3, <1>4, <1>9, <1>10 DEF T, i, Keeps
<1> QED
  BY <1>11 DEF T, i, p, U

\* The data that is left starts in the window.
LEMMA LeftStart ==
    ASSUME NEW n \in Nat, NEW S, Placed(S, n), NEW i0 \in Nat, NEW e0 \in Nat,
           NEW acc, Left(acc, S, n, i0, e0), NEW f \in Nat, NEW E \in Nat,
           InWindow(S, f, E), f <= i0, i0 <= E
    PROVE  acc.index \in Nat /\ acc.end \in Nat /\ f <= acc.index /\ acc.index <= E
<1>1. acc \in AccType /\ (acc.index = i0 \/ acc.index \in DOMAIN S)
  BY DEF Left, Grown
<1>2. acc.index \in Nat /\ acc.end \in Nat
  BY <1>1, AccFields
<1>3. CASE acc.index \in DOMAIN S
  <2> DEFINE i == acc.index
  <2>1. i \in Nat /\ Len(S[i]) \in Nat /\ f <= i /\ i + Len(S[i]) <= E
    BY <1>3, PlacedFacts DEF InWindow
  <2> QED
    BY <1>2, <2>1
<1> QED
  BY <1>1, <1>2, <1>3

\* In the window there is always memory for what lies before its end.
LEMMA LeftRoom ==
    ASSUME NEW n \in Nat, NEW S, Placed(S, n), NEW i0 \in Nat, NEW e0 \in Nat,
           NEW acc, Left(acc, S, n, i0, e0), NEW f \in Nat, NEW E \in Nat,
           InWindow(S, f, E), f <= i0, i0 <= E, NEW m \in 1 .. Len(acc.data)
    PROVE  acc.index + m <= E => TotalSize(acc.segments) + m <= E - f
<1> DEFINE T == acc.segments
           i == acc.index
           U == Insert(T, i, Prefix(acc.data, m))
<1>1. Part(T, S)
  BY DEF Left
<1>2. i \in Nat /\ f <= i /\ i <= E
  BY LeftStart
<1>3. Keeps(U, acc, m, n)
  BY LeftFits
<1> HIDE DEF U
<1>4. /\ Placed(U, n) /\ \A j \in DOMAIN U : j \in DOMAIN T \/ j = i
      /\ i \in DOMAIN U /\ Len(U[i]) = m
      /\ \A j \in DOMAIN T : U[j] = T[j]
      /\ TotalSize(U) = TotalSize(T) + m
  BY <1>3 DEF Keeps
<1>5. InWindow(T, f, E)
  BY <1>1, PartWindow
<1> SUFFICES ASSUME i + m <= E PROVE TotalSize(T) + m <= E - f
  OBVIOUS
<1>6. \A j \in DOMAIN U : f <= j /\ j + Len(U[j]) <= E
  <2>1. f <= i /\ i + Len(U[i]) <= E
    BY <1>2, <1>4
  <2>2. \A j \in DOMAIN T : f <= j /\ j + Len(U[j]) <= E
    BY <1>4, <1>5 DEF InWindow
  <2> QED
    BY <1>4, <2>1, <2>2
<1>7. f <= E
  BY <1>2
<1>8. TotalSize(U) <= E - f
  BY <1>4, <1>6, <1>7, TotalWindow
<1> QED
  BY <1>4, <1>8

\* The first m bytes of the data are kept, as many as the window and the memory
\* left allow.
Cut(acc, m, f, E) ==
    acc.index <= E => /\ acc.index + m <= E
                      /\ \/ m = Len(acc.data) \/ acc.index + m = E
                         \/ m = E - f - TotalSize(acc.segments)

IsStored(U, acc, m) ==
    \/ m = 0 /\ U = acc.segments
    \/ m > 0 /\ U = Insert(acc.segments, acc.index, Prefix(acc.data, m))

LEMMA LeftCut ==
    ASSUME NEW n \in Nat, NEW S, Placed(S, n), NEW i0 \in Nat, NEW e0 \in Nat,
           NEW acc, Left(acc, S, n, i0, e0), NEW f \in Nat, NEW E \in Nat,
           InWindow(S, f, E), f <= i0, i0 <= E, NEW m \in 0 .. Len(acc.data), Cut(acc, m, f, E)
    PROVE  acc.index + m <= E /\ (m = Len(acc.data) \/ acc.index + m = E)
<1> DEFINE i == acc.index
           L == Len(acc.data)
           t == TotalSize(acc.segments)
<1>1. i \in Nat /\ i <= E
  BY LeftStart
<1>2. L \in Nat
  BY AccFields DEF Left
<1>3. t \in Nat
  <2>1. Part(acc.segments, S)
    BY DEF Left
  <2> QED
    BY <2>1, PartPlaced, TotalNat
<1>4. i + m <= E /\ (m = L \/ i + m = E \/ m = E - f - t)
  BY <1>1 DEF Cut
<1>5. m + 1 \in 1 .. L /\ i + (m + 1) <= E => t + (m + 1) <= E - f
  BY LeftRoom
<1>6. m \in 0 .. L
  OBVIOUS
<1> HIDE DEF i, L, t
<1>7. i + m <= E /\ (m = L \/ i + m = E)
  BY <1>1, <1>2, <1>3, <1>4, <1>5, <1>6
<1> QED
  BY <1>7 DEF i, L

LEMMA LeftMap ==
    ASSUME NEW n \in Nat, NEW S, Placed(S, n), NEW i0 \in Nat, NEW e0 \in Nat,
           NEW acc, Left(acc, S, n, i0, e0), NEW m \in 0 .. Len(acc.data),
           NEW U, IsStored(U, acc, m)
    PROVE  Keeps(U, acc, m, n)
<1>1. Part(acc.segments, S) /\ acc.data \in Seq(Nat)
  BY AccFields DEF Left
<1>2. CASE m = 0 /\ U = acc.segments
  <2>1. Placed(U, n) /\ TotalSize(U) \in Nat
    BY <1>1, <1>2, PartPlaced, TotalNat
  <2>2. TotalSize(U) = TotalSize(U) + 0
    BY <2>1
  <2> QED
    BY <1>2, <2>1, <2>2 DEF Keeps
<1>3. CASE m > 0 /\ U = Insert(acc.segments, acc.index, Prefix(acc.data, m))
  <2>1. m \in 1 .. Len(acc.data)
    BY <1>1, <1>3
  <2> QED
    BY <1>3, <2>1, LeftFits
<1> QED
  BY <1>2, <1>3 DEF IsStored

\* What is kept of the data that is left is stored.
LEMMA LeftStores ==
    ASSUME NEW n \in Nat, NEW S, Placed(S, n), NEW i0 \in Nat, NEW e0 \in Nat,
           NEW acc, Left(acc, S, n, i0, e0), NEW f \in Nat, NEW E \in Nat,
           NEW m \in 0 .. Len(acc.data), Cut(acc, m, f, E), NEW U, IsStored(U, acc, m)
    PROVE  Stores(U, S, i0, e0, f, E)
<1> DEFINE T == acc.segments
           i == acc.index
           e == acc.end
<1>1. /\ acc \in AccType /\ Part(T, S) /\ Grown(acc, S, i0, e0)
      /\ Len(acc.data) = e - i + 1 /\ i \in Nat /\ e \in Nat /\ acc.data \in Seq(Nat)
  BY AccFields DEF Left
<1>0. Keeps(U, acc, m, n)
  BY LeftMap
<1>2. /\ \A j \in DOMAIN T : j \in DOMAIN U /\ U[j] = T[j]
      /\ m > 0 => i \in DOMAIN U /\ Len(U[i]) = m
      /\ \A j \in DOMAIN U : j \in DOMAIN T \/ (m > 0 /\ j = i)
  BY <1>0 DEF Keeps
<1>3. DOMAIN U \subseteq DOMAIN S \cup {i0}
  <2>1. i = i0 \/ i \in DOMAIN S
    BY <1>1 DEF Grown
  <2> QED
    BY <1>1, <1>2, <2>1 DEF Part
<1>4. ASSUME InWindow(S, f, E), f <= i0, i0 <= E
      PROVE  /\ InWindow(U, f, E) /\ NoLoss(S, U)
             /\ \A x \in Nat : i0 <= x /\ x <= e0 /\ x < E => Covers(U, x)
  <2>1. f <= i /\ i <= E
    BY <1>4, LeftStart
  <2>2. i + m <= E /\ (m = Len(acc.data) \/ i + m = E)
    BY <1>4, LeftCut
  <2>3. InWindow(T, f, E)
    BY <1>1, <1>4, PartWindow
  <2>4. InWindow(U, f, E)
    BY <1>2, <2>1, <2>2, <2>3 DEF InWindow
  <2>5. ASSUME NEW x \in Nat, x < E, Covers(S, x) \/ (i0 <= x /\ x <= e0) PROVE Covers(U, x)
    <3>1. Covers(T, x) \/ (i <= x /\ x <= e)
      BY <1>1, <2>5, MergedCovers
    <3>2. CASE Covers(T, x)
      BY <1>2, <3>2 DEF Covers
    <3>3. CASE i <= x /\ x <= e
      <4> HIDE DEF i, e, T
      <4>1. x < i + m /\ m > 0
        BY <1>1, <2>2, <2>5, <3>3
      <4> QED
        BY <1>2, <3>3, <4>1 DEF Covers
    <3> QED
      BY <3>1, <3>2, <3>3
  <2>6. ASSUME NEW x \in Nat, Covers(S, x) PROVE x < E
    <3>1. PICK j \in DOMAIN S : x < j + Len(S[j])
      BY <2>6 DEF Covers
    <3>2. j \in Nat /\ Len(S[j]) \in Nat /\ j + Len(S[j]) <= E
      BY <1>4, PlacedFacts DEF InWindow
    <3> QED
      BY <3>1, <3>2
  <2> QED
    BY <2>4, <2>5, <2>6 DEF NoLoss
<1> QED
  BY <1>3, <1>4 DEF Stores

\* u is r with other stored segments.
Swapped(u, r) ==
    /\ u.output = r.output /\ u.capacity = r.capacity
    /\ u.first_unassembled = r.first_unassembled /\ u.eof_index = r.eof_index

LEMMA SwapFields ==
    ASSUME NEW r \in RType, NEW U \in Maps, NEW u, u = [r EXCEPT !.segments = U]
    PROVE  u \in RType /\ u.segments = U /\ Swapped(u, r)
  BY Zenon DEF RType, Swapped

IsSwap(u, r, U, n) == Shape(u, n) /\ u.segments = U /\ Swapped(u, r)

LEMMA SwapShape ==
    ASSUME NEW n \in Nat, NEW r, Shape(r, n), NEW U, Placed(U, n),
           TotalSize(U) <= Room(r) + TotalSize(r.segments)
    PROVE  IsSwap([r EXCEPT !.segments = U], r, U, n)
<1> DEFINE u == [r EXCEPT !.segments = U]
<1>1. r \in RType /\ U \in Maps
  BY DEF Shape, Placed
<1>2. u \in RType /\ u.segments = U /\ Swapped(u, r)
  BY Zenon, <1>1, SwapFields
<1> HIDE DEF u
<1> DEFINE b == Len(r.output.buffer)
           c == r.capacity
           t == TotalSize(U)
           s == TotalSize(r.segments)
<1>3. b \in Nat /\ c \in Nat /\ t \in Nat /\ s \in Nat /\ Room(r) = c - b - s /\ t <= Room(r) + s
  BY ShapeFacts, TotalNat DEF Room
<1> HIDE DEF b, c, t, s
<1>4. b + t <= c
  BY <1>3
<1>5. Len(u.output.buffer) + TotalSize(u.segments) <= u.capacity
  BY Zenon, <1>2, <1>4 DEF b, t, c, Swapped
<1>6. Shape(u, n)
  BY <1>2, <1>5 DEF Shape, Swapped
<1> QED
  BY <1>2, <1>6 DEF IsSwap, u

Inserted(u, r, i0, e0, n) ==
    /\ Shape(u, n) /\ Swapped(u, r)
    /\ Stores(u.segments, r.segments, i0, e0, r.first_unassembled, RightEdge(r))

\* The segments that the loop left.
LEMMA MergedShape ==
    ASSUME NEW n \in Nat, NEW r, Shape(r, n), NEW T, Part(T, r.segments),
           NEW q, q = [r EXCEPT !.segments = T]
    PROVE  /\ Shape(q, n) /\ q.segments = T /\ Swapped(q, r) /\ RightEdge(q) = RightEdge(r)
           /\ Room(q) = RightEdge(r) - r.first_unassembled - TotalSize(T)
<1>1. Placed(r.segments, n)
  BY DEF Shape
<1>2. Placed(T, n) /\ TotalSize(T) <= TotalSize(r.segments)
  BY <1>1, PartPlaced, TotalPart
<1>3. TotalSize(T) \in Nat /\ TotalSize(r.segments) \in Nat /\ Room(r) \in Nat
  BY <1>1, <1>2, TotalNat, ShapeFacts
<1>4. TotalSize(T) <= Room(r) + TotalSize(r.segments)
  BY <1>2, <1>3
<1>5. Shape(q, n) /\ q.segments = T /\ Swapped(q, r)
  <2>1. IsSwap([r EXCEPT !.segments = T], r, T, n)
    BY <1>2, <1>4, SwapShape
  <2> QED
    BY Zenon, <2>1 DEF IsSwap
<1>6. RightEdge(q) = RightEdge(r)
  BY <1>5 DEF RightEdge, Swapped
<1>7. Room(q) = RightEdge(q) - q.first_unassembled - TotalSize(q.segments)
  BY Zenon, <1>5, ShapeFacts
<1> QED
  BY <1>5, <1>6, <1>7 DEF Swapped

\* insert_segment (stream_reassembler.cc:52-114).
LEMMA InsertGood ==
    ASSUME NEW n \in Nat, NEW r, Shape(r, n), NEW i0 \in Nat, NEW data, InPlace(data, i0),
           data # <<>>, i0 + Len(data) <= n
    PROVE  Inserted(insert_segment(r, data, i0), r, i0, i0 + Len(data) - 1, n)
<1> DEFINE S == r.segments
           e0 == i0 + Len(data) - 1
           u == insert_segment(r, data, i0)
           f == r.first_unassembled
           E == RightEdge(r)
<1>1. Placed(S, n) /\ f \in Nat /\ E \in Nat
  BY ShapeFacts DEF Shape
<1>2. e0 \in Nat /\ e0 < n
  BY DEF InPlace
<1>3. PICK acc : Merging(acc, End(S), S, i0, e0) /\ u = AfterMerge(r, acc)
  BY <1>1, MergeLoop
<1> DEFINE T == acc.segments
           i == acc.index
           q == [r EXCEPT !.segments = T]
<1>4. /\ acc \in AccType /\ Part(T, S) /\ Grown(acc, S, i0, e0)
      /\ Dropped(acc, End(S), S) \/ Left(acc, S, n, i0, e0)
  BY <1>1, <1>2, <1>3, MergeEnd
<1>5. /\ Shape(q, n) /\ q.segments = T /\ Swapped(q, r) /\ RightEdge(q) = E
      /\ Room(q) = E - f - TotalSize(T)
  BY <1>4, MergedShape
<1>6. u = StoreTruncated(q, truncate_data(q, acc.data, i), i)
  BY <1>3 DEF AfterMerge, StoreMerged
<1> HIDE DEF u, e0, S, f, E, T, i, q
<1>7. acc.data \in Seq(Nat) /\ i \in Nat
  BY <1>4, AccFields DEF i
<1>8. PICK m \in 0 .. Len(acc.data) :
              /\ truncate_data(q, acc.data, i) = Prefix(acc.data, m)
              /\ m <= Room(q)
              /\ i <= RightEdge(q) => /\ i + m <= RightEdge(q)
                                      /\ m = Len(acc.data) \/ i + m = RightEdge(q) \/ m = Room(q)
  BY Zenon, <1>5, <1>7, TruncateFacts
<1> DEFINE p == Prefix(acc.data, m)
<1>9. p \in Seq(Nat) /\ Len(p) = m /\ m \in Nat
  BY <1>7, FrontOf DEF Prefix
<1>10. u = IF p = <<>> THEN q ELSE [q EXCEPT !.segments = Insert(T, i, p)]
  BY <1>5, <1>6, <1>8 DEF StoreTruncated
<1> HIDE DEF p
<1>11. CASE Dropped(acc, End(S), S)
  <2>1. acc.data = <<>>
    BY <1>11 DEF Dropped
  <2>2. p = <<>>
    BY <1>9, <2>1
  <2>3. u = q
    BY <1>10, <2>2
  <2>4. Stores(T, S, i0, e0, f, E)
    BY <1>1, <1>2, <1>4, <1>11, DropStores DEF T
  <2> QED
    BY <1>5, <2>3, <2>4 DEF Inserted, u, S, e0, f, E
<1>12. CASE Left(acc, S, n, i0, e0)
  <2>1. Cut(acc, m, f, E)
    BY <1>5, <1>8 DEF Cut, T, i
  <2>2. CASE m = 0
    <3>1. p = <<>>
      BY <1>9, <2>2
    <3>2. u = q
      BY <1>10, <3>1
    <3>3. IsStored(T, acc, m)
      BY <2>2 DEF IsStored, T
    <3>4. Stores(T, S, i0, e0, f, E)
      BY <1>1, <1>2, <1>12, <2>1, <3>3, LeftStores
    <3> QED
      BY <1>5, <3>2, <3>4 DEF Inserted, u, S, e0, f, E
  <2>3. CASE m > 0
    <3> DEFINE U == Insert(T, i, p)
    <3>1. u = [q EXCEPT !.segments = U]
      BY <1>9, <1>10, <2>3
    <3>2. IsStored(U, acc, m)
      BY <2>3 DEF IsStored, T, i, p
    <3> HIDE DEF U
    <3>3. Stores(U, S, i0, e0, f, E)
      BY <1>1, <1>2, <1>12, <2>1, <3>2, LeftStores
    <3>4. Keeps(U, acc, m, n)
      BY <1>1, <1>2, <1>12, <3>2, LeftMap
    <3>5. Placed(U, n) /\ TotalSize(U) = TotalSize(T) + m
      BY <3>4 DEF Keeps, T
    <3>6. TotalSize(U) <= Room(q) + TotalSize(q.segments)
      <4>1. TotalSize(T) \in Nat /\ Room(q) \in Nat
        BY <1>5, ShapeFacts
      <4> QED
        BY <1>5, <1>8, <1>9, <3>5, <4>1
    <3>7. Shape(u, n) /\ u.segments = U /\ Swapped(u, q)
      <4>1. IsSwap([q EXCEPT !.segments = U], q, U, n)
        BY <1>5, <3>5, <3>6, SwapShape
      <4> QED
        BY Zenon, <3>1, <4>1 DEF IsSwap
    <3>8. Swapped(u, r)
      BY <1>5, <3>7 DEF Swapped
    <3> QED
      BY <3>3, <3>7, <3>8 DEF Inserted, u, S, e0, f, E
  <2> QED
    BY <1>9, <2>2, <2>3
<1> QED
  BY <1>4, <1>11, <1>12

-----------------------------------------------------------------------------
(* try_assemble                                                            *)

Within(S, b) == \A i \in DOMAIN S : i + Len(S[i]) <= b

\* Every byte from f on that is stored in S is stored in U.
NoLossFrom(S, U, f) == \A x \in Nat : f <= x /\ Covers(S, x) => Covers(U, x)

\* The invariant of try_assemble's loop when every key below k has been visited.
Trimming(u, k, r, n) ==
    LET f == r.first_unassembled
    IN  /\ Shape(u, n) /\ Swapped(u, r)
        /\ DOMAIN u.segments \subseteq DOMAIN r.segments \cup {f}
        /\ \A i \in DOMAIN u.segments : k <= i \/ f <= i
        /\ (\A i \in DOMAIN r.segments : f <= i) => u = r
        /\ Within(r.segments, RightEdge(r)) =>
              Within(u.segments, RightEdge(r)) /\ NoLossFrom(r.segments, u.segments, f)

LEMMA TrimPass ==
    ASSUME NEW n \in Nat, NEW r, Shape(r, n), NEW k \in Nat, NEW u, Trimming(u, k, r, n),
           k \notin DOMAIN u.segments \/ r.first_unassembled <= k
    PROVE  Trimming(u, k + 1, r, n)
<1> DEFINE f == r.first_unassembled
<1>1. \A i \in DOMAIN u.segments : i \in Nat
  BY PlacedFacts DEF Trimming, Shape
<1>2. f \in Nat
  BY ShapeFacts
<1>3. ASSUME NEW i \in DOMAIN u.segments PROVE k + 1 <= i \/ f <= i
  <2>1. k <= i \/ f <= i
    BY DEF Trimming
  <2> QED
    BY <1>1, <1>2, <2>1
<1> QED
  BY <1>3 DEF Trimming

\* A segment that lies before first_unassembled is erased.
LEMMA TrimErase ==
    ASSUME NEW n \in Nat, NEW r, Shape(r, n), NEW k \in Nat, NEW u, Trimming(u, k, r, n),
           k \in DOMAIN u.segments, k < r.first_unassembled,
           k + Len(u.segments[k]) <= r.first_unassembled
    PROVE  Trimming([u EXCEPT !.segments = Erase(@, k)], k + 1, r, n)
<1> DEFINE f == r.first_unassembled
           S == u.segments
           T == Erase(S, k)
           q == [u EXCEPT !.segments = T]
<1>1. /\ Shape(u, n) /\ Swapped(u, r) /\ DOMAIN S \subseteq DOMAIN r.segments \cup {f}
      /\ \A i \in DOMAIN S : k <= i \/ f <= i
      /\ (\A i \in DOMAIN r.segments : f <= i) => u = r
      /\ Within(r.segments, RightEdge(r)) => Within(S, RightEdge(r)) /\ NoLossFrom(r.segments, S, f)
  BY SMTT(30) DEF Trimming
<1>2. S \in Maps /\ Placed(S, n) /\ f \in Nat
  <2>1. Placed(S, n)
    BY <1>1, Zenon DEF Shape
  <2>2. S \in Maps
    BY <2>1, Zenon DEF Placed
  <2>3. f \in Nat
    BY ShapeFacts, Zenon
  <2> QED
    BY <2>1, <2>2, <2>3, Zenon
<1>3. Part(S, S)
  BY <1>2 DEF Part
<1>4. Part(T, S) /\ DOMAIN T = DOMAIN S \ {k}
  BY Zenon, <1>3, ErasePart
<1> HIDE DEF T
<1>5. Shape(q, n) /\ q.segments = T /\ Swapped(q, u)
  BY SMTT(30), <1>1, <1>4, MergedShape
<1> HIDE DEF q
<1>6. \A i \in DOMAIN T : T[i] = S[i] /\ i \in DOMAIN S /\ i \in Nat
  BY <1>2, <1>4, PlacedFacts DEF Part
<1>7. \A i \in DOMAIN T : k + 1 <= i \/ f <= i
  BY <1>1, <1>2, <1>4, <1>6
<1>8. Within(S, RightEdge(r)) => Within(T, RightEdge(r))
  BY <1>6 DEF Within
<1>9. NoLossFrom(S, T, f)
  <2> SUFFICES ASSUME NEW x \in Nat, f <= x, Covers(S, x) PROVE Covers(T, x)
    BY DEF NoLossFrom
  <2>1. PICK i \in DOMAIN S : i <= x /\ x < i + Len(S[i])
    BY DEF Covers
  <2>2. i \in Nat /\ Len(S[i]) \in Nat
    BY <1>2, PlacedFacts
  <2>3. i # k
    BY <1>2, <2>1, <2>2
  <2>4. i \in DOMAIN T /\ T[i] = S[i]
    BY <1>4, <1>6, <2>3
  <2> QED
    BY <2>1, <2>4 DEF Covers
<1>10. NoLossFrom(r.segments, S, f) => NoLossFrom(r.segments, T, f)
  BY SMTT(30), <1>9 DEF NoLossFrom
<1>11. Swapped(q, r)
  BY <1>1, <1>5 DEF Swapped
<1>12. ~(\A i \in DOMAIN r.segments : f <= i)
  <2>1. k \in DOMAIN r.segments
    BY SMTT(30), <1>1, <1>2
  <2> QED
    BY <1>2, <2>1
<1>13. Trimming(q, k + 1, r, n)
  BY <1>1, <1>4, <1>5, <1>7, <1>8, <1>10, <1>11, <1>12 DEF Trimming
<1> QED
  BY <1>13 DEF q, T

\* Of a segment that reaches past first_unassembled the rest is stored again.
LEMMA TrimFront ==
    ASSUME NEW n \in Nat, NEW r, Shape(r, n), NEW k \in Nat, NEW u, Trimming(u, k, r, n),
           k \in DOMAIN u.segments, k < r.first_unassembled,
           r.first_unassembled < k + Len(u.segments[k])
    PROVE  Trimming(insert_segment([u EXCEPT !.segments = Erase(@, k)],
                                   Suffix(u.segments[k], r.first_unassembled - k),
                                   r.first_unassembled), k + 1, r, n)
<1> DEFINE f == r.first_unassembled
           E == RightEdge(r)
           S == u.segments
           T == Erase(S, k)
           q == [u EXCEPT !.segments = T]
           L == Len(S[k])
           d == Suffix(S[k], f - k)
           w == insert_segment(q, d, f)
           U == w.segments
<1>1. /\ Shape(u, n) /\ Swapped(u, r) /\ DOMAIN S \subseteq DOMAIN r.segments \cup {f}
      /\ \A i \in DOMAIN S : k <= i \/ f <= i
      /\ (\A i \in DOMAIN r.segments : f <= i) => u = r
      /\ Within(r.segments, E) => Within(S, E) /\ NoLossFrom(r.segments, S, f)
  BY SMTT(30) DEF Trimming
<1>2. S \in Maps /\ Placed(S, n) /\ f \in Nat /\ E \in Nat /\ f <= E
  BY SMTT(30), <1>1, ShapeFacts DEF Shape, Placed
<1>3. Part(S, S)
  BY <1>2 DEF Part
<1>4. Part(T, S) /\ DOMAIN T = DOMAIN S \ {k}
  BY Zenon, <1>3, ErasePart
<1> HIDE DEF T
<1>5. Shape(q, n) /\ q.segments = T /\ Swapped(q, u)
  BY SMTT(30), <1>1, <1>4, MergedShape
<1>6. L \in Nat /\ L > 0 /\ InPlace(S[k], k) /\ k + L <= n
  BY <1>2, PlacedFacts
<1>7. InPlace(d, f) /\ Len(d) = L - (f - k) /\ f < k + L
  <2>1. f - k \in 0 .. Len(S[k]) /\ k + (f - k) = f
    BY <1>2, <1>6
  <2>2. InPlace(Suffix(S[k], f - k), k + (f - k)) /\ Len(Suffix(S[k], f - k)) = Len(S[k]) - (f - k)
    BY <1>6, <2>1, BackPlaced
  <2> QED
    BY <2>1, <2>2
<1> HIDE DEF d, q, L
<1>8. d # <<>> /\ f + Len(d) = k + L /\ f + Len(d) <= n
  BY <1>2, <1>6, <1>7
<1>9. Inserted(w, q, f, f + Len(d) - 1, n)
  BY <1>2, <1>5, <1>7, <1>8, InsertGood
<1> HIDE DEF w
<1>10. f = q.first_unassembled /\ E = RightEdge(q)
  BY <1>1, <1>5 DEF Swapped, RightEdge
<1>11. Shape(w, n) /\ Swapped(w, q) /\ Stores(U, T, f, f + Len(d) - 1, f, E)
  BY <1>5, <1>9, <1>10 DEF Inserted
<1>12. Swapped(w, r)
  BY <1>1, <1>5, <1>11 DEF Swapped
<1>13. \A i \in DOMAIN T : T[i] = S[i] /\ i \in DOMAIN S /\ i \in Nat /\ f <= i
  <2> SUFFICES ASSUME NEW i \in DOMAIN T PROVE T[i] = S[i] /\ i \in DOMAIN S /\ i \in Nat /\ f <= i
    OBVIOUS
  <2>1. i \in DOMAIN S /\ i # k /\ T[i] = S[i] /\ i \in Nat
    BY <1>2, <1>4, PlacedFacts DEF Part
  <2>2. k <= i \/ f <= i
    BY <1>1, <2>1
  <2>3. k < i => k + L <= i
    BY <1>2, <2>1, PlacedFacts DEF L
  <2> QED
    BY <1>2, <1>6, <1>7, <2>1, <2>2, <2>3
<1>14. DOMAIN U \subseteq DOMAIN T \cup {f}
  BY <1>11 DEF Stores
<1>15. DOMAIN U \subseteq DOMAIN r.segments \cup {f} /\ \A i \in DOMAIN U : f <= i
  BY <1>1, <1>2, <1>13, <1>14
<1>16. ASSUME Within(r.segments, E) PROVE Within(U, E) /\ NoLossFrom(r.segments, U, f)
  <2>1. Within(S, E) /\ NoLossFrom(r.segments, S, f)
    BY <1>1, <1>16
  <2>2. InWindow(T, f, E)
    BY SMTT(30), <1>13, <2>1 DEF InWindow, Within
  <2>3. /\ InWindow(U, f, E) /\ NoLoss(T, U)
        /\ \A x \in Nat : f <= x /\ x <= f + Len(d) - 1 /\ x < E => Covers(U, x)
    BY <1>2, <1>11, <2>2 DEF Stores
  <2>4. Within(U, E)
    BY <2>3 DEF InWindow, Within
  <2>5. ASSUME NEW x \in Nat, f <= x, Covers(S, x) PROVE Covers(U, x)
    <3>1. PICK i \in DOMAIN S : i <= x /\ x < i + Len(S[i])
      BY SMTT(30), <2>5 DEF Covers
    <3>2. CASE i = k
      <4>1. k + L <= E /\ x < k + L
        BY <2>1, <3>1, <3>2 DEF Within, L
      <4>2. x <= f + Len(d) - 1 /\ x < E
        BY <1>2, <1>6, <1>8, <4>1
      <4> QED
        BY <2>3, <2>5, <4>2
    <3>3. CASE i # k
      <4>1. i \in DOMAIN T /\ T[i] = S[i]
        BY <1>4, <1>13, <3>3
      <4>2. Covers(T, x)
        BY <3>1, <4>1 DEF Covers
      <4> QED
        BY <2>3, <4>2 DEF NoLoss
    <3> QED
      BY <3>2, <3>3
  <2>6. NoLossFrom(r.segments, U, f)
    BY <2>1, <2>5 DEF NoLossFrom
  <2> QED
    BY <2>4, <2>6
<1>17. ~(\A i \in DOMAIN r.segments : f <= i)
  <2>1. k \in DOMAIN r.segments
    BY SMTT(30), <1>1, <1>2
  <2> QED
    BY <1>2, <2>1
<1>18. Trimming(w, k + 1, r, n)
  BY <1>11, <1>12, <1>15, <1>16, <1>17 DEF Trimming
<1> QED
  BY SMTT(30), <1>18 DEF w, q, T, d

LEMMA TrimTurn ==
    ASSUME NEW n \in Nat, NEW r, Shape(r, n), NEW k \in Nat, NEW u, Trimming(u, k, r, n)
    PROVE  Trimming(Trim(u, k), k + 1, r, n)
<1> DEFINE f == u.first_unassembled
<1>1. Swapped(u, r) /\ Shape(u, n)
  BY DEF Trimming
<1>2. f = r.first_unassembled /\ f \in Nat
  BY <1>1, ShapeFacts DEF Swapped
<1>3. CASE k \notin DOMAIN u.segments \/ k >= f
  <2>1. Trim(u, k) = u
    BY <1>3 DEF Trim
  <2> QED
    BY <1>2, <1>3, <2>1, TrimPass
<1>4. CASE k \in DOMAIN u.segments /\ k < f
  <2>1. Len(u.segments[k]) \in Nat
    BY <1>1, <1>4, PlacedFacts DEF Shape
  <2>2. CASE k + Len(u.segments[k]) <= f
    <3>1. Trim(u, k) = [u EXCEPT !.segments = Erase(@, k)]
      BY <1>2, <1>4, <2>2 DEF Trim
    <3> QED
      BY <1>2, <1>4, <2>2, <3>1, TrimErase
  <2>3. CASE f < k + Len(u.segments[k])
    <3>1. Trim(u, k) = insert_segment([u EXCEPT !.segments = Erase(@, k)],
                                      Suffix(u.segments[k], f - k), f)
      BY <1>2, <1>4, <2>1, <2>3 DEF Trim
    <3> QED
      BY <1>2, <1>4, <2>3, <3>1, TrimFront
  <2> QED
    BY SMTT(30), <1>2, <2>1, <2>2, <2>3
<1> QED
  BY <1>2, <1>3, <1>4

\* try_assemble (stream_reassembler.cc:116-132) leaves no segment that starts
\* before first_unassembled.
LEMMA TrimLoop ==
    ASSUME NEW n \in Nat, NEW r, Shape(r, n)
    PROVE  /\ Trimming(try_assemble(r), End(r.segments), r, n)
           /\ \A i \in DOMAIN try_assemble(r).segments : r.first_unassembled <= i
<1> DEFINE E == End(r.segments)
           B(K, g) == [k \in 0 .. K |-> IF k = 0 THEN r ELSE Trim(g[k - 1], k - 1)]
           Runs == {K \in Nat : \E g : g = B(K, g)}
           trimmed == CHOOSE g : g = B(E, g)
<1>1. Placed(r.segments, n) /\ r.segments \in Maps /\ r.first_unassembled \in Nat
  BY ShapeFacts DEF Shape, Placed
<1>2. E \in Nat /\ \A i \in DOMAIN r.segments : i < E
  BY <1>1, EndBound
<1>3. try_assemble(r) = trimmed[E]
  BY SMTT(30) DEF try_assemble
<1>4. Trimming(r, 0, r, n)
  <2>1. \A i \in DOMAIN r.segments : 0 <= i
    BY <1>1, MapFacts
  <2>2. NoLossFrom(r.segments, r.segments, r.first_unassembled)
    BY DEF NoLossFrom
  <2>3. Swapped(r, r)
    BY DEF Swapped
  <2> QED
    BY <2>1, <2>2, <2>3 DEF Trimming
<1> HIDE DEF E
<1>5. 0 \in Runs
  <2> DEFINE g == [k \in 0 .. 0 |-> r]
  <2>1. g = B(0, g)
    OBVIOUS
  <2> QED
    BY Zenon, <2>1
<1>6. ASSUME NEW K \in Nat, K \in Runs PROVE K + 1 \in Runs
  <2>1. PICK g : g = B(K, g)
    BY <1>6
  <2> DEFINE x == Trim(g[K], K)
             h == [k \in 0 .. K + 1 |-> IF k = K + 1 THEN x ELSE g[k]]
  <2>2. ASSUME NEW k \in 0 .. K + 1
        PROVE  h[k] = IF k = 0 THEN r ELSE Trim(h[k - 1], k - 1)
    <3>1. CASE k = K + 1
      <4>1. h[k] = x /\ h[k - 1] = g[K] /\ k - 1 = K
        BY <3>1
      <4> QED
        BY <3>1, <4>1
    <3>2. CASE k = 0
      <4>1. h[k] = g[0] /\ g[0] = r
        BY <2>1, <3>2
      <4> QED
        BY <3>2, <4>1
    <3>3. CASE k \in 1 .. K
      <4>1. h[k] = g[k] /\ h[k - 1] = g[k - 1] /\ g[k] = Trim(g[k - 1], k - 1)
        BY <2>1, <3>3
      <4> QED
        BY <3>3, <4>1
    <3> QED
      BY <3>1, <3>2, <3>3
  <2>3. h = [k \in 0 .. K + 1 |-> h[k]]
    OBVIOUS
  <2> HIDE DEF h
  <2>4. h = B(K + 1, h)
    BY Zenon, <2>2, <2>3
  <2> QED
    BY <2>4
<1>7. \A K \in Nat : K \in Runs
  <2> HIDE DEF Runs
  <2> QED
    BY <1>5, <1>6, NatInd
<1>8. trimmed = B(E, trimmed)
  <2>1. \E g : g = B(E, g)
    BY Zenon, <1>2, <1>7
  <2> QED
    BY Zenon, <2>1
<1>9. trimmed[0] = r /\ \A k \in 1 .. E : trimmed[k] = Trim(trimmed[k - 1], k - 1)
  <2> HIDE DEF trimmed
  <2> QED
    BY <1>2, <1>8
<1> HIDE DEF trimmed, Runs, B
<1> DEFINE I == {k \in 0 .. E : Trimming(trimmed[k], k, r, n)}
<1>10. 0 \in I
  BY <1>2, <1>4, <1>9
<1>11. ASSUME NEW k \in 1 .. E, k - 1 \in I PROVE k \in I
  <2>1. k - 1 \in Nat /\ Trimming(trimmed[k - 1], k - 1, r, n)
    BY <1>11
  <2>2. Trimming(Trim(trimmed[k - 1], k - 1), (k - 1) + 1, r, n)
    BY <2>1, TrimTurn
  <2>3. (k - 1) + 1 = k /\ trimmed[k] = Trim(trimmed[k - 1], k - 1)
    BY <1>9
  <2> QED
    BY <2>2, <2>3
<1> HIDE DEF I
<1>12. \A k \in 0 .. E : k \in I
  BY <1>2, <1>10, <1>11, RangeInd
<1>13. Trimming(trimmed[E], E, r, n)
  BY <1>2, <1>12 DEF I
<1>14. ASSUME NEW i \in DOMAIN trimmed[E].segments PROVE r.first_unassembled <= i
  <2>1. i \in DOMAIN r.segments \/ i = r.first_unassembled
    BY <1>13 DEF Trimming
  <2>2. E <= i \/ r.first_unassembled <= i
    BY <1>13 DEF Trimming
  <2>3. i \in Nat
    BY <1>1, <2>1, MapFacts
  <2> QED
    BY <1>1, <1>2, <2>1, <2>2, <2>3
<1> QED
  BY <1>3, <1>13, <1>14 DEF E

-----------------------------------------------------------------------------
(* push_substring                                                          *)

\* u is r after k more bytes have been written to the output.
Advanced(u, r, k) ==
    /\ u \in RType /\ u.capacity = r.capacity /\ u.eof_index = r.eof_index
    /\ Wrote(r.output, u.output, k) /\ Holds(u.output)
    /\ u.first_unassembled = r.first_unassembled + k

LEMMA AdvancedShape ==
    ASSUME NEW n \in Nat, NEW r, Shape(r, n), NEW k \in Nat, NEW u, Advanced(u, r, k),
           u.segments = r.segments, k <= Room(r), r.first_unassembled + k <= n
    PROVE  Shape(u, n)
<1>1. /\ Len(r.output.buffer) \in Nat /\ r.capacity \in Nat /\ TotalSize(r.segments) \in Nat
      /\ r.first_unassembled \in Nat /\ n + r.capacity < SIZE_MOD
  BY ShapeFacts
<1>2. /\ Len(u.output.buffer) = Len(r.output.buffer) + k /\ u.output.capacity = r.output.capacity
      /\ u.output.bytes_written = r.output.bytes_written + k
  BY DEF Advanced, Wrote
<1>3. Len(u.output.buffer) + TotalSize(r.segments) <= r.capacity
  <2> DEFINE L == Len(r.output.buffer)
             c == r.capacity
             t == TotalSize(r.segments)
             R == Room(r)
  <2>1. L \in Nat /\ c \in Nat /\ t \in Nat /\ R = c - L - t /\ k <= R
    BY <1>1 DEF Room
  <2> HIDE DEF L, c, t, R
  <2>2. (L + k) + t <= c
    BY <2>1
  <2> QED
    BY Zenon, <1>2, <2>2 DEF L, c, t
<1>4. /\ r.output.capacity = r.capacity /\ r.first_unassembled = r.output.bytes_written
      /\ Placed(r.segments, n)
  BY SMTT(30) DEF Shape
<1> QED
  BY <1>1, <1>2, <1>3, <1>4 DEF Shape, Advanced

\* _output.write(data); _first_unassembled += written, for data that fits.
LEMMA WriteOutAdvances ==
    ASSUME NEW n \in Nat, NEW r, Shape(r, n), NEW p, InPlace(p, r.first_unassembled),
           Len(p) <= r.capacity - Len(r.output.buffer)
    PROVE  Advanced(WriteOut(r, p), r, Len(p)) /\ WriteOut(r, p).segments = r.segments
<1> DEFINE b == r.output
           c == write(b, p)
           k == Len(p)
           f == r.first_unassembled
           g == f + (c.bytes_written - b.bytes_written)
           u == WriteOut(r, p)
<1>1. r \in RType /\ b.capacity = r.capacity /\ Holds(b) /\ f = b.bytes_written
  BY DEF Shape
<1>2. b \in StreamType(Nat, Nat) /\ f \in Nat /\ r.capacity \in Nat /\ Len(b.buffer) \in Nat
  BY <1>1, RFields, StreamFields
<1>3. p \in Seq(Nat) /\ k \in Nat /\ \A i \in 1 .. k : p[i] = b.bytes_written + i - 1
  <2>1. InPlace(p, b.bytes_written)
    BY Zenon, <1>1
  <2>2. p \in Seq(Nat) /\ \A i \in 1 .. k : p[i] = b.bytes_written + i - 1
    BY Zenon, <2>1 DEF InPlace
  <2>3. k \in Nat
    BY <2>2
  <2> QED
    BY Zenon, <2>2, <2>3
<1>4. Accepted(b, k) = k
  <2> DEFINE L == Len(b.buffer)
             C == b.capacity
  <2>1. Accepted(b, k) = IF L >= C THEN 0 ELSE MinOf(k, C - L)
    BY DEF Accepted, remaining_capacity, buffer_size
  <2>2. L \in Nat /\ C \in Nat /\ k <= C - L
    BY SMTT(30), <1>1, <1>2
  <2> HIDE DEF L, C, k
  <2> QED
    BY <1>3, <2>1, <2>2 DEF MinOf
<1>5. Wrote(b, c, k) /\ Holds(c)
  BY <1>1, <1>2, <1>3, <1>4, WriteHolds
<1> HIDE DEF c
<1>6. c \in StreamType(Nat, Nat) /\ g = f + k /\ g \in Nat
  BY <1>1, <1>2, <1>3, <1>5 DEF Wrote
<1>7. u = [r EXCEPT !.output = c, !.first_unassembled = g]
  BY DEF WriteOut, Written, c
<1> HIDE DEF u, g
<1>8. /\ u \in RType /\ u.output = c /\ u.first_unassembled = g /\ u.capacity = r.capacity
      /\ u.segments = r.segments /\ u.eof_index = r.eof_index
  BY Zenon, <1>1, <1>6, <1>7 DEF RType
<1> QED
  BY <1>5, <1>6, <1>8 DEF Advanced, u

\* The stored bytes without those at the key k.
LEMMA TotalErase ==
    ASSUME NEW n \in Nat, NEW S, Placed(S, n), NEW k \in DOMAIN S
    PROVE  TotalSize(S) = TotalSize(Erase(S, k)) + Len(S[k])
<1> DEFINE T == Erase(S, k)
           c == Len(S[k])
<1>0. k \in Nat /\ c \in Nat /\ c > 0 /\ k + c <= n
  BY PlacedFacts
<1>1. S \in Maps /\ k \in Nat /\ c \in Nat /\ k < n
  BY <1>0 DEF Placed
<1>2. Part(S, S)
  BY <1>1 DEF Part
<1>3. Part(T, S) /\ DOMAIN T = DOMAIN S \ {k}
  BY <1>2, ErasePart
<1> HIDE DEF T
<1>4. Placed(T, n) /\ \A j \in DOMAIN T : T[j] = S[j]
  BY <1>3, PartPlaced DEF Part
<1>5. SizeAt(S, k) = SizeAt(T, k) + c
  BY <1>1, <1>3 DEF SizeAt
<1>6. \A j \in Nat : j # k => SizeAt(S, j) = SizeAt(T, j)
  BY <1>3, <1>4 DEF SizeAt
<1> HIDE DEF c
<1>7. TotalSize(S) = TotalSize(T) + c
  BY <1>1, <1>4, <1>5, <1>6, TotalPlus
<1> QED
  BY <1>7 DEF T, c

\* Nothing is stored when there are no stored bytes, and conversely.
LEMMA TotalZero ==
    ASSUME NEW n \in Nat, NEW S, Placed(S, n)
    PROVE  TotalSize(S) = 0 <=> DOMAIN S = {}
<1>1. ASSUME NEW k \in DOMAIN S PROVE TotalSize(S) # 0
  <2>1. S \in Maps
    BY DEF Placed
  <2>2. Part(S, S)
    BY <2>1 DEF Part
  <2>3. Placed(Erase(S, k), n)
    BY Zenon, <2>2, ErasePart, PartPlaced
  <2>4. TotalSize(Erase(S, k)) \in Nat /\ Len(S[k]) \in Nat /\ Len(S[k]) > 0
    BY <2>3, TotalNat, PlacedFacts
  <2>5. TotalSize(S) = TotalSize(Erase(S, k)) + Len(S[k])
    BY TotalErase
  <2> QED
    BY <2>4, <2>5
<1>2. ASSUME DOMAIN S = {} PROVE TotalSize(S) = 0
  <2>1. TotalSize(S) <= 0 - 0
    BY <1>2, TotalWindow
  <2>2. TotalSize(S) \in Nat
    BY TotalNat
  <2> QED
    BY <2>1, <2>2
<1> QED
  BY Zenon, <1>1, <1>2

\* u is what r has become after bytes have been assembled.
Onward(u, r, n) ==
    /\ Shape(u, n)
    /\ u.capacity = r.capacity /\ u.eof_index = r.eof_index
    /\ u.output.bytes_read = r.output.bytes_read
    /\ u.output.input_ended = r.output.input_ended
    /\ r.first_unassembled <= u.first_unassembled
    /\ Within(r.segments, RightEdge(r)) =>
          /\ Within(u.segments, RightEdge(r))
          /\ NoLossFrom(r.segments, u.segments, u.first_unassembled)

\* All stored segments start after the first missing byte.
Settled(u) == \A i \in DOMAIN u.segments : u.first_unassembled < i

LEMMA OnwardTrans ==
    ASSUME NEW n \in Nat, NEW r, Shape(r, n), NEW u, Onward(u, r, n), NEW w, Onward(w, u, n)
    PROVE  Onward(w, r, n)
<1>1. RightEdge(u) = RightEdge(r)
  BY SMTT(30) DEF Onward, RightEdge
<1>2. /\ r.first_unassembled \in Nat /\ u.first_unassembled \in Nat /\ w.first_unassembled \in Nat
      /\ r.first_unassembled <= u.first_unassembled /\ u.first_unassembled <= w.first_unassembled
  BY ShapeFacts DEF Onward
<1>3. ASSUME Within(r.segments, RightEdge(r))
      PROVE  /\ Within(w.segments, RightEdge(r))
             /\ NoLossFrom(r.segments, w.segments, w.first_unassembled)
  <2>1. /\ Within(u.segments, RightEdge(r)) /\ NoLossFrom(r.segments, u.segments, u.first_unassembled)
        /\ Within(w.segments, RightEdge(r)) /\ NoLossFrom(u.segments, w.segments, w.first_unassembled)
    BY <1>1, <1>3 DEF Onward
  <2>2. ASSUME NEW x \in Nat, w.first_unassembled <= x, Covers(r.segments, x)
        PROVE  Covers(w.segments, x)
    <3>1. u.first_unassembled <= x
      BY <1>2, <2>2
    <3>2. Covers(u.segments, x)
      BY <2>1, <2>2, <3>1 DEF NoLossFrom
    <3> QED
      BY <2>1, <2>2, <3>2 DEF NoLossFrom
  <2> QED
    BY <2>1, <2>2 DEF NoLossFrom
<1>4. r.first_unassembled <= w.first_unassembled
  BY <1>2
<1> QED
  BY <1>3, <1>4 DEF Onward

LEMMA TrimOnward ==
    ASSUME NEW n \in Nat, NEW r, Shape(r, n)
    PROVE  Onward(try_assemble(r), r, n)
<1> DEFINE u == try_assemble(r)
<1>1. Trimming(u, End(r.segments), r, n)
  BY TrimLoop
<1> HIDE DEF u
<1>2. r.first_unassembled \in Nat
  BY ShapeFacts
<1>3. Onward(u, r, n)
  BY <1>1, <1>2 DEF Trimming, Swapped, Onward
<1> QED
  BY SMTT(30), <1>3 DEF u

\* The segment that starts at first_unassembled is written out and erased.
LEMMA WriteStoredGood ==
    ASSUME NEW n \in Nat, NEW r, Shape(r, n), r.first_unassembled \in DOMAIN r.segments
    PROVE  /\ Onward(WriteStored(r), r, n)
           /\ WriteStored(r).first_unassembled > r.first_unassembled
<1> DEFINE f == r.first_unassembled
           S == r.segments
           p == S[f]
           L == Len(p)
           v == WriteOut(r, p)
           T == Erase(S, f)
           w == [v EXCEPT !.segments = T]
           q == [r EXCEPT !.segments = T]
<1>1. Placed(S, n) /\ r \in RType
  BY DEF Shape
<1>2. f \in Nat /\ L \in Nat /\ L > 0 /\ InPlace(p, f) /\ f + L <= n /\ S \in Maps
  BY Zenon, <1>1, PlacedFacts DEF Placed
<1>3. Part(S, S)
  BY <1>2 DEF Part
<1>4. Part(T, S) /\ DOMAIN T = DOMAIN S \ {f} /\ T \in Maps
  <2>1. Part(T, S) /\ DOMAIN T = DOMAIN S \ {f}
    BY <1>3, ErasePart
  <2> QED
    BY <2>1 DEF Part
<1>5. TotalSize(S) = TotalSize(T) + L /\ TotalSize(T) \in Nat
  <2>1. Placed(T, n)
    BY <1>1, <1>4, PartPlaced
  <2>2. TotalSize(T) \in Nat
    BY <2>1, TotalNat
  <2>3. TotalSize(S) = TotalSize(T) + L
    BY <1>1, TotalErase
  <2> QED
    BY <2>2, <2>3
<1>6. WriteStored(r) = w
  <2>1. v.segments = S
    BY DEF WriteOut, Written
  <2> QED
    BY <2>1 DEF WriteStored
<1> DEFINE b == Len(r.output.buffer)
           c == r.capacity
<1>7. b \in Nat /\ c \in Nat /\ b + TotalSize(S) <= c
  BY ShapeFacts
<1> HIDE DEF f, S, L, T, b, c, p
<1>8. L <= c - b
  BY <1>2, <1>5, <1>7
<1>9. Advanced(v, r, L) /\ v.segments = S
  BY <1>2, <1>8, WriteOutAdvances DEF f, S, b, c, L
<1> HIDE DEF v
<1>10. /\ Shape(q, n) /\ q.segments = T /\ Swapped(q, r)
       /\ Room(q) = RightEdge(r) - r.first_unassembled - TotalSize(T)
  BY <1>4, MergedShape DEF S
<1> HIDE DEF q
<1>11. v \in RType
  BY <1>9 DEF Advanced
<1>12. w \in RType /\ w.segments = T /\ Swapped(w, v)
  BY Zenon, <1>4, <1>11, SwapFields
<1> HIDE DEF w
<1>13. Advanced(w, q, L) /\ w.segments = q.segments
  BY <1>9, <1>10, <1>12 DEF Advanced, Swapped
<1>14. L <= Room(q) /\ q.first_unassembled + L <= n
  <2>1. Room(r) \in Nat /\ Room(r) = RightEdge(r) - f - TotalSize(S) /\ RightEdge(r) \in Nat
    BY ShapeFacts DEF f, S
  <2>2. Room(q) = RightEdge(r) - f - TotalSize(T) /\ q.first_unassembled = f
    BY <1>10 DEF Swapped, f
  <2> QED
    BY <1>2, <1>5, <2>1, <2>2
<1>15. Shape(w, n)
  BY <1>2, <1>10, <1>13, <1>14, AdvancedShape
<1>16. w.first_unassembled = f + L
  BY <1>9, <1>12 DEF Advanced, Swapped, f
<1>17. Within(S, RightEdge(r)) => Within(T, RightEdge(r))
  BY <1>4 DEF Within, Part
<1>18. NoLossFrom(S, T, f + L)
  <2> SUFFICES ASSUME NEW x \in Nat, f + L <= x, Covers(S, x) PROVE Covers(T, x)
    BY DEF NoLossFrom
  <2>1. PICK i \in DOMAIN S : i <= x /\ x < i + Len(S[i])
    BY DEF Covers
  <2>2. i # f
    BY <1>2, <2>1 DEF L, p
  <2>3. i \in DOMAIN T /\ T[i] = S[i]
    BY <1>4, <2>2 DEF Part
  <2> QED
    BY <2>1, <2>3 DEF Covers
<1>19. f <= f + L /\ f + L > f
  BY SMTT(30), <1>2
<1>20. Onward(w, r, n)
  BY SMTT(30), <1>9, <1>12, <1>15, <1>16, <1>17, <1>18, <1>19
     DEF Onward, Advanced, Swapped, Wrote, S, f
<1> QED
  BY <1>6, <1>16, <1>19, <1>20 DEF f

\* One turn of push_substring's while loop (stream_reassembler.cc:28-41): it
\* moves on, or finds nothing to write.
LEMMA AssembleTurn ==
    ASSUME NEW n \in Nat, NEW r, Shape(r, n)
    PROVE  LET w == WriteStored(try_assemble(r))
           IN  /\ Onward(w, r, n)
               /\ Settled(w) \/ w.first_unassembled > r.first_unassembled
               /\ Settled(r) => w = r
<1> DEFINE v == try_assemble(r)
           w == WriteStored(v)
           f == r.first_unassembled
<1>1. /\ Trimming(v, End(r.segments), r, n) /\ Onward(v, r, n)
      /\ \A i \in DOMAIN v.segments : f <= i
  BY SMTT(30), TrimLoop, TrimOnward
<1> HIDE DEF v
<1>2. Shape(v, n) /\ v.first_unassembled = f /\ f \in Nat
  BY <1>1, ShapeFacts DEF Trimming, Swapped
<1>3. \A i \in DOMAIN v.segments : i \in Nat
  BY <1>2, PlacedFacts DEF Shape
<1>4. CASE f \in DOMAIN v.segments
  <2>1. Onward(w, v, n) /\ w.first_unassembled > f
    BY <1>2, <1>4, WriteStoredGood
  <2>2. Onward(w, r, n)
    BY <1>1, <2>1, OnwardTrans
  <2>3. ~Settled(r)
    <3> SUFFICES ASSUME Settled(r) PROVE FALSE
      OBVIOUS
    <3>1. \A i \in DOMAIN r.segments : i \in Nat /\ f < i
      BY SMTT(30), PlacedFacts DEF Settled, Shape
    <3>2. v = r
      BY <1>1, <1>2, <3>1 DEF Trimming
    <3> QED
      BY <1>2, <1>4, <3>1, <3>2
  <2> QED
    BY <2>1, <2>2, <2>3 DEF v
<1>5. CASE f \notin DOMAIN v.segments
  <2>1. w = v
    BY <1>2, <1>5 DEF WriteStored
  <2>2. Settled(w)
    BY SMTT(30), <1>1, <1>2, <1>3, <1>5, <2>1 DEF Settled
  <2>3. Settled(r) => w = r
    <3> SUFFICES ASSUME Settled(r) PROVE w = r
      OBVIOUS
    <3>1. \A i \in DOMAIN r.segments : i \in Nat /\ f < i
      BY PlacedFacts DEF Settled, Shape
    <3> QED
      BY <1>1, <1>2, <2>1, <3>1 DEF Trimming
  <2> QED
    BY <1>1, <2>1, <2>2, <2>3 DEF v
<1> QED
  BY <1>4, <1>5

Assembling(u, k, r, n) ==
    Onward(u, r, n) /\ (Settled(u) \/ r.first_unassembled + k <= u.first_unassembled)

\* The loop as a whole: it ends with all stored segments after the first missing
\* byte, since the output cannot take more bytes than it has turns.
LEMMA AssembleLoop ==
    ASSUME NEW n \in Nat, NEW r, Shape(r, n)
    PROVE  Onward(AssembleStored(r), r, n) /\ Settled(AssembleStored(r))
<1> DEFINE E == remaining_capacity(r.output) + 1
           Turn(u) == WriteStored(try_assemble(u))
           B(K, g) == [k \in 0 .. K |-> IF k = 0 THEN r ELSE Turn(g[k - 1])]
           Runs == {K \in Nat : \E g : g = B(K, g)}
           after == CHOOSE g : g = B(E, g)
           f == r.first_unassembled
<1>1. E \in Nat /\ f \in Nat /\ f + E = RightEdge(r) + 1
  <2> DEFINE L == Len(r.output.buffer)
             c == r.capacity
             b == r.output.bytes_read
             t == TotalSize(r.segments)
  <2>1. L \in Nat /\ c \in Nat /\ b \in Nat /\ t \in Nat /\ L + t <= c /\ f = b + L
    BY ShapeFacts
  <2>2. RightEdge(r) = b + c /\ E = c - L + 1
    BY DEF remaining_capacity, buffer_size, Shape, RightEdge
  <2> HIDE DEF L, c, b, t, E, f
  <2> QED
    BY <2>1, <2>2
<1>2. AssembleStored(r) = after[E]
  BY DEF AssembleStored
<1> HIDE DEF E, Turn
<1>3. 0 \in Runs
  <2> DEFINE g == [k \in 0 .. 0 |-> r]
  <2>1. g = B(0, g)
    OBVIOUS
  <2> QED
    BY Zenon, <2>1
<1>4. ASSUME NEW K \in Nat, K \in Runs PROVE K + 1 \in Runs
  <2>1. PICK g : g = B(K, g)
    BY <1>4
  <2> DEFINE x == Turn(g[K])
             h == [k \in 0 .. K + 1 |-> IF k = K + 1 THEN x ELSE g[k]]
  <2>2. ASSUME NEW k \in 0 .. K + 1
        PROVE  h[k] = IF k = 0 THEN r ELSE Turn(h[k - 1])
    <3>1. CASE k = K + 1
      <4>1. h[k] = x /\ h[k - 1] = g[K]
        BY <3>1
      <4> QED
        BY <3>1, <4>1
    <3>2. CASE k = 0
      <4>1. h[k] = g[0] /\ g[0] = r
        BY <2>1, <3>2
      <4> QED
        BY <3>2, <4>1
    <3>3. CASE k \in 1 .. K
      <4>1. h[k] = g[k] /\ h[k - 1] = g[k - 1] /\ g[k] = Turn(g[k - 1])
        BY <2>1, <3>3
      <4> QED
        BY <3>3, <4>1
    <3> QED
      BY <3>1, <3>2, <3>3
  <2>3. h = [k \in 0 .. K + 1 |-> h[k]]
    OBVIOUS
  <2> HIDE DEF h
  <2>4. h = B(K + 1, h)
    BY Zenon, <2>2, <2>3
  <2> QED
    BY <2>4
<1>5. \A K \in Nat : K \in Runs
  <2> HIDE DEF Runs
  <2> QED
    BY <1>3, <1>4, NatInd
<1>6. after = B(E, after)
  <2>1. \E g : g = B(E, g)
    BY Zenon, <1>1, <1>5
  <2> QED
    BY Zenon, <2>1
<1>7. after[0] = r /\ \A k \in 1 .. E : after[k] = Turn(after[k - 1])
  <2> HIDE DEF after
  <2> QED
    BY <1>1, <1>6
<1> HIDE DEF after, Runs, B
<1> DEFINE I == {k \in 0 .. E : Assembling(after[k], k, r, n)}
<1>8. 0 \in I
  <2>1. Onward(r, r, n)
    BY <1>1 DEF Onward, NoLossFrom
  <2> QED
    BY <1>1, <1>7, <2>1 DEF Assembling
<1>9. ASSUME NEW k \in 1 .. E, k - 1 \in I PROVE k \in I
  <2> DEFINE u == after[k - 1]
             w == after[k]
  <2>1. Onward(u, r, n) /\ (Settled(u) \/ f + (k - 1) <= u.first_unassembled)
    BY <1>9 DEF Assembling
  <2>2. Shape(u, n) /\ w = Turn(u)
    BY <1>7, <2>1 DEF Onward
  <2>3. /\ Onward(w, u, n)
        /\ Settled(w) \/ w.first_unassembled > u.first_unassembled
        /\ Settled(u) => w = u
    BY <2>2, AssembleTurn DEF Turn
  <2>4. Onward(w, r, n)
    BY SMTT(30), <2>1, <2>3, OnwardTrans
  <2>5. u.first_unassembled \in Nat /\ w.first_unassembled \in Nat
    BY Zenon, <2>2, <2>4, ShapeFacts DEF Onward
  <2> HIDE DEF u, w
  <2>6. Settled(w) \/ f + k <= w.first_unassembled
    BY <1>1, <2>1, <2>3, <2>5
  <2> QED
    BY <2>4, <2>6 DEF Assembling, w
<1> HIDE DEF I
<1>10. \A k \in 0 .. E : k \in I
  BY <1>1, <1>8, <1>9, RangeInd
<1> DEFINE w == after[E]
<1>11. Onward(w, r, n) /\ (Settled(w) \/ f + E <= w.first_unassembled)
  BY <1>1, <1>10 DEF I, Assembling
<1> HIDE DEF w
<1>12. w.first_unassembled \in Nat /\ w.first_unassembled <= RightEdge(r) /\ RightEdge(r) \in Nat
  <2>1. Shape(w, n) /\ RightEdge(w) = RightEdge(r)
    BY <1>11 DEF Onward, RightEdge
  <2>2. w.first_unassembled \in Nat /\ w.first_unassembled <= RightEdge(w) /\ RightEdge(w) \in Nat
    BY <2>1, ShapeFacts
  <2> QED
    BY <2>1, <2>2
<1>13. Settled(w)
  BY <1>1, <1>11, <1>12
<1> QED
  BY <1>2, <1>11, <1>13 DEF w

\* u is what r has become after a substring that starts at i was taken in.  If
\* everything lies in the window, no stored byte is lost.
Taken(u, r, i, n) ==
    /\ Shape(u, n) /\ Settled(u)
    /\ u.capacity = r.capacity /\ u.output.bytes_read = r.output.bytes_read
    /\ r.first_unassembled <= u.first_unassembled
    /\ Within(r.segments, RightEdge(r)) /\ i <= RightEdge(r) =>
          /\ Within(u.segments, RightEdge(r))
          /\ NoLossFrom(r.segments, u.segments, u.first_unassembled)

SameEof(u, r) == u.eof_index = r.eof_index /\ u.output.input_ended = r.output.input_ended

LEMMA PushInOrder ==
    ASSUME NEW n \in Nat, NEW r, Shape(r, n), NEW data, InPlace(data, r.first_unassembled),
           data # <<>>, r.first_unassembled + Len(data) <= n
    PROVE  LET f == r.first_unassembled
               u == PushNew(r, data, f)
           IN  /\ Taken(u, r, f, n) /\ SameEof(u, r)
               /\ Room(r) > 0 => u.first_unassembled > f
<1> DEFINE f == r.first_unassembled
           L == Len(data)
           R == Room(r)
           E == RightEdge(r)
           u == PushNew(r, data, f)
<1>1. /\ f \in Nat /\ R \in Nat /\ E \in Nat /\ R <= E - f
      /\ R = r.capacity - Len(r.output.buffer) - TotalSize(r.segments)
      /\ r.capacity \in Nat /\ Len(r.output.buffer) \in Nat /\ TotalSize(r.segments) \in Nat
  BY ShapeFacts DEF Room
<1>2. data \in Seq(Nat) /\ L \in Nat /\ L > 0 /\ f + L <= n
  BY DEF InPlace
<1>3. PICK m \in 0 .. L :
              /\ truncate_data(r, data, f) = Prefix(data, m)
              /\ m <= R
              /\ f <= E => /\ f + m <= E
                           /\ m = L \/ f + m = E \/ m = R
  BY Zenon, <1>1, <1>2, TruncateFacts
<1> DEFINE p == Prefix(data, m)
           v == WriteOut(r, p)
<1>4. u = AssembleStored(v)
  BY <1>3 DEF PushNew
<1>5. InPlace(p, f) /\ Len(p) = m
  BY <1>1, <1>2, FrontPlaced
<1> HIDE DEF p, u, v
<1>6. m \in Nat /\ m <= r.capacity - Len(r.output.buffer) /\ f + m <= n /\ (R > 0 => m > 0)
  <2> DEFINE c == r.capacity
             b == Len(r.output.buffer)
             t == TotalSize(r.segments)
  <2>1. c \in Nat /\ b \in Nat /\ t \in Nat /\ R = c - b - t
    BY <1>1
  <2>2. f \in Nat /\ R \in Nat /\ E \in Nat /\ R <= E - f
    BY <1>1
  <2> HIDE DEF c, b, t, R, L, E, f
  <2>3. m \in Nat /\ m <= c - b /\ f + m <= n /\ (R > 0 => m > 0)
    BY <1>2, <1>3, <2>1, <2>2
  <2> QED
    BY <2>3 DEF c, b
<1>7. Advanced(v, r, m) /\ v.segments = r.segments
  BY <1>5, <1>6, WriteOutAdvances DEF v
<1>8. Shape(v, n)
  BY <1>3, <1>6, <1>7, AdvancedShape
<1>9. v.first_unassembled = f + m /\ v.first_unassembled >= f
  BY SMTT(30), <1>1, <1>6, <1>7 DEF Advanced
<1>10. Onward(v, r, n)
  BY <1>7, <1>8, <1>9 DEF Onward, Advanced, Wrote, NoLossFrom
<1>11. Onward(u, v, n) /\ Settled(u)
  BY <1>4, <1>8, AssembleLoop
<1>12. Onward(u, r, n)
  BY <1>10, <1>11, OnwardTrans
<1>13. R > 0 => u.first_unassembled > f
  <2>1. v.first_unassembled <= u.first_unassembled /\ u.first_unassembled \in Nat
    BY <1>11, ShapeFacts DEF Onward
  <2> QED
    BY SMTT(30), <1>1, <1>6, <1>9, <2>1
<1>14. Taken(u, r, f, n) /\ SameEof(u, r)
  BY <1>11, <1>12 DEF Taken, Onward, SameEof
<1> QED
  BY <1>13, <1>14 DEF u

LEMMA PushAhead ==
    ASSUME NEW n \in Nat, NEW r, Shape(r, n), Settled(r), NEW i \in Nat, NEW data,
           InPlace(data, i), data # <<>>, i + Len(data) <= n, r.first_unassembled < i
    PROVE  Taken(PushNew(r, data, i), r, i, n) /\ SameEof(PushNew(r, data, i), r)
<1> DEFINE f == r.first_unassembled
           E == RightEdge(r)
           S == r.segments
           u == PushNew(r, data, i)
           e0 == i + Len(data) - 1
<1>1. f \in Nat /\ E \in Nat
  BY ShapeFacts
<1>2. u = insert_segment(r, data, i)
  BY <1>1 DEF PushNew
<1>3. Inserted(u, r, i, e0, n)
  BY <1>2, InsertGood
<1> HIDE DEF u, e0
<1>4. Shape(u, n) /\ Swapped(u, r) /\ Stores(u.segments, S, i, e0, f, E)
  BY <1>3 DEF Inserted
<1>5. Settled(u)
  BY <1>4 DEF Settled, Stores, Swapped
<1>6. ASSUME Within(S, E), i <= E
      PROVE  Within(u.segments, E) /\ NoLossFrom(S, u.segments, f)
  <2>1. \A j \in DOMAIN S : j \in Nat /\ f <= j
    BY <1>1, PlacedFacts DEF Settled, Shape
  <2>2. InWindow(S, f, E)
    BY SMTT(30), <1>6, <2>1 DEF InWindow, Within
  <2>3. InWindow(u.segments, f, E) /\ NoLoss(S, u.segments)
    BY <1>1, <1>4, <1>6, <2>2 DEF Stores
  <2> QED
    BY <2>3 DEF InWindow, Within, NoLoss, NoLossFrom
<1>7. f <= f
  BY <1>1
<1>8. Taken(u, r, i, n) /\ SameEof(u, r)
  BY <1>4, <1>5, <1>6, <1>7 DEF Taken, SameEof, Swapped
<1> QED
  BY <1>8 DEF u

\* Noting the end of the stream, and ending the output.
LEMMA NoteShape ==
    ASSUME NEW n \in Nat, NEW r, Shape(r, n), NEW x \in Nat, NEW u, u = [r EXCEPT !.eof_index = x]
    PROVE  /\ Shape(u, n) /\ u.eof_index = x /\ u.segments = r.segments /\ u.output = r.output
           /\ u.capacity = r.capacity /\ u.first_unassembled = r.first_unassembled
<1>1. r \in RType
  BY DEF Shape
<1>2. /\ u \in RType /\ u.eof_index = x /\ u.segments = r.segments /\ u.output = r.output
      /\ u.capacity = r.capacity /\ u.first_unassembled = r.first_unassembled
  BY Zenon, <1>1 DEF RType
<1> QED
  BY Zenon, <1>2 DEF Shape

EndedIf(u, r, c, n) ==
    /\ Shape(u, n) /\ u.segments = r.segments /\ u.capacity = r.capacity
    /\ u.first_unassembled = r.first_unassembled /\ u.eof_index = r.eof_index
    /\ u.output.bytes_read = r.output.bytes_read
    /\ u.output.input_ended <=> (r.output.input_ended \/ c)

LEMMA EndShape ==
    ASSUME NEW n \in Nat, NEW r, Shape(r, n), NEW c \in BOOLEAN
    PROVE  EndedIf(EndIf(r, c), r, c, n)
<1> DEFINE b == r.output
           d == end_input(b)
           u == [r EXCEPT !.output = d]
<1>1. CASE ~c
  <2>1. EndIf(r, c) = r
    BY <1>1 DEF EndIf
  <2> QED
    BY Zenon, <1>1, <2>1 DEF EndedIf
<1>2. CASE c
  <2>1. EndIf(r, c) = u
    BY <1>2 DEF EndIf
  <2>2. r \in RType /\ b \in StreamType(Nat, Nat)
    BY RFields DEF Shape
  <2>3. d = [b EXCEPT !.input_ended = TRUE]
    BY DEF end_input
  <2> HIDE DEF d
  <2>4. /\ d \in StreamType(Nat, Nat) /\ d.input_ended = TRUE /\ d.buffer = b.buffer
        /\ d.capacity = b.capacity /\ d.bytes_written = b.bytes_written
        /\ d.bytes_read = b.bytes_read
    BY Zenon, <2>2, <2>3 DEF StreamType
  <2>5. /\ u \in RType /\ u.output = d /\ u.segments = r.segments /\ u.eof_index = r.eof_index
        /\ u.capacity = r.capacity /\ u.first_unassembled = r.first_unassembled
    BY Zenon, <2>2, <2>4 DEF RType
  <2> HIDE DEF u
  <2>6. Holds(b) => Holds(d)
    BY Zenon, <2>4 DEF Holds
  <2>7. Shape(u, n)
    BY Zenon, <2>4, <2>5, <2>6 DEF Shape
  <2> QED
    BY Zenon, <1>2, <2>1, <2>4, <2>5, <2>7 DEF EndedIf
<1> QED
  BY <1>1, <1>2

\* What push_substring promises: where the substring starts at the first missing
\* byte and there is memory left, it moves on.
Pushed(u, r, data, index, eof_flag, n) ==
    /\ Taken(u, r, index, n)
    /\ u.eof_index = IF eof_flag THEN n ELSE r.eof_index
    /\ u.output.input_ended <=> \/ r.output.input_ended
                                \/ DOMAIN u.segments = {} /\ u.first_unassembled = u.eof_index
    /\ index = r.first_unassembled /\ data # <<>> /\ Room(r) > 0 =>
          u.first_unassembled > r.first_unassembled

\* u is w, with the output ended if the whole stream is assembled.
Finished(u, w, r, index, n) ==
    /\ Taken(u, r, index, n) /\ u.eof_index = r.eof_index
    /\ u.first_unassembled = w.first_unassembled
    /\ u.output.input_ended <=> \/ r.output.input_ended
                                \/ DOMAIN u.segments = {} /\ u.first_unassembled = u.eof_index

LEMMA PushEnd ==
    ASSUME NEW n \in Nat, NEW r, Shape(r, n), r.eof_index >= n,
           NEW index \in Nat, NEW w, Taken(w, r, index, n), SameEof(w, r),
           NEW c \in BOOLEAN, c <=> DOMAIN w.segments = {} /\ w.first_unassembled = w.eof_index
    PROVE  Finished(EndIf(w, c), w, r, index, n)
<1> DEFINE u == EndIf(w, c)
<1>1. Shape(w, n)
  BY DEF Taken
<1>2. EndedIf(u, w, c, n)
  BY <1>1, EndShape
<1> HIDE DEF u
<1>3. Taken(u, r, index, n)
  BY Zenon, <1>2 DEF Taken, EndedIf, Settled
<1> QED
  BY Zenon, <1>2, <1>3 DEF EndedIf, SameEof, Finished, u

LEMMA PushGood ==
    ASSUME NEW n \in Nat, NEW r, Shape(r, n), Settled(r), r.eof_index >= n,
           NEW index \in Nat, NEW data, InPlace(data, index), index + Len(data) <= n,
           NEW eof_flag \in BOOLEAN, eof_flag => index + Len(data) = n
    PROVE  Pushed(push_substring(r, data, index, eof_flag), r, data, index, eof_flag, n)
<1> DEFINE f == r.first_unassembled
           q == NoteEof(r, data, index, eof_flag)
           s == IF index < f THEN f - index ELSE 0
           u == push_substring(r, data, index, eof_flag)
           L == Len(data)
<1>1. u = PushFrom(q, data, index, s)
  BY DEF push_substring
<1>2. f \in Nat /\ L \in Nat /\ s \in Nat /\ RightEdge(r) \in Nat /\ f <= RightEdge(r)
  BY ShapeFacts DEF InPlace
<1>3. /\ Shape(q, n) /\ q.segments = r.segments /\ q.output = r.output /\ q.capacity = r.capacity
      /\ q.first_unassembled = f /\ q.eof_index = (IF eof_flag THEN n ELSE r.eof_index)
  <2>1. CASE eof_flag
    <3>1. q = [r EXCEPT !.eof_index = index + L]
      BY <2>1 DEF NoteEof
    <3> HIDE DEF q
    <3> QED
      BY <1>2, <2>1, <3>1, NoteShape
  <2>2. CASE ~eof_flag
    BY SMTT(30), <2>2 DEF NoteEof
  <2> QED
    BY <2>1, <2>2
<1>4. q.eof_index >= n /\ q.eof_index \in Nat
  BY SMTT(30), <1>3, RFields DEF Shape
<1>5. RightEdge(q) = RightEdge(r) /\ Room(q) = Room(r) /\ Settled(q)
  BY <1>3 DEF RightEdge, Room, Settled
<1> HIDE DEF q, u
<1>6. SUFFICES /\ Taken(u, q, index, n) /\ u.eof_index = q.eof_index
               /\ u.output.input_ended <=>
                      \/ q.output.input_ended
                      \/ DOMAIN u.segments = {} /\ u.first_unassembled = u.eof_index
               /\ index = f /\ data # <<>> /\ Room(q) > 0 => u.first_unassembled > f
  <2> SUFFICES Pushed(u, r, data, index, eof_flag, n)
    BY DEF u
  <2>1. Taken(u, r, index, n)
    BY Zenon, <1>3, <1>5, <1>6 DEF Taken
  <2> QED
    BY Zenon, <1>3, <1>5, <1>6, <2>1 DEF Pushed
<1>7. CASE s >= L
  <2> DEFINE c == empty(q) /\ q.first_unassembled >= q.eof_index
  <2>1. u = EndIf(q, c)
    BY <1>1, <1>7 DEF PushFrom
  <2>2. q.first_unassembled <= n
    BY <1>3 DEF Shape
  <2>3. c <=> DOMAIN q.segments = {} /\ q.first_unassembled = q.eof_index
    BY <1>2, <1>3, <1>4, <2>2 DEF empty
  <2>4. c \in BOOLEAN
    OBVIOUS
  <2>5. Taken(q, q, index, n) /\ SameEof(q, q)
    BY <1>2, <1>3, <1>5 DEF Taken, SameEof, NoLossFrom
  <2>6. ~(index = f /\ data # <<>>)
    BY <1>2, <1>7 DEF InPlace
  <2> HIDE DEF c
  <2>7. Finished(u, q, q, index, n)
    BY <1>3, <1>4, <2>1, <2>3, <2>4, <2>5, PushEnd
  <2> QED
    BY Zenon, <2>6, <2>7 DEF Finished
<1>8. CASE s < L
  <2> DEFINE a == index + s
             d == Suffix(data, s)
             w == PushNew(q, d, a)
             c == empty(w) /\ w.first_unassembled = w.eof_index
  <2>1. u = EndIf(w, c)
    BY <1>1, <1>2, <1>8 DEF PushFrom, EndIfComplete
  <2>2. InPlace(d, a) /\ Len(d) = L - s
    <3>1. s \in 0 .. L
      BY <1>2, <1>8
    <3> HIDE DEF s
    <3> QED
      BY Zenon, <3>1, BackPlaced
  <2>3. a \in Nat /\ f <= a /\ a + Len(d) <= n /\ Len(d) > 0
    BY <1>2, <1>8, <2>2
  <2>4. d # <<>>
    BY <2>3
  <2>5. (index <= RightEdge(q) => a <= RightEdge(q)) /\ (index = f => a = f)
    BY <1>2, <1>5
  <2> HIDE DEF a, d, w
  <2>6. Taken(w, q, a, n) /\ SameEof(w, q) /\ (a = f /\ Room(q) > 0 => w.first_unassembled > f)
    <3>1. CASE a = f
      BY <1>3, <2>2, <2>3, <2>4, <3>1, PushInOrder DEF w
    <3>2. CASE a # f
      <4>1. q.first_unassembled < a
        BY <1>2, <1>3, <2>3, <3>2
      <4>2. Taken(w, q, a, n) /\ SameEof(w, q)
        BY Zenon, <1>3, <1>5, <2>2, <2>3, <2>4, <4>1, PushAhead DEF w
      <4> QED
        BY Zenon, <3>2, <4>2
    <3> QED
      BY <3>1, <3>2
  <2>7. Taken(w, q, index, n)
    BY Zenon, <2>5, <2>6 DEF Taken
  <2>8. c \in BOOLEAN /\ (c <=> DOMAIN w.segments = {} /\ w.first_unassembled = w.eof_index)
    BY DEF empty
  <2> HIDE DEF c
  <2>9. Finished(u, w, q, index, n)
    BY <1>3, <1>4, <2>1, <2>6, <2>7, <2>8, PushEnd
  <2> QED
    BY Zenon, <2>5, <2>6, <2>9 DEF Finished
<1> QED
  BY <1>2, <1>7, <1>8

-----------------------------------------------------------------------------
(* The constructor, and a reader that takes bytes from the output          *)

LEMMA NewShape ==
    ASSUME NEW n \in Nat, NEW c \in Nat, n + c < SIZE_MOD
    PROVE  LET r == NewReassembler(c)
           IN  /\ Shape(r, n) /\ DOMAIN r.segments = {} /\ r.capacity = c
               /\ r.first_unassembled = 0 /\ r.eof_index = SIZE_MAX
               /\ r.output.bytes_read = 0 /\ r.output.input_ended = FALSE
<1> DEFINE r == NewReassembler(c)
           b == NewStream(c)
           S == [i \in {} |-> <<>>]
<1>1. S \in Maps /\ DOMAIN S = {}
  <2>1. S \in [{} -> Seq(Nat)] /\ {} \in SUBSET Nat
    OBVIOUS
  <2> QED
    BY Zenon, <2>1 DEF Maps
<1>2. b \in StreamType(Nat, Nat) /\ b.capacity = c /\ b.buffer = <<>> /\ b.bytes_written = 0
      /\ b.bytes_read = 0 /\ b.input_ended = FALSE
  BY DEF NewStream, StreamType
<1>3. SIZE_MAX \in Nat
  BY SizeModAssumption DEF SIZE_MAX
<1> HIDE DEF b, S
<1>4. r = [output |-> b, capacity |-> c, first_unassembled |-> 0, segments |-> S,
           eof_index |-> SIZE_MAX]
  BY DEF NewReassembler, b, S
<1>5. /\ r \in RType /\ r.output = b /\ r.capacity = c /\ r.first_unassembled = 0
      /\ r.segments = S /\ r.eof_index = SIZE_MAX
  BY <1>1, <1>2, <1>3, <1>4 DEF RType
<1> HIDE DEF r
<1>6. Placed(S, n)
  BY <1>1 DEF Placed
<1>7. TotalSize(S) = 0
  BY <1>1, <1>6, TotalZero
<1>8. Holds(b) /\ Len(b.buffer) = 0
  BY <1>2 DEF Holds
<1>9. Shape(r, n)
  BY <1>2, <1>5, <1>6, <1>7, <1>8 DEF Shape
<1> QED
  BY <1>1, <1>2, <1>5, <1>9 DEF r

\* u is r after the reader asked for len bytes.
HasRead(u, r, len, n) ==
    /\ Shape(u, n)
    /\ u.segments = r.segments /\ u.capacity = r.capacity /\ u.eof_index = r.eof_index
    /\ u.first_unassembled = r.first_unassembled
    /\ u.output.input_ended = r.output.input_ended
    /\ u.output.bytes_read = r.output.bytes_read + MinOf(len, Len(r.output.buffer))

LEMMA ReadShape ==
    ASSUME NEW n \in Nat, NEW r, Shape(r, n), NEW len \in Nat
    PROVE  HasRead([r EXCEPT !.output = read(r.output, len)], r, len, n)
<1> DEFINE b == r.output
           d == read(b, len)
           k == MinOf(len, Len(b.buffer))
           u == [r EXCEPT !.output = d]
<1>1. r \in RType /\ b \in StreamType(Nat, Nat) /\ Holds(b)
  BY RFields DEF Shape
<1>2. Len(b.buffer) \in Nat /\ TotalSize(r.segments) \in Nat /\ r.capacity \in Nat
      /\ Len(b.buffer) + TotalSize(r.segments) <= r.capacity
  BY ShapeFacts
<1>3. k \in Nat
  BY <1>2 DEF MinOf
<1>4. ReadBy(b, d, k)
  BY <1>1, ReadStream
<1> HIDE DEF d, k
<1>5. Holds(d) /\ Len(d.buffer) = Len(b.buffer) - k
  BY <1>1, <1>3, <1>4, ReadHolds
<1>6. /\ d \in StreamType(Nat, Nat) /\ d.bytes_read = b.bytes_read + k
      /\ d.bytes_written = b.bytes_written /\ d.input_ended = b.input_ended
  BY <1>4 DEF ReadBy
<1>7. d.capacity = b.capacity
  BY <1>1 DEF d, read, pop_output, StreamType
<1>8. /\ u \in RType /\ u.output = d /\ u.segments = r.segments /\ u.eof_index = r.eof_index
      /\ u.capacity = r.capacity /\ u.first_unassembled = r.first_unassembled
  BY Zenon, <1>1, <1>6 DEF RType
<1>9. Len(d.buffer) + TotalSize(r.segments) <= r.capacity
  BY <1>2, <1>3, <1>5
<1> HIDE DEF u
<1>10. Shape(u, n)
  BY Zenon, <1>5, <1>6, <1>7, <1>8, <1>9 DEF Shape
<1> QED
  BY Zenon, <1>6, <1>8, <1>10 DEF HasRead, u, d, k

\* Bytes in place are the bytes of the stream.
LEMMA InPlaceIs ==
    ASSUME NEW d, NEW i \in Nat, InPlace(d, i)
    PROVE  d = [k \in 1 .. Len(d) |-> i + k - 1]
  BY DEF InPlace

LEMMA BytesPlaced ==
    ASSUME NEW i \in Nat, NEW len \in Nat
    PROVE  LET d == [k \in 1 .. len |-> i + k - 1] IN InPlace(d, i) /\ Len(d) = len
<1> DEFINE d == [k \in 1 .. len |-> i + k - 1]
<1>1. d \in [1 .. len -> Nat]
  OBVIOUS
<1>2. d \in Seq(Nat) /\ Len(d) = len
  BY <1>1
<1> QED
  BY <1>2 DEF InPlace
=============================================================================
