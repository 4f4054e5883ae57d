------------------------------- MODULE Lemmas -------------------------------
(***************************************************************************)
(* What the proofs of several components rest on, for every value of the   *)
(* constants.                                                              *)
(*                                                                         *)
(* Induction over natural numbers for sets, and what follows from it for   *)
(* the recursive functions that the models use for loops: such a function  *)
(* exists, obeys its equation, and stays in a set that the loop's body     *)
(* preserves.  Everything is stated about sets and functions, without      *)
(* operator parameters, so that a lemma can be cited by name.              *)
(*                                                                         *)
(* What wrap and unwrap compute.  A number n determines the offset         *)
(* o = (x - 0) % WRAP_MOD of every absolute number x that wraps to it, so  *)
(* those numbers are k * WRAP_MOD + o; the three candidates of unwrap are  *)
(* the ones of the checkpoint's cycle and its neighbours, and every other  *)
(* k is further away.                                                      *)
(*                                                                         *)
(* What read and write do to a ByteStream.                                 *)
(***************************************************************************)
EXTENDS WrappingIntegers, ByteStream, SeqFilter, WellFoundedInduction, TLAPS

-----------------------------------------------------------------------------
(* Induction and loops                                                     *)

\* A non-empty set of natural numbers has a least element.
LEMMA LeastNat ==
    ASSUME NEW T, T \subseteq Nat, T # {}
    PROVE  \E n \in T : \A m \in T : n <= m
<1> DEFINE R == {ss \in Nat \X Nat : ss[1] < ss[2]}
<1>1. R = OpToRel(<, Nat)
  BY DEF OpToRel
<1>2. IsWellFoundedOn(R, Nat)
  BY <1>1, NatLessThanWellFounded
<1> HIDE DEF R
<1>3. PICK x \in T : \A y \in T : ~ (<<y, x>> \in R)
  BY <1>2, WFMin, Zenon
<1>4. ASSUME NEW y \in T PROVE x <= y
  <2>1. <<y, x>> \in Nat \X Nat /\ ~ (<<y, x>> \in R)
    BY <1>3
  <2>2. ~ (y < x)
    BY <2>1 DEF R
  <2> QED
    BY <2>2
<1> QED
  BY <1>4

\* A non-empty set of natural numbers up to K has a greatest element.
LEMMA GreatestNat ==
    ASSUME NEW K \in Nat, NEW T, T \subseteq 0 .. K, T # {}
    PROVE  \E n \in T : \A m \in T : n >= m
<1> DEFINE U == {k \in 0 .. K : K - k \in T}
<1>1. U \subseteq Nat
  OBVIOUS
<1>2. U # {}
  <2>1. PICK x : x \in T
    OBVIOUS
  <2>2. K - x \in 0 .. K /\ K - (K - x) = x
    BY <2>1
  <2>3. K - x \in U
    BY <2>1, <2>2
  <2> QED
    BY <2>3
<1> HIDE DEF U
<1>3. PICK u \in U : \A m \in U : u <= m
  BY <1>1, <1>2, LeastNat, Zenon
<1>4. u \in 0 .. K /\ K - u \in T
  BY DEF U
<1>5. ASSUME NEW m \in T PROVE K - u >= m
  <2>1. m \in 0 .. K /\ K - m \in 0 .. K /\ K - (K - m) = m
    OBVIOUS
  <2>2. K - m \in U
    BY <2>1 DEF U
  <2> QED
    BY <1>3, <1>4, <2>1, <2>2
<1> QED
  BY <1>4, <1>5

\* A set with 0 and the successor of each of its numbers has every number.
LEMMA NatInd ==
    ASSUME NEW S, 0 \in S, \A n \in Nat : n \in S => n + 1 \in S
    PROVE  \A n \in Nat : n \in S
<1> DEFINE T == Nat \ S
<1> SUFFICES ASSUME T # {} PROVE FALSE
  OBVIOUS
<1>1. PICK n \in T : \A m \in T : n <= m
  BY LeastNat, Zenon
<1>2. n # 0 /\ n - 1 \in Nat
  OBVIOUS
<1>3. n - 1 \in S
  BY <1>1, <1>2
<1> QED
  BY <1>2, <1>3

\* The same up to a bound.
LEMMA RangeInd ==
    ASSUME NEW K \in Nat, NEW S, 0 \in S, \A n \in 1 .. K : n - 1 \in S => n \in S
    PROVE  \A n \in 0 .. K : n \in S
<1> DEFINE T == {n \in Nat : n <= K => n \in S}
<1>1. 0 \in T
  OBVIOUS
<1>2. ASSUME NEW n \in Nat, n \in T PROVE n + 1 \in T
  <2> SUFFICES ASSUME n + 1 <= K PROVE n + 1 \in S
    OBVIOUS
  <2>1. n \in S /\ n + 1 \in 1 .. K /\ (n + 1) - 1 = n
    BY <1>2
  <2> QED
    BY <2>1
<1> HIDE DEF T
<1>3. \A n \in Nat : n \in T
  BY <1>1, <1>2, NatInd
<1> QED
  BY <1>3 DEF T

\* A loop whose body is the function F on the set D, and depends on the number
\* of the turn, has a function of its states.
IsLoop(g, D, F, a, K) ==
    g \in [0 .. K -> D] /\ g[0] = a /\ \A n \in 1 .. K : g[n] = F[<<n, g[n - 1]>>]

LEMMA LoopExists ==
    ASSUME NEW D, NEW F \in [Nat \X D -> D], NEW a \in D, NEW K \in Nat
    PROVE  \E g : IsLoop(g, D, F, a, K)
<1> DEFINE Run(k) == {g \in [0 .. k -> D] : g[0] = a /\ \A n \in 1 .. k : g[n] = F[<<n, g[n - 1]>>]}
           S == {k \in Nat : Run(k) # {}}
<1>1. 0 \in S
  <2> DEFINE g == [n \in 0 .. 0 |-> a]
  <2>1. g \in Run(0)
    OBVIOUS
  <2> QED
    BY <2>1
<1>2. ASSUME NEW k \in Nat, k \in S PROVE k + 1 \in S
  <2>1. PICK g : g \in Run(k)
    BY <1>2
  <2> DEFINE x == F[<<k + 1, g[k]>>]
             h == [n \in 0 .. k + 1 |-> IF n = k + 1 THEN x ELSE g[n]]
  <2>2. g \in [0 .. k -> D] /\ g[0] = a /\ \A n \in 1 .. k : g[n] = F[<<n, g[n - 1]>>]
    BY <2>1
  <2>3. x \in D
    <3>1. <<k + 1, g[k]>> \in Nat \X D
      BY <2>2
    <3> QED
      BY <3>1
  <2> HIDE DEF x
  <2>4. h \in [0 .. k + 1 -> D]
    BY <2>2, <2>3
  <2>5. h[0] = a
    BY <2>2
  <2>6. ASSUME NEW n \in 1 .. k + 1 PROVE h[n] = F[<<n, h[n - 1]>>]
    <3>1. CASE n = k + 1
      <4>1. h[n - 1] = g[k] /\ h[n] = x
        BY <3>1
      <4> QED
        BY <3>1, <4>1, Zenon DEF x
    <3>2. CASE n \in 1 .. k
      <4>1. h[n - 1] = g[n - 1] /\ h[n] = g[n]
        BY <3>2
      <4> QED
        BY <2>2, <3>2, <4>1
    <3> QED
      BY <3>1, <3>2
  <2>7. h \in Run(k + 1)
    BY <2>4, <2>5, <2>6, Zenon
  <2> QED
    BY <2>7
<1> HIDE DEF S
<1>3. K \in S
  BY <1>1, <1>2, NatInd
<1>4. PICK g : g \in Run(K)
  BY <1>3 DEF S
<1> QED
  BY <1>4 DEF IsLoop

-----------------------------------------------------------------------------
(* Sequences                                                               *)

\* A set with the empty sequence and every extension of a sequence of its own
\* by one element has every sequence.
LEMMA SeqInd ==
    ASSUME NEW T, NEW P, <<>> \in P,
           \A q \in Seq(T), x \in T : q \in P => Append(q, x) \in P
    PROVE  \A q \in Seq(T) : q \in P
<1> DEFINE S == {n \in Nat : \A q \in Seq(T) : Len(q) = n => q \in P}
<1>1. 0 \in S
  <2> SUFFICES ASSUME NEW q \in Seq(T), Len(q) = 0 PROVE q \in P
    OBVIOUS
  <2>1. q = <<>>
    OBVIOUS
  <2> QED
    BY <2>1
<1>2. ASSUME NEW n \in Nat, n \in S PROVE n + 1 \in S
  <2> SUFFICES ASSUME NEW q \in Seq(T), Len(q) = n + 1 PROVE q \in P
    OBVIOUS
  <2> DEFINE front == SubSeq(q, 1, n)
             last == q[n + 1]
  <2>1. front \in Seq(T) /\ Len(front) = n /\ last \in T
    OBVIOUS
  <2>2. q = Append(front, last)
    OBVIOUS
  <2>3. front \in P
    BY <1>2, <2>1, Zenon
  <2> HIDE DEF front, last
  <2> QED
    BY <2>1, <2>2, <2>3
<1> HIDE DEF S
<1>3. \A n \in Nat : n \in S
  BY <1>1, <1>2, NatInd
<1> QED
  BY <1>3 DEF S

\* The recursive function of Only obeys its equation.
LEMMA OnlyLoop ==
    ASSUME NEW T, NEW q \in Seq(T), NEW S
    PROVE  \E part \in [0 .. Len(q) -> Seq(T)] :
              /\ part[0] = <<>>
              /\ \A k \in 1 .. Len(q) :
                    part[k] = IF q[k] \in S THEN Append(part[k - 1], q[k]) ELSE part[k - 1]
              /\ Only(q, S) = part[Len(q)]
<1> DEFINE n == Len(q)
           D == Seq(T)
           e == <<>>
           F == [p \in Nat \X D |-> IF p[1] \in 1 .. n /\ q[p[1]] \in S
                                    THEN Append(p[2], q[p[1]]) ELSE p[2]]
           Turn(g, k) == IF q[k] \in S THEN Append(g[k - 1], q[k]) ELSE g[k - 1]
           B(g) == [k \in 0 .. n |-> IF k = 0 THEN e ELSE Turn(g, k)]
           part == CHOOSE g : g = B(g)
<1>1. F \in [Nat \X D -> D]
  OBVIOUS
<1>2. e \in D /\ n \in Nat
  OBVIOUS
<1>3. PICK g : IsLoop(g, D, F, e, n)
  <2> HIDE DEF F, D, e, n
  <2> QED
    BY <1>1, <1>2, LoopExists, Zenon
<1>4. g \in [0 .. n -> D] /\ g[0] = e /\ \A k \in 1 .. n : g[k] = F[<<k, g[k - 1]>>]
  BY <1>3, Zenon DEF IsLoop
<1>5. ASSUME NEW k \in 1 .. n PROVE g[k] = Turn(g, k)
  <2> HIDE DEF D, n
  <2>1. k - 1 \in 0 .. n /\ k \in Nat
    BY <1>2
  <2>2. g[k - 1] \in D
    BY <1>4, <2>1
  <2> DEFINE x == <<k, g[k - 1]>>
  <2>3. x \in Nat \X D /\ x[1] = k /\ x[2] = g[k - 1]
    BY <2>1, <2>2
  <2> HIDE DEF x
  <2>4. F[x] = Turn(g, k)
    BY <2>3
  <2> QED
    BY <1>4, <2>4, Zenon DEF x
<1>6. ASSUME NEW h
      PROVE  /\ DOMAIN B(h) = 0 .. n /\ B(h) = [k \in 0 .. n |-> B(h)[k]]
             /\ B(h)[0] = e /\ \A k \in 1 .. n : B(h)[k] = Turn(h, k)
  <2> HIDE DEF n, e, Turn
  <2> QED
    BY <1>2
<1>7. Only(q, S) = part[n]
  BY DEF Only
<1> HIDE DEF n, D, e, B, Turn
<1>8. part = B(part)
  <2>1. g = [k \in 0 .. n |-> g[k]]
    BY <1>4
  <2>2. \A k \in 0 .. n : g[k] = B(g)[k]
    BY <1>2, <1>4, <1>5, <1>6
  <2>3. g = B(g)
    BY <1>6, <2>1, <2>2, Zenon
  <2> QED
    BY <2>3
<1> HIDE DEF part
<1>9. /\ DOMAIN part = 0 .. n /\ part = [k \in 0 .. n |-> part[k]]
      /\ part[0] = e /\ \A k \in 1 .. n : part[k] = Turn(part, k)
  BY <1>6, <1>8
<1>10. \A k \in 0 .. n : part[k] \in D
  <2> DEFINE I == {k \in 0 .. n : part[k] \in D}
  <2>1. 0 \in I
    BY <1>2, <1>9
  <2>2. ASSUME NEW k \in 1 .. n, k - 1 \in I PROVE k \in I
    <3>1. part[k - 1] \in D /\ q[k] \in T
      BY <2>2 DEF n
    <3>2. Turn(part, k) \in D
      BY <3>1 DEF Turn, D
    <3> QED
      BY <1>9, <3>2
  <2> HIDE DEF I
  <2>3. \A k \in 0 .. n : k \in I
    BY <1>2, <2>1, <2>2, RangeInd
  <2> QED
    BY <2>3 DEF I
<1>11. part \in [0 .. n -> D]
  BY <1>9, <1>10
<1> QED
  BY <1>7, <1>9, <1>11, Zenon DEF n, D, e, Turn

LEMMA OnlyEmpty ==
    ASSUME NEW S
    PROVE  Only(<<>>, S) = <<>>
<1>1. ASSUME NEW T, NEW q \in Seq(T), Len(q) = 0
      PROVE  Only(q, S) = <<>>
  <2>1. PICK part : part[0] = <<>> /\ Only(q, S) = part[Len(q)]
    BY OnlyLoop
  <2> QED
    BY <1>1, <2>1
<1>2. <<>> \in Seq({0}) /\ Len(<<>>) = 0
  OBVIOUS
<1> QED
  BY <1>1, <1>2, Zenon

LEMMA OnlyAppend ==
    ASSUME NEW T, NEW q \in Seq(T), NEW x \in T, NEW S
    PROVE  Only(Append(q, x), S) = IF x \in S THEN Append(Only(q, S), x) ELSE Only(q, S)
<1> DEFINE r == Append(q, x)
           n == Len(q)
<1>1. r \in Seq(T) /\ Len(r) = n + 1 /\ n \in Nat /\ r[n + 1] = x /\ \A k \in 1 .. n : r[k] = q[k]
  OBVIOUS
<1> HIDE DEF r
<1>2. PICK f : /\ f[0] = <<>>
               /\ \A k \in 1 .. n : f[k] = IF q[k] \in S THEN Append(f[k - 1], q[k]) ELSE f[k - 1]
               /\ Only(q, S) = f[n]
  BY OnlyLoop
<1>3. PICK g : /\ g[0] = <<>>
               /\ \A k \in 1 .. Len(r) :
                     g[k] = IF r[k] \in S THEN Append(g[k - 1], r[k]) ELSE g[k - 1]
               /\ Only(r, S) = g[Len(r)]
  BY <1>1, OnlyLoop
<1>4. \A k \in 0 .. n : f[k] = g[k]
  <2> DEFINE I == {k \in 0 .. n : f[k] = g[k]}
  <2>1. 0 \in I
    BY <1>1, <1>2, <1>3
  <2>2. ASSUME NEW k \in 1 .. n, k - 1 \in I PROVE k \in I
    BY <1>1, <1>2, <1>3, <2>2
  <2> HIDE DEF I
  <2>3. \A k \in 0 .. n : k \in I
    BY <1>1, <2>1, <2>2, RangeInd, Zenon
  <2> QED
    BY <2>3 DEF I
<1>5. g[n + 1] = IF x \in S THEN Append(g[n], x) ELSE g[n]
  BY <1>1, <1>3
<1> QED
  BY <1>1, <1>2, <1>3, <1>4, <1>5 DEF r

\* What is selected is in the sequence and in the set.
FromSeq(o, q) == \A k \in 1 .. Len(o) : \E i \in 1 .. Len(q) : o[k] = q[i]

LEMMA OnlyType ==
    ASSUME NEW T, NEW q \in Seq(T), NEW S
    PROVE  /\ Only(q, S) \in Seq(T \cap S)
           /\ Len(Only(q, S)) <= Len(q)
           /\ FromSeq(Only(q, S), q)
<1> DEFINE P == {p \in Seq(T) :
                   /\ Only(p, S) \in Seq(T \cap S)
                   /\ Len(Only(p, S)) <= Len(p)
                   /\ \A k \in 1 .. Len(Only(p, S)) : \E i \in 1 .. Len(p) : Only(p, S)[k] = p[i]}
<1>1. <<>> \in P
  <2> DEFINE e == <<>>
             o == Only(e, S)
  <2>1. e \in Seq(T) /\ e \in Seq(T \cap S) /\ Len(e) = 0
    OBVIOUS
  <2>2. o = e
    BY OnlyEmpty
  <2> HIDE DEF e, o
  <2>3. o \in Seq(T \cap S) /\ Len(o) <= Len(e) /\ 1 .. Len(o) = {}
    BY <2>1, <2>2
  <2> QED
    BY <2>1, <2>3 DEF e, o
<1>2. ASSUME NEW p \in Seq(T), NEW x \in T, p \in P PROVE Append(p, x) \in P
  <2> DEFINE o == Only(p, S)
             u == Append(p, x)
             w == Only(u, S)
  <2>1. w = IF x \in S THEN Append(o, x) ELSE o
    BY OnlyAppend
  <2>2. /\ o \in Seq(T \cap S) /\ Len(o) <= Len(p)
        /\ \A k \in 1 .. Len(o) : \E i \in 1 .. Len(p) : o[k] = p[i]
    BY <1>2
  <2>3. /\ u \in Seq(T) /\ Len(u) = Len(p) + 1 /\ u[Len(p) + 1] = x
        /\ \A i \in 1 .. Len(p) : u[i] = p[i]
    OBVIOUS
  <2> HIDE DEF o, u, w
  <2>4. w \in Seq(T \cap S) /\ Len(w) <= Len(u)
    BY <2>1, <2>2, <2>3
  <2>5. \A k \in 1 .. Len(o) : \E i \in 1 .. Len(u) : o[k] = u[i]
    BY <2>2, <2>3
  <2>6. ASSUME NEW k \in 1 .. Len(w) PROVE \E i \in 1 .. Len(u) : w[k] = u[i]
    <3>1. CASE x \in S /\ k = Len(o) + 1
      <4>1. w[k] = x /\ Len(p) + 1 \in 1 .. Len(u)
        BY <2>1, <2>2, <2>3, <3>1
      <4> QED
        BY <2>3, <4>1
    <3>2. CASE ~(x \in S /\ k = Len(o) + 1)
      <4>1. k \in 1 .. Len(o) /\ w[k] = o[k]
        BY <2>1, <2>2, <3>2
      <4> QED
        BY <2>5, <4>1
    <3> QED
      BY <3>1, <3>2
  <2> QED
    BY <2>3, <2>4, <2>6, Zenon DEF u, w
<1> HIDE DEF P
<1>3. q \in P
  BY <1>1, <1>2, SeqInd
<1> QED
  BY <1>3 DEF P, FromSeq

LEMMA OnlyFrom ==
    ASSUME NEW T, NEW q \in Seq(T), NEW S, NEW k \in 1 .. Len(Only(q, S))
    PROVE  \E i \in 1 .. Len(q) : Only(q, S)[k] = q[i]
<1>1. FromSeq(Only(q, S), q)
  BY OnlyType, Zenon
<1> QED
  BY <1>1 DEF FromSeq

LEMMA OnlySame ==
    ASSUME NEW T, NEW q \in Seq(T), NEW S, NEW R, \A x \in T : x \in S <=> x \in R
    PROVE  Only(q, S) = Only(q, R)
<1> DEFINE P == {p \in Seq(T) : Only(p, S) = Only(p, R)}
<1>1. <<>> \in P
  BY OnlyEmpty
<1>2. ASSUME NEW p \in Seq(T), NEW x \in T, p \in P PROVE Append(p, x) \in P
  <2>1. /\ Only(Append(p, x), S) = IF x \in S THEN Append(Only(p, S), x) ELSE Only(p, S)
        /\ Only(Append(p, x), R) = IF x \in R THEN Append(Only(p, R), x) ELSE Only(p, R)
    BY OnlyAppend
  <2>2. Only(p, S) = Only(p, R) /\ Append(p, x) \in Seq(T)
    BY <1>2
  <2>3. Only(Append(p, x), S) = Only(Append(p, x), R)
    <3>1. x \in S <=> x \in R
      OBVIOUS
    <3> QED
      BY <2>1, <2>2, <3>1, Zenon
  <2> QED
    BY <2>2, <2>3
<1> HIDE DEF P
<1>3. q \in P
  BY <1>1, <1>2, SeqInd
<1> QED
  BY <1>3 DEF P

LEMMA OnlyAll ==
    ASSUME NEW T, NEW q \in Seq(T), NEW S, T \subseteq S
    PROVE  Only(q, S) = q
<1> DEFINE P == {p \in Seq(T) : Only(p, S) = p}
<1>1. <<>> \in P
  BY OnlyEmpty
<1>2. ASSUME NEW p \in Seq(T), NEW x \in T, p \in P PROVE Append(p, x) \in P
  <2>1. Only(Append(p, x), S) = Append(Only(p, S), x)
    BY OnlyAppend
  <2>2. Only(p, S) = p /\ Append(p, x) \in Seq(T)
    BY <1>2
  <2> QED
    BY <2>1, <2>2
<1> HIDE DEF P
<1>3. q \in P
  BY <1>1, <1>2, SeqInd
<1> QED
  BY <1>3 DEF P

LEMMA OnlyNone ==
    ASSUME NEW T, NEW q \in Seq(T), NEW S, T \cap S = {}
    PROVE  Only(q, S) = <<>>
<1> DEFINE P == {p \in Seq(T) : Only(p, S) = <<>>}
<1>1. <<>> \in P
  BY OnlyEmpty
<1>2. ASSUME NEW p \in Seq(T), NEW x \in T, p \in P PROVE Append(p, x) \in P
  <2>1. Only(Append(p, x), S) = Only(p, S)
    BY OnlyAppend
  <2> QED
    BY <1>2, <2>1
<1> HIDE DEF P
<1>3. q \in P
  BY <1>1, <1>2, SeqInd
<1> QED
  BY <1>3 DEF P

LEMMA OnlyConcat ==
    ASSUME NEW T, NEW q \in Seq(T), NEW r \in Seq(T), NEW S
    PROVE  Only(q \o r, S) = Only(q, S) \o Only(r, S)
<1> DEFINE P == {p \in Seq(T) : Only(q \o p, S) = Only(q, S) \o Only(p, S)}
           o == Only(q, S)
<1>0. o \in Seq(T \cap S)
  BY OnlyType
<1>1. <<>> \in P
  <2>1. q \o <<>> = q /\ o \o <<>> = o
    BY <1>0
  <2>2. Only(<<>>, S) = <<>>
    BY OnlyEmpty
  <2>3. <<>> \in Seq(T)
    OBVIOUS
  <2> QED
    BY <2>1, <2>2, <2>3, Zenon
<1>2. ASSUME NEW p \in Seq(T), NEW x \in T, p \in P PROVE Append(p, x) \in P
  <2> DEFINE u == q \o p
             w == Only(p, S)
  <2>1. u \in Seq(T) /\ q \o Append(p, x) = Append(u, x)
    OBVIOUS
  <2>2. w \in Seq(T \cap S)
    BY OnlyType
  <2>3. Only(u, S) = o \o w
    BY <1>2
  <2> HIDE DEF u, w, o
  <2>4. /\ Only(Append(u, x), S) = IF x \in S THEN Append(Only(u, S), x) ELSE Only(u, S)
        /\ Only(Append(p, x), S) = IF x \in S THEN Append(w, x) ELSE w
    BY <2>1, OnlyAppend, Zenon DEF w
  <2>5. x \in S => o \o Append(w, x) = Append(o \o w, x)
    BY <1>0, <2>2
  <2>6. Only(Append(u, x), S) = o \o Only(Append(p, x), S)
    BY <2>3, <2>4, <2>5, Zenon
  <2>7. Append(p, x) \in Seq(T)
    OBVIOUS
  <2> QED
    BY <2>1, <2>6, <2>7, Zenon DEF o
<1> HIDE DEF P
<1>3. r \in P
  BY <1>1, <1>2, SeqInd
<1> QED
  BY <1>3 DEF P

LEMMA OnlyOnly ==
    ASSUME NEW T, NEW q \in Seq(T), NEW S, NEW R
    PROVE  Only(Only(q, S), R) = Only(q, S \cap R)
<1> DEFINE P == {p \in Seq(T) : Only(Only(p, S), R) = Only(p, S \cap R)}
<1>1. <<>> \in P
  BY OnlyEmpty
<1>2. ASSUME NEW p \in Seq(T), NEW x \in T, p \in P PROVE Append(p, x) \in P
  <2> DEFINE o == Only(p, S)
  <2>1. o \in Seq(T \cap S)
    BY OnlyType
  <2>2. o \in Seq(T)
    BY <2>1
  <2> HIDE DEF o
  <2>3. /\ Only(Append(p, x), S) = IF x \in S THEN Append(o, x) ELSE o
        /\ Only(Append(p, x), S \cap R)
             = IF x \in S \cap R THEN Append(Only(p, S \cap R), x) ELSE Only(p, S \cap R)
    BY OnlyAppend DEF o
  <2>4. Only(Append(o, x), R) = IF x \in R THEN Append(Only(o, R), x) ELSE Only(o, R)
    BY <2>2, OnlyAppend
  <2>5. Only(o, R) = Only(p, S \cap R)
    BY <1>2 DEF o
  <2>6. Only(Only(Append(p, x), S), R) = Only(Append(p, x), S \cap R)
    <3>1. CASE x \in S /\ x \in R
      <4>1. Only(Append(p, x), S) = Append(o, x)
        BY <2>3, <3>1
      <4>2. Only(Append(p, x), S \cap R) = Append(Only(o, R), x)
        BY <2>3, <2>5, <3>1, Zenon
      <4>3. Only(Append(o, x), R) = Append(Only(o, R), x)
        BY <2>4, <3>1
      <4> QED
        BY <4>1, <4>2, <4>3, Zenon
    <3>2. CASE ~(x \in S /\ x \in R)
      <4>1. Only(Append(p, x), S \cap R) = Only(o, R)
        BY <2>3, <2>5, <3>2
      <4>2. Only(Append(o, x), R) = Only(o, R) \/ Only(Append(p, x), S) = o
        BY <2>3, <2>4, <3>2
      <4>3. Only(Append(p, x), S) = o \/ Only(Append(p, x), S) = Append(o, x)
        BY <2>3
      <4> QED
        BY <4>1, <4>2, <4>3, Zenon
    <3> QED
      BY <3>1, <3>2
  <2>7. Append(p, x) \in Seq(T)
    OBVIOUS
  <2> QED
    BY <2>6, <2>7
<1> HIDE DEF P
<1>3. q \in P
  BY <1>1, <1>2, SeqInd
<1> QED
  BY <1>3 DEF P
-----------------------------------------------------------------------------
(* Wrapping integers                                                       *)

USE WrapModAssumption

\* Division with remainder, for every positive modulus.
LEMMA DivMod ==
    ASSUME NEW x \in Int, NEW m \in Nat \ {0}
    PROVE  /\ x % m \in 0 .. (m - 1)
           /\ x \div m \in Int
           /\ x = (x \div m) * m + (x % m)
  BY SMT

\* Multiplication by a positive number is monotone.
LEMMA MultMono ==
    ASSUME NEW m \in Nat \ {0}, NEW a \in Int, NEW b \in Int, a <= b
    PROVE  a * m <= b * m
  BY SMT

\* The remainder is the only one: a number of the form q * m + r leaves r.
LEMMA ModUnique ==
    ASSUME NEW m \in Nat \ {0}, NEW q \in Int, NEW r \in 0 .. (m - 1)
    PROVE  (q * m + r) % m = r
  BY SMT

\* Non-negative numbers have non-negative quotients.
LEMMA DivNat ==
    ASSUME NEW x \in Nat, NEW m \in Nat \ {0}
    PROVE  x \div m \in Nat
<1>1. SUFFICES ASSUME x \div m < 0 PROVE FALSE
  BY DivMod
<1>2. (x \div m) * m <= (-1) * m
  BY <1>1, DivMod, MultMono
<1> QED
  BY <1>2, DivMod

\* What wrap puts on the wire, unwrap's offset computation recovers: the
\* position of the absolute number within its cycle.
LEMMA OffsetOfWrap ==
    ASSUME NEW x \in Nat, NEW i \in WrappingInt32
    PROVE  /\ wrap(x, i) \in WrappingInt32
           /\ Offset(wrap(x, i), i) = x % WRAP_MOD
<1> DEFINE o == x % WRAP_MOD
           w == wrap(x, i)
<1>1. o \in 0 .. (WRAP_MOD - 1) /\ i \in 0 .. (WRAP_MOD - 1)
  BY DivMod DEF WrappingInt32
<1>2. w = (i + o) % WRAP_MOD
  BY DEF wrap, Plus
<1> HIDE DEF o, w
<1>3. w = i + o \/ w = i + o - WRAP_MOD
  <2>1. CASE i + o < WRAP_MOD
    <3>1. i + o \in 0 .. (WRAP_MOD - 1)
      BY <1>1, <2>1
    <3>2. (0 * WRAP_MOD + (i + o)) % WRAP_MOD = i + o
      BY <3>1, ModUnique
    <3> QED  BY <1>1, <1>2, <3>2
  <2>2. CASE i + o >= WRAP_MOD
    <3>1. i + o - WRAP_MOD \in 0 .. (WRAP_MOD - 1)
      BY <1>1, <2>2
    <3>2. (1 * WRAP_MOD + (i + o - WRAP_MOD)) % WRAP_MOD = i + o - WRAP_MOD
      BY <3>1, ModUnique
    <3> QED  BY <1>1, <1>2, <3>2
  <2> QED  BY <1>1, <2>1, <2>2
<1>4. w \in WrappingInt32
  BY <1>1, <1>2, DivMod DEF WrappingInt32
<1>5. (w - i) % WRAP_MOD = o
  <2>1. CASE w = i + o
    <3>1. (0 * WRAP_MOD + o) % WRAP_MOD = o
      BY <1>1, ModUnique
    <3> QED  BY <1>1, <2>1, <3>1
  <2>2. CASE w = i + o - WRAP_MOD
    <3>1. ((-1) * WRAP_MOD + o) % WRAP_MOD = o
      BY <1>1, ModUnique
    <3> QED  BY <1>1, <2>2, <3>1
  <2> QED  BY <1>3, <2>1, <2>2
<1> QED
  BY <1>4, <1>5 DEF Offset, Minus, o, w

\* The absolute number of cycle k at offset o.
At(k, o) == k * WRAP_MOD + o

\* unwrap returns a number of some cycle at the right offset, and no cycle
\* holds a closer one.
LEMMA UnwrapIsClosest ==
    ASSUME NEW n \in WrappingInt32, NEW i \in WrappingInt32, NEW c \in Nat,
           NEW o \in 0 .. (WRAP_MOD - 1), Offset(n, i) = o
    PROVE  \E j \in Nat :
              /\ unwrap(n, i, c) = At(j, o)
              /\ \A k \in Nat : Distance(At(j, o), c) <= Distance(At(k, o), c)
<1> DEFINE q == c \div WRAP_MOD
           r == c % WRAP_MOD
<1>1. q \in Nat /\ r \in 0 .. (WRAP_MOD - 1) /\ c = At(q, r)
  <2>1. q \in Nat
    BY DivNat
  <2>2. r \in 0 .. (WRAP_MOD - 1) /\ c = q * WRAP_MOD + r
    BY DivMod
  <2> QED  BY <2>1, <2>2 DEF At
<1>2. BaseCandidate(n, i, c) = At(q, o)
  BY DEF BaseCandidate, At
<1>3. NextCandidate(n, i, c) = At(q + 1, o)
  BY DEF NextCandidate, At
<1>4. PrevCandidate(n, i, c) = At(IF q > 0 THEN q - 1 ELSE 0, o)
  BY <1>1 DEF PrevCandidate, At
<1> DEFINE p == IF q > 0 THEN q - 1 ELSE 0
<1>5. /\ p \in Nat
      /\ At(p, o) \in Nat /\ At(q, o) \in Nat /\ At(q + 1, o) \in Nat
      /\ At(q + 1, o) = At(q, o) + WRAP_MOD
      /\ q > 0 => At(p, o) = At(q, o) - WRAP_MOD
      /\ At(q, o) = At(q, r) + o - r
  BY <1>1 DEF At
<1> HIDE DEF q, r, p
<1>6. ASSUME NEW k \in Nat
      PROVE  \/ k < q /\ q > 0 /\ At(k, o) <= At(p, o)
             \/ k = q
             \/ k > q /\ At(k, o) >= At(q + 1, o)
  <2>0. At(k, o) \in Nat
    BY DEF At
  <2>1. CASE k < q
    <3>1. k * WRAP_MOD <= (q - 1) * WRAP_MOD
      BY <1>1, <2>1, MultMono
    <3> QED  BY <1>1, <2>1, <3>1 DEF At, p
  <2>2. CASE k > q
    <3>1. (q + 1) * WRAP_MOD <= k * WRAP_MOD
      BY <1>1, <2>2, MultMono
    <3> QED  BY <1>1, <2>2, <3>1 DEF At
  <2> QED  BY <1>1, <2>1, <2>2
<1>7. ASSUME NEW k \in Nat
      PROVE  /\ At(k, o) \in Nat
             /\ \/ Distance(At(p, o), c) <= Distance(At(k, o), c)
                \/ Distance(At(q, o), c) <= Distance(At(k, o), c)
                \/ Distance(At(q + 1, o), c) <= Distance(At(k, o), c)
  <2>1. At(k, o) \in Nat
    BY DEF At
  <2> QED
    BY <1>1, <1>5, <1>6, <2>1 DEF Distance
<1>8. \E j \in {p, q, q + 1} :
         /\ unwrap(n, i, c) = At(j, o)
         /\ Distance(At(j, o), c) <= Distance(At(p, o), c)
         /\ Distance(At(j, o), c) <= Distance(At(q, o), c)
         /\ Distance(At(j, o), c) <= Distance(At(q + 1, o), c)
  BY <1>1, <1>2, <1>3, <1>4, <1>5 DEF unwrap, Distance, p
<1>9. PICK j \in {p, q, q + 1} :
         /\ unwrap(n, i, c) = At(j, o)
         /\ Distance(At(j, o), c) <= Distance(At(p, o), c)
         /\ Distance(At(j, o), c) <= Distance(At(q, o), c)
         /\ Distance(At(j, o), c) <= Distance(At(q + 1, o), c)
  BY <1>8
<1>10. j \in Nat /\ At(j, o) \in Nat
  BY <1>1, <1>5
<1>11. ASSUME NEW k \in Nat
       PROVE  Distance(At(j, o), c) <= Distance(At(k, o), c)
  BY <1>5, <1>7, <1>9, <1>10 DEF Distance
<1> QED
  BY <1>9, <1>10, <1>11

\* Two numbers at the same offset that are less than a cycle apart are equal.
LEMMA SameOffset ==
    ASSUME NEW o \in 0 .. (WRAP_MOD - 1), NEW j \in Nat, NEW k \in Nat,
           Distance(At(j, o), At(k, o)) < WRAP_MOD
    PROVE  j = k
<1>0. At(j, o) \in Nat /\ At(k, o) \in Nat
  BY DEF At
<1>1. CASE j < k
  <2>1. (j + 1) * WRAP_MOD <= k * WRAP_MOD
    BY <1>1, MultMono
  <2> QED  BY <1>0, <2>1 DEF At, Distance
<1>2. CASE k < j
  <2>1. (k + 1) * WRAP_MOD <= j * WRAP_MOD
    BY <1>2, MultMono
  <2> QED  BY <1>0, <2>1 DEF At, Distance
<1> QED  BY <1>1, <1>2

\* x is the number of cycle k at offset o; sent with ISN i and read against
\* checkpoint c it is taken for the one of cycle j, the closest there is.
Reads(x, i, c, o, j, k) ==
    /\ x = At(k, o)
    /\ unwrap(wrap(x, i), i, c) = At(j, o)
    /\ At(j, o) \in Nat
    /\ wrap(At(j, o), i) = wrap(x, i)
    /\ Offset(wrap(x, i), i) = o
    /\ \A l \in Nat : Distance(At(j, o), c) <= Distance(At(l, o), c)

\* Every number, ISN and checkpoint has such an offset and such cycles.
LEMMA ReadsClosest ==
    ASSUME NEW x \in Nat, NEW i \in WrappingInt32, NEW c \in Nat
    PROVE  \E o \in 0 .. (WRAP_MOD - 1), j \in Nat, k \in Nat : Reads(x, i, c, o, j, k)
<1> DEFINE o == x % WRAP_MOD
           k == x \div WRAP_MOD
<1>1. o \in 0 .. (WRAP_MOD - 1) /\ k \in Nat /\ x = At(k, o)
  <2>1. k \in Nat
    BY DivNat
  <2>2. o \in 0 .. (WRAP_MOD - 1) /\ x = k * WRAP_MOD + o
    BY DivMod
  <2> QED  BY <2>1, <2>2 DEF At
<1>2. wrap(x, i) \in WrappingInt32 /\ Offset(wrap(x, i), i) = o
  BY OffsetOfWrap
<1>3. wrap(x, i) = Plus(i, o)
  BY DEF wrap
<1> HIDE DEF o, k
<1>4. PICK j \in Nat :
         /\ unwrap(wrap(x, i), i, c) = At(j, o)
         /\ \A l \in Nat : Distance(At(j, o), c) <= Distance(At(l, o), c)
  BY <1>1, <1>2, UnwrapIsClosest
<1>5. At(j, o) \in Nat
  BY <1>1 DEF At
<1>6. At(j, o) % WRAP_MOD = o
  BY <1>1, ModUnique DEF At
<1>7. wrap(At(j, o), i) = wrap(x, i)
  BY <1>3, <1>6 DEF wrap
<1> QED
  BY <1>1, <1>2, <1>4, <1>5, <1>7 DEF Reads

\* unwrap returns an absolute number.
LEMMA UnwrapNat ==
    ASSUME NEW x \in Nat, NEW i \in WrappingInt32, NEW c \in Nat
    PROVE  unwrap(wrap(x, i), i, c) \in Nat
<1>1. PICK o \in 0 .. (WRAP_MOD - 1), j \in Nat, k \in Nat : Reads(x, i, c, o, j, k)
  BY ReadsClosest, Zenon
<1> QED
  BY <1>1 DEF Reads

\* A number less than half the space from the checkpoint is read back exactly.
LEMMA UnwrapExact ==
    ASSUME NEW x \in Nat, NEW i \in WrappingInt32, NEW c \in Nat,
           2 * Distance(x, c) < WRAP_MOD
    PROVE  unwrap(wrap(x, i), i, c) = x
<1>1. PICK o \in 0 .. (WRAP_MOD - 1), j \in Nat, k \in Nat : Reads(x, i, c, o, j, k)
  BY ReadsClosest, Zenon
<1>2. Distance(At(j, o), c) <= Distance(At(k, o), c)
  BY <1>1 DEF Reads
<1>3. Distance(At(j, o), At(k, o)) < WRAP_MOD
  BY <1>1, <1>2 DEF Distance, Reads
<1>4. j = k
  BY <1>3, SameOffset
<1> QED
  BY <1>1, <1>4 DEF Reads
-----------------------------------------------------------------------------
(* Byte streams                                                            *)

\* A stream whose byte number i is i itself, all of whose bytes that are not read
\* are in the buffer.
Holds(b) ==
    /\ b.bytes_written = b.bytes_read + Len(b.buffer)
    /\ \A k \in 1 .. Len(b.buffer) : b.buffer[k] = b.bytes_read + k - 1

\* What read does to a stream: the first bytes of the buffer, as many as there
\* are, leave it.
ReadBy(b, c, k) ==
    /\ k <= Len(b.buffer)
    /\ c.buffer = SubSeq(b.buffer, k + 1, Len(b.buffer))
    /\ c.bytes_read = b.bytes_read + k
    /\ c.bytes_written = b.bytes_written /\ c.input_ended = b.input_ended
    /\ c \in StreamType(Nat, Nat)

LEMMA ReadStream ==
    ASSUME NEW b \in StreamType(Nat, Nat), NEW len \in Nat
    PROVE  /\ peek_output(b, len) \in Seq(Nat)
           /\ peek_output(b, len) = SubSeq(b.buffer, 1, Len(peek_output(b, len)))
           /\ Len(peek_output(b, len)) = MinOf(len, Len(b.buffer))
           /\ ReadBy(b, read(b, len), Len(peek_output(b, len)))
<1> DEFINE k == MinOf(len, Len(b.buffer))
           p == peek_output(b, len)
<1>1. b.buffer \in Seq(Nat) /\ b.bytes_read \in Nat /\ Len(b.buffer) \in Nat
  BY DEF StreamType
<1>2. k \in Nat /\ k <= Len(b.buffer) /\ k <= len
  BY <1>1 DEF MinOf
<1>3. p = SubSeq(b.buffer, 1, k)
  BY DEF peek_output, buffer_size
<1> HIDE DEF p
<1>4. p \in Seq(Nat) /\ Len(p) = k
  BY <1>1, <1>2, <1>3
<1>5. read(b, len) = [b EXCEPT !.buffer = SubSeq(b.buffer, k + 1, Len(b.buffer)),
                               !.bytes_read = b.bytes_read + k]
  <2>1. MinOf(Len(p), Len(b.buffer)) = k
    BY <1>2, <1>4 DEF MinOf
  <2> QED
    BY <2>1 DEF read, pop_output, buffer_size, p
<1> DEFINE x == SubSeq(b.buffer, k + 1, Len(b.buffer))
           c == read(b, len)
<1>6. x \in Seq(Nat) /\ b.bytes_read + k \in Nat
  BY <1>1, <1>2
<1> HIDE DEF k, x, c
<1>7. ReadBy(b, c, k)
  <2>1. c = [b EXCEPT !.buffer = x, !.bytes_read = b.bytes_read + k]
    BY <1>5 DEF x, c
  <2>2. /\ c.buffer = x /\ c.bytes_read = b.bytes_read + k
        /\ c.bytes_written = b.bytes_written /\ c.input_ended = b.input_ended
        /\ c \in StreamType(Nat, Nat)
    BY Zenon, <1>6, <2>1 DEF StreamType
  <2> QED
    BY <1>2, <2>2 DEF ReadBy, x
<1> QED
  BY <1>3, <1>4, <1>7 DEF k, p, c

\* The bytes that stay are in place.
LEMMA ReadHolds ==
    ASSUME NEW b \in StreamType(Nat, Nat), NEW c, NEW k \in Nat, Holds(b), ReadBy(b, c, k)
    PROVE  Holds(c) /\ Len(c.buffer) = Len(b.buffer) - k
<1>1. b.buffer \in Seq(Nat) /\ b.bytes_read \in Nat /\ b.bytes_written \in Nat
  BY DEF StreamType
<1>2. Len(c.buffer) = Len(b.buffer) - k
  BY <1>1 DEF ReadBy
<1>3. ASSUME NEW i \in 1 .. Len(c.buffer)
      PROVE  c.buffer[i] = c.bytes_read + i - 1
  <2>1. c.buffer[i] = b.buffer[k + i] /\ k + i \in 1 .. Len(b.buffer)
    BY <1>1, <1>2 DEF ReadBy
  <2> QED
    BY <1>1, <2>1 DEF Holds, ReadBy
<1>4. c.bytes_written = c.bytes_read + Len(c.buffer)
  <2>1. /\ c.bytes_written = b.bytes_written /\ c.bytes_read = b.bytes_read + k
        /\ b.bytes_written = b.bytes_read + Len(b.buffer)
    BY DEF Holds, ReadBy
  <2> QED
    BY <1>1, <1>2, <2>1
<1> QED
  BY <1>2, <1>3, <1>4 DEF Holds

LEMMA AcceptedBound ==
    ASSUME NEW b \in StreamType(Nat, Nat), NEW len \in Nat
    PROVE  Accepted(b, len) \in Nat /\ Accepted(b, len) <= len
<1> DEFINE L == Len(b.buffer)
           d == b.capacity
<1>1. L \in Nat /\ d \in Nat
  BY DEF StreamType
<1>2. Accepted(b, len) = IF L >= d THEN 0 ELSE MinOf(len, d - L)
  BY DEF Accepted, remaining_capacity, buffer_size
<1> HIDE DEF L, d
<1> QED
  BY <1>1, <1>2 DEF MinOf

LEMMA FrontOf ==
    ASSUME NEW q \in Seq(Nat), NEW k \in 0 .. Len(q)
    PROVE  /\ SubSeq(q, 1, k) \in Seq(Nat) /\ Len(SubSeq(q, 1, k)) = k
           /\ \A i \in 1 .. k : SubSeq(q, 1, k)[i] = q[i]
  OBVIOUS

LEMMA JoinOf ==
    ASSUME NEW p \in Seq(Nat), NEW q \in Seq(Nat), NEW L, NEW k, L = Len(p), k = Len(q)
    PROVE  /\ p \o q \in Seq(Nat) /\ Len(p \o q) = L + k
           /\ \A i \in 1 .. L : (p \o q)[i] = p[i]
           /\ \A i \in L + 1 .. L + k : (p \o q)[i] = q[i - L]
  OBVIOUS


LEMMA Regroup ==
    ASSUME NEW a \in Int, NEW b \in Int, NEW c \in Int
    PROVE  (a + b) + c = a + (b + c) /\ (a + b) + (c - b) - 1 = a + c - 1
  OBVIOUS

\* What write does to a stream: k bytes are added at the end of the buffer.
Wrote(b, c, k) ==
    /\ c \in StreamType(Nat, Nat)
    /\ Len(c.buffer) = Len(b.buffer) + k
    /\ c.bytes_written = b.bytes_written + k
    /\ c.bytes_read = b.bytes_read /\ c.input_ended = b.input_ended
    /\ c.capacity = b.capacity

\* The next bytes of the stream are written in their places.
LEMMA WriteHolds ==
    ASSUME NEW b \in StreamType(Nat, Nat), Holds(b), NEW data \in Seq(Nat),
           NEW len, len = Len(data), \A i \in 1 .. len : data[i] = b.bytes_written + i - 1,
           NEW c, c = write(b, data)
    PROVE  Wrote(b, c, Accepted(b, len)) /\ Holds(c)
<1> DEFINE k == Accepted(b, len)
           part == SubSeq(data, 1, k)
           L == Len(b.buffer)
           q == b.buffer
           x == q \o part
           w == b.bytes_written
           n == w + k
<1>1. /\ q \in Seq(Nat) /\ L \in Nat /\ L = Len(q) /\ len \in Nat
      /\ b.bytes_read \in Nat /\ w \in Nat
  BY DEF StreamType
<1>2. k \in Nat /\ k <= len
  BY <1>1, AcceptedBound
<1>3. c = [b EXCEPT !.buffer = x, !.bytes_written = n]
  BY DEF write
<1>4. w = b.bytes_read + L /\ \A i \in 1 .. L : q[i] = b.bytes_read + i - 1
  BY DEF Holds
<1> HIDE DEF k
<1>5. part \in Seq(Nat) /\ Len(part) = k /\ \A i \in 1 .. k : part[i] = data[i]
  <2>1. k \in 0 .. Len(data)
    BY <1>1, <1>2
  <2> QED
    BY Zenon, <2>1, FrontOf
<1> HIDE DEF part, L, q, w
<1>6. /\ x \in Seq(Nat) /\ Len(x) = L + k
      /\ \A i \in 1 .. L : x[i] = q[i]
      /\ \A i \in L + 1 .. L + k : x[i] = part[i - L]
  <2>1. q \in Seq(Nat) /\ part \in Seq(Nat) /\ L = Len(q) /\ k = Len(part)
    BY <1>1, <1>5
  <2> QED
    BY <2>1, JoinOf
<1>7. n \in Nat
  BY <1>1, <1>2
<1> HIDE DEF x, n
<1>8. /\ c \in StreamType(Nat, Nat) /\ c.buffer = x /\ c.bytes_written = n
      /\ c.bytes_read = b.bytes_read /\ c.input_ended = b.input_ended
      /\ c.capacity = b.capacity
  BY Zenon, <1>3, <1>6, <1>7 DEF StreamType
<1>9. Wrote(b, c, k)
  BY Zenon, <1>6, <1>8 DEF Wrote, n, w, L, q
<1>10. c.bytes_written = c.bytes_read + Len(c.buffer)
  <2>1. c.bytes_written = w + k /\ Len(c.buffer) = L + k /\ c.bytes_read = b.bytes_read
    BY Zenon, <1>6, <1>8 DEF n
  <2>2. b.bytes_read \in Int /\ L \in Int /\ k \in Int
    BY <1>1, <1>2
  <2>3. (b.bytes_read + L) + k = b.bytes_read + (L + k)
    BY Zenon, <2>2, Regroup
  <2> QED
    BY Zenon, <1>4, <2>1, <2>3
<1>11. ASSUME NEW i \in 1 .. L + k
       PROVE  x[i] = b.bytes_read + i - 1
  <2>0. i \in Nat /\ i >= 1 /\ i <= L + k
    BY <1>1, <1>2
  <2>1. CASE i <= L
    <3>1. i \in 1 .. L
      BY <1>1, <2>0, <2>1
    <3> QED
      BY Zenon, <1>4, <1>6, <3>1
  <2>2. CASE i > L
    <3>1. i \in L + 1 .. L + k /\ i - L \in 1 .. k /\ i - L \in 1 .. len
      BY <1>1, <1>2, <2>0, <2>2
    <3>2. x[i] = w + (i - L) - 1
      BY Zenon, <1>5, <1>6, <3>1 DEF w
    <3>3. b.bytes_read \in Int /\ L \in Int /\ i \in Int
      BY <1>1, <2>0
    <3>4. (b.bytes_read + L) + (i - L) - 1 = b.bytes_read + i - 1
      BY Zenon, <3>3, Regroup
    <3> QED
      BY Zenon, <1>4, <3>2, <3>4
  <2> QED
    BY <1>1, <2>0, <2>1, <2>2
<1>12. Holds(c)
  BY Zenon, <1>6, <1>8, <1>10, <1>11 DEF Holds
<1> QED
  BY <1>9, <1>12 DEF k
=============================================================================
