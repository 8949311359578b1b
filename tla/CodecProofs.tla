---------------------------- MODULE CodecProofs -----------------------------
(***************************************************************************)
(* Proofs about Codec, for texts of any length and buffers of any size     *)
(* that SizesAssumption allows.  What a recursion over a text computes is  *)
(* shown by the least or the greatest place where it would be wrong.       *)
(***************************************************************************)
EXTENDS Codec, SequenceTheorems, WellFoundedInduction, TLAPS

\* A set of naturals that is not empty has a least element.
LEMMA LeastExists ==
    ASSUME NEW T \in SUBSET Nat, T # {}
    PROVE  \E x \in T : \A y \in T : x =< y
<1>1. PICK x \in T : \A y \in T : <<y, x>> \notin OpToRel(<, Nat)
  BY WFMin, NatLessThanWellFounded, Zenon
<1>2. \A y \in T : ~(y < x)
  BY <1>1 DEF OpToRel
<1>3. QED
  BY <1>2

\* A set that has a place whenever it has all places before it has them all.
LEMMA Upward ==
    ASSUME NEW a \in Nat, NEW n \in Int, NEW G,
           \A i \in a .. n : (\A j \in a .. i - 1 : j \in G) => i \in G
    PROVE  \A i \in a .. n : i \in G
<1> DEFINE T == (a .. n) \ G
<1>1. SUFFICES ASSUME T # {} PROVE FALSE
  OBVIOUS
<1>2. PICK x \in T : \A y \in T : x =< y
  <2>1. T \in SUBSET Nat
    OBVIOUS
  <2>2. QED
    BY <1>1, <2>1, LeastExists
<1>3. \A j \in a .. x - 1 : j \in G
  BY <1>2
<1>4. QED
  BY <1>2, <1>3

\* The same from the end.
LEMMA Downward ==
    ASSUME NEW a \in Nat, NEW n \in Nat, NEW G,
           \A i \in a .. n : (\A j \in i + 1 .. n : j \in G) => i \in G
    PROVE  \A i \in a .. n : i \in G
<1> DEFINE T == {k \in 0 .. n : n - k >= a /\ n - k \notin G}
<1>1. SUFFICES ASSUME NEW i \in a .. n, i \notin G PROVE FALSE
  OBVIOUS
<1>2. n - i \in T
  BY <1>1
<1>3. PICK x \in T : \A y \in T : x =< y
  <2>1. T \in SUBSET Nat
    OBVIOUS
  <2>2. QED
    BY <1>2, <2>1, LeastExists
<1>4. \A j \in n - x + 1 .. n : j \in G
  <2>1. SUFFICES ASSUME NEW j \in n - x + 1 .. n, j \notin G PROVE FALSE
    OBVIOUS
  <2>2. n - j \in T /\ n - j < x
    BY <1>3, <2>1
  <2>3. QED
    BY <1>3, <2>2
<1>5. n - x \in a .. n /\ n - x \notin G
  BY <1>3
<1>6. QED
  BY <1>4, <1>5

-----------------------------------------------------------------------------
(* FlattenSeq *)

\* The fields of concatenation, for sequences over one set.
LEMMA Concat ==
    ASSUME NEW C, NEW s \in Seq(C), NEW t \in Seq(C), NEW r, r = s \o t
    PROVE  /\ r \in Seq(C) /\ Len(r) = Len(s) + Len(t)
           /\ \A i \in 1 .. Len(s) : r[i] = s[i]
           /\ \A i \in 1 .. Len(t) : r[Len(s) + i] = t[i]
           /\ Len(r) \in Nat /\ Len(s) \in Nat /\ Len(t) \in Nat
OBVIOUS

\* FlattenSeq joins the parts from the first to the last.
LEMMA FlattenIs ==
    ASSUME NEW C, NEW t \in Seq(Seq(C)), t # <<>>
    PROVE  \E f \in [1 .. Len(t) -> Seq(C)] :
               /\ f[1] = t[1] /\ \A i \in 2 .. Len(t) : f[i] = f[i - 1] \o t[i]
               /\ FlattenSeq(t) = f[Len(t)]
<1> DEFINE n == Len(t)
           At(f, i) == IF i = 1 THEN t[i] ELSE f[i - 1] \o t[i]
           Good(f, m) == f = [i \in 1 .. m |-> At(f, i)]
           flat == CHOOSE f : f = [i \in 1 .. Len(t) |-> At(f, i)]
<1>1. n \in Nat /\ n >= 1 /\ n # 0
  BY EmptySeq
<1>2. \A i \in 1 .. n : t[i] \in Seq(C)
  OBVIOUS
<1>3. FlattenSeq(t) = flat[n]
  BY <1>1, Zenon DEF FlattenSeq
<1> HIDE DEF n
<1>4. \A m \in 1 .. n : \E f : Good(f, m)
  <2> DEFINE G == {m \in 1 .. n : \E f : Good(f, m)}
  <2>1. ASSUME NEW m \in 1 .. n, \A j \in 1 .. m - 1 : j \in G PROVE m \in G
    <3>1. CASE m = 1
      <4> DEFINE g == [i \in 1 .. 1 |-> t[1]]
      <4>1. Good(g, 1)
        OBVIOUS
      <4>2. QED
        BY <3>1, <4>1
    <3>2. CASE m # 1
      <4>1. m - 1 \in 1 .. m - 1 /\ m \in Nat /\ m - 1 \in Nat
        BY <1>1, <3>2
      <4>2. m - 1 \in G
        <5> HIDE DEF G
        <5>1. QED
          BY <2>1, <4>1
      <4>3. PICK f : Good(f, m - 1)
        BY <4>2
      <4> DEFINE g == [i \in 1 .. m |-> IF i = m THEN At(f, m) ELSE f[i]]
      <4>4. \A i \in 1 .. m - 1 : f[i] = At(f, i)
        <5> HIDE DEF At
        <5>1. QED
          BY <4>3
      <4>5. (\A i \in 1 .. m - 1 : g[i] = f[i]) /\ g[m] = At(f, m)
        <5> HIDE DEF At
        <5>1. QED
          BY <4>1
      <4> HIDE DEF g
      <4>6. \A i \in 1 .. m : At(g, i) = At(f, i)
        <5>1. ASSUME NEW i \in 1 .. m, i # 1 PROVE g[i - 1] = f[i - 1]
          BY <4>1, <4>5, <5>1
        <5>2. QED
          BY <5>1
      <4>7. \A i \in 1 .. m : g[i] = At(g, i)
        <5> HIDE DEF At
        <5>1. QED
          BY <4>1, <4>4, <4>5, <4>6
      <4>8. g = [i \in 1 .. m |-> g[i]]
        BY DEF g
      <4>9. Good(g, m)
        <5> HIDE DEF At
        <5>1. QED
          BY <4>7, <4>8
      <4>10. QED
        BY <4>9
    <3>3. QED
      BY <3>1, <3>2
  <2> HIDE DEF G, Good
  <2>2. \A m \in 1 .. n : m \in G
    <3>1. 1 \in Nat /\ n \in Int
      BY <1>1
    <3>2. QED
      BY <2>1, <3>1, Upward
  <2>3. QED
    BY <2>2 DEF G
<1>5. Good(flat, n)
  <2> HIDE DEF Good
  <2>1. \E f : Good(f, n)
    BY <1>1, <1>4
  <2>2. QED
    BY <2>1, Zenon DEF n, Good
<1> HIDE DEF flat
<1>6. DOMAIN flat = 1 .. n /\ flat = [i \in 1 .. n |-> flat[i]] /\ \A i \in 1 .. n : flat[i] = At(flat, i)
  <2> HIDE DEF At
  <2>1. QED
    BY <1>5
<1>7. flat[1] = t[1] /\ \A i \in 2 .. n : flat[i] = flat[i - 1] \o t[i]
  <2>1. 1 \in 1 .. n /\ \A i \in 2 .. n : i \in 1 .. n /\ i # 1
    BY <1>1
  <2>2. QED
    BY <1>6, <2>1
<1>8. \A i \in 1 .. n : flat[i] \in Seq(C)
  <2> DEFINE G == {i \in 1 .. n : flat[i] \in Seq(C)}
  <2>1. ASSUME NEW i \in 1 .. n, \A j \in 1 .. i - 1 : j \in G PROVE i \in G
    <3>1. CASE i = 1
      BY <1>2, <1>7, <3>1
    <3>2. CASE i # 1
      <4>1. i - 1 \in 1 .. i - 1 /\ i \in 2 .. n
        BY <1>1, <3>2
      <4>2. flat[i - 1] \in Seq(C)
        BY <2>1, <4>1
      <4>3. t[i] \in Seq(C) /\ flat[i] = flat[i - 1] \o t[i]
        BY <1>2, <1>7, <4>1
      <4>4. QED
        BY <4>2, <4>3, Concat
    <3>3. QED
      BY <3>1, <3>2
  <2> HIDE DEF G
  <2>2. \A i \in 1 .. n : i \in G
    <3>1. 1 \in Nat /\ n \in Int
      BY <1>1
    <3>2. QED
      BY <2>1, <3>1, Upward
  <2>3. QED
    BY <2>2 DEF G
<1>9. flat \in [1 .. n -> Seq(C)]
  BY <1>6, <1>8
<1>10. QED
  BY <1>3, <1>7, <1>9 DEF n

\* Where each part stands in the whole.
LEMMA Parts ==
    ASSUME NEW C, NEW t \in Seq(Seq(C))
    PROVE  /\ FlattenSeq(t) \in Seq(C)
           /\ \E at \in [0 .. Len(t) -> Nat] :
                  /\ at[0] = 0 /\ at[Len(t)] = Len(FlattenSeq(t))
                  /\ \A i \in 1 .. Len(t) :
                         /\ at[i] = at[i - 1] + Len(t[i])
                         /\ \A k \in 1 .. Len(t[i]) : FlattenSeq(t)[at[i - 1] + k] = t[i][k]
<1> DEFINE n == Len(t)
<1>1. CASE t = <<>>
  <2> DEFINE at == [i \in 0 .. 0 |-> 0]
  <2>1. FlattenSeq(t) = <<>> /\ Len(t) = 0
    BY <1>1 DEF FlattenSeq
  <2>2. at \in [0 .. 0 -> Nat] /\ at[0] = 0
    OBVIOUS
  <2>3. Len(<<>>) = 0 /\ <<>> \in Seq(C)
    OBVIOUS
  <2> HIDE DEF at
  <2>4. QED
    BY <2>1, <2>2, <2>3
<1>2. CASE t # <<>>
  <2>1. PICK f \in [1 .. n -> Seq(C)] : /\ f[1] = t[1] /\ \A i \in 2 .. n : f[i] = f[i - 1] \o t[i]
                                       /\ FlattenSeq(t) = f[n]
    BY <1>2, FlattenIs
  <2> DEFINE at == [i \in 0 .. n |-> IF i = 0 THEN 0 ELSE Len(f[i])]
  <2>2. n \in Nat /\ n >= 1
    BY <1>2, EmptySeq
  <2>3. \A i \in 1 .. n : t[i] \in Seq(C) /\ f[i] \in Seq(C) /\ Len(f[i]) \in Nat /\ Len(t[i]) \in Nat
    <3>1. \A i \in 1 .. n : t[i] \in Seq(C)
      OBVIOUS
    <3>2. \A i \in 1 .. n : f[i] \in Seq(C)
      BY <2>1, Zenon
    <3>3. \A r \in Seq(C) : Len(r) \in Nat
      OBVIOUS
    <3>4. QED
      BY <3>1, <3>2, <3>3, Zenon
  <2> HIDE DEF n
  <2>4. at \in [0 .. n -> Nat] /\ at[0] = 0 /\ \A i \in 1 .. n : at[i] = Len(f[i])
    BY <2>2, <2>3
  <2> HIDE DEF at
  <2>5. ASSUME NEW i \in 1 .. n
        PROVE  at[i] = at[i - 1] + Len(t[i]) /\ \A k \in 1 .. Len(t[i]) : f[i][at[i - 1] + k] = t[i][k]
    <3>1. CASE i = 1
      <4>1. f[1] = t[1] /\ at[1] = Len(t[1]) /\ at[0] = 0 /\ Len(t[1]) \in Nat
        BY <2>1, <2>2, <2>3, <2>4
      <4>2. QED
        BY <3>1, <4>1
    <3>2. CASE i # 1
      <4>1. i \in 2 .. n /\ i - 1 \in 1 .. n
        BY <2>2, <3>2
      <4>2. f[i - 1] \in Seq(C) /\ t[i] \in Seq(C) /\ f[i] = f[i - 1] \o t[i]
        BY <2>1, <2>3, <4>1
      <4>3. /\ Len(f[i]) = Len(f[i - 1]) + Len(t[i])
            /\ \A k \in 1 .. Len(t[i]) : f[i][Len(f[i - 1]) + k] = t[i][k]
        <5> DEFINE u == f[i - 1]
                   v == t[i]
                   w == f[i]
        <5>1. u \in Seq(C) /\ v \in Seq(C) /\ w = u \o v
          BY <4>2
        <5> HIDE DEF u, v, w
        <5>2. Len(w) = Len(u) + Len(v) /\ \A k \in 1 .. Len(v) : w[Len(u) + k] = v[k]
          BY <5>1, Concat
        <5>3. QED
          BY <5>2 DEF u, v, w
      <4>4. QED
        BY <2>4, <4>1, <4>3
    <3>3. QED
      BY <3>1, <3>2
  <2>6. ASSUME NEW i \in 1 .. n
        PROVE  \A k \in 1 .. Len(f[i]) : f[n][k] = f[i][k]
    <3> DEFINE G == {j \in i .. n : Len(f[j]) >= Len(f[i]) /\ \A k \in 1 .. Len(f[i]) : f[j][k] = f[i][k]}
    <3>1. ASSUME NEW j \in i .. n, \A l \in i .. j - 1 : l \in G PROVE j \in G
      <4>1. CASE j = i
        BY <2>3, <4>1
      <4>2. CASE j # i
        <5>1. j - 1 \in i .. j - 1 /\ j \in 2 .. n /\ j - 1 \in 1 .. n /\ j \in 1 .. n
          BY <2>2, <4>2
        <5>2. /\ Len(f[j - 1]) >= Len(f[i]) /\ \A k \in 1 .. Len(f[i]) : f[j - 1][k] = f[i][k]
          BY <3>1, <5>1
        <5>3. f[j - 1] \in Seq(C) /\ t[j] \in Seq(C) /\ f[j] = f[j - 1] \o t[j]
          BY <2>1, <2>3, <5>1
        <5>4. /\ Len(f[j]) = Len(f[j - 1]) + Len(t[j])
              /\ \A k \in 1 .. Len(f[j - 1]) : f[j][k] = f[j - 1][k]
          <6> DEFINE u == f[j - 1]
                     v == t[j]
                     w == f[j]
          <6>1. u \in Seq(C) /\ v \in Seq(C) /\ w = u \o v
            BY <5>3
          <6> HIDE DEF u, v, w
          <6>2. Len(w) = Len(u) + Len(v) /\ \A k \in 1 .. Len(u) : w[k] = u[k]
            BY <6>1, Concat
          <6>3. QED
            BY <6>2 DEF u, v, w
        <5>5. Len(f[j]) \in Nat /\ Len(f[j - 1]) \in Nat /\ Len(t[j]) \in Nat /\ Len(f[i]) \in Nat
          BY <2>3, <5>1
        <5>6. \A k \in 1 .. Len(f[i]) : k \in 1 .. Len(f[j - 1])
          BY <5>2, <5>5
        <5>7. Len(f[j]) >= Len(f[i])
          <6>1. \A a, b, c, d \in Nat : b >= a /\ c = b + d => c >= a
            OBVIOUS
          <6>2. QED
            BY <5>2, <5>4, <5>5, <6>1, Zenon
        <5>8. \A k \in 1 .. Len(f[i]) : f[j][k] = f[i][k]
          BY <5>2, <5>4, <5>6, Zenon
        <5>9. QED
          BY <5>7, <5>8
      <4>3. QED
        BY <4>1, <4>2
    <3>2. \A j \in i .. n : j \in G
      <4> HIDE DEF G
      <4>1. i \in Nat /\ n \in Int
        BY <2>2
      <4>2. QED
        BY <3>1, <4>1, Upward
    <3>3. n \in i .. n
      BY <2>2
    <3>4. QED
      BY <3>2, <3>3
  <2>7. ASSUME NEW i \in 1 .. n, NEW k \in 1 .. Len(t[i]) PROVE f[n][at[i - 1] + k] = t[i][k]
    <3>1. at[i] = at[i - 1] + Len(t[i]) /\ f[i][at[i - 1] + k] = t[i][k] /\ at[i] = Len(f[i])
      BY <2>4, <2>5
    <3>2. at[i - 1] \in Nat /\ Len(t[i]) \in Nat
      BY <2>2, <2>3, <2>4
    <3>3. at[i - 1] + k \in 1 .. Len(f[i])
      <4>1. \A a, b \in Nat : \A x \in 1 .. b : a + x \in 1 .. a + b
        OBVIOUS
      <4>2. QED
        BY <3>1, <3>2, <4>1, Zenon
    <3>4. QED
      BY <2>6, <3>1, <3>3, Zenon
  <2>8. f[n] \in Seq(C) /\ at[n] = Len(f[n])
    BY <2>2, <2>3, <2>4
  <2>9. \A i \in 1 .. n : /\ at[i] = at[i - 1] + Len(t[i])
                           /\ \A k \in 1 .. Len(t[i]) : FlattenSeq(t)[at[i - 1] + k] = t[i][k]
    <3>1. FlattenSeq(t) = f[n]
      BY <2>1
    <3>2. SUFFICES ASSUME NEW i \in 1 .. n
                   PROVE  /\ at[i] = at[i - 1] + Len(t[i])
                          /\ \A k \in 1 .. Len(t[i]) : f[n][at[i - 1] + k] = t[i][k]
      BY <3>1, Zenon
    <3>3. QED
      BY <2>5, <2>7, Zenon
  <2>10. at[n] = Len(FlattenSeq(t)) /\ FlattenSeq(t) \in Seq(C)
    BY <2>1, <2>8, Zenon
  <2>11. QED
    BY <2>4, <2>9, <2>10, Zenon DEF n
<1>3. QED
  BY <1>1, <1>2

\* Parts of at most two make a whole of at most twice their number.
LEMMA FlattenBound ==
    ASSUME NEW C, NEW t \in Seq(Seq(C)), \A i \in 1 .. Len(t) : Len(t[i]) =< 2
    PROVE  Len(FlattenSeq(t)) =< 2 * Len(t)
<1>1. PICK at \in [0 .. Len(t) -> Nat] :
          /\ at[0] = 0 /\ at[Len(t)] = Len(FlattenSeq(t))
          /\ \A i \in 1 .. Len(t) : at[i] = at[i - 1] + Len(t[i])
  BY Parts
<1> DEFINE n == Len(t)
           G == {i \in 0 .. n : at[i] =< 2 * i}
<1>2. n \in Nat /\ \A i \in 1 .. n : Len(t[i]) \in Nat
  OBVIOUS
<1> HIDE DEF n
<1>3. ASSUME NEW i \in 0 .. n, \A j \in 0 .. i - 1 : j \in G PROVE i \in G
  <2>1. CASE i = 0
    BY <1>1, <2>1
  <2>2. CASE i # 0
    <3>1. i - 1 \in 0 .. i - 1 /\ i \in 1 .. n /\ i - 1 \in 0 .. n
      BY <1>2, <2>2
    <3>2. at[i - 1] =< 2 * (i - 1)
      BY <1>3, <3>1
    <3>3. at[i] = at[i - 1] + Len(t[i]) /\ Len(t[i]) =< 2 /\ Len(t[i]) \in Nat /\ at[i - 1] \in Nat
      BY <1>1, <1>2, <3>1 DEF n
    <3>4. QED
      BY <3>2, <3>3
  <2>3. QED
    BY <2>1, <2>2
<1>4. \A i \in 0 .. n : i \in G
  <2> HIDE DEF G
  <2>1. 0 \in Nat /\ n \in Int
    BY <1>2
  <2>2. QED
    BY <1>3, <2>1, Upward
<1>5. n \in G
  <2> HIDE DEF G
  <2>1. QED
    BY <1>2, <1>4
<1>6. QED
  BY <1>1, <1>5 DEF n

\* A text between two others.
LEMMA Around ==
    ASSUME NEW C, NEW q \in Seq(C), NEW e \in Seq(C), NEW h, h = q \o e, NEW s, s = h \o q
    PROVE  /\ s \in Seq(C) /\ Len(s) = Len(q) + Len(e) + Len(q)
           /\ \A k \in 1 .. Len(q) : s[k] = q[k] /\ s[Len(q) + Len(e) + k] = q[k]
           /\ \A k \in 1 .. Len(e) : s[Len(q) + k] = e[k]
<1>1. /\ h \in Seq(C) /\ Len(h) = Len(q) + Len(e)
      /\ \A k \in 1 .. Len(q) : h[k] = q[k]
      /\ \A k \in 1 .. Len(e) : h[Len(q) + k] = e[k]
      /\ Len(q) \in Nat /\ Len(e) \in Nat
  BY Concat
<1>2. /\ s \in Seq(C) /\ Len(s) = Len(h) + Len(q)
      /\ \A k \in 1 .. Len(h) : s[k] = h[k]
      /\ \A k \in 1 .. Len(q) : s[Len(h) + k] = q[k]
  BY <1>1, Concat
<1>3. \A k \in 1 .. Len(q) : k \in 1 .. Len(h)
  BY <1>1
<1>4. \A k \in 1 .. Len(e) : Len(q) + k \in 1 .. Len(h)
  BY <1>1
<1>5. \A k \in 1 .. Len(q) : s[k] = q[k]
  BY <1>1, <1>2, <1>3, Zenon
<1>6. \A k \in 1 .. Len(e) : s[Len(q) + k] = e[k]
  BY <1>1, <1>2, <1>4, Zenon
<1>7. QED
  BY <1>1, <1>2, <1>5, <1>6, Zenon

\* A text in quotes.
LEMMA Quoted ==
    ASSUME NEW e \in Seq(Classes)
    PROVE  LET s == <<"quote">> \o e \o <<"quote">>
           IN  /\ s \in Seq(Classes) /\ Len(s) = Len(e) + 2 /\ s[1] = "quote" /\ s[Len(e) + 2] = "quote"
               /\ \A k \in 1 .. Len(e) : s[k + 1] = e[k]
<1> DEFINE q == <<"quote">>
           h == <<"quote">> \o e
           s == <<"quote">> \o e \o <<"quote">>
<1>1. "quote" \in Classes
  BY DEF Classes
<1>2. q \in Seq(Classes)
  BY <1>1
<1>3. Len(q) = 1 /\ q[1] = "quote"
  OBVIOUS
<1>4. h = q \o e /\ s = h \o q
  OBVIOUS
<1> HIDE DEF q, h, s
<1>5. /\ s \in Seq(Classes) /\ Len(s) = Len(q) + Len(e) + Len(q)
      /\ \A k \in 1 .. Len(q) : s[k] = q[k] /\ s[Len(q) + Len(e) + k] = q[k]
      /\ \A k \in 1 .. Len(e) : s[Len(q) + k] = e[k]
  BY <1>2, <1>4, Around
<1>6. /\ s \in Seq(Classes) /\ Len(s) = 1 + Len(e) + 1
      /\ \A k \in 1 .. 1 : s[k] = q[k] /\ s[1 + Len(e) + k] = q[k]
      /\ \A k \in 1 .. Len(e) : s[1 + k] = e[k]
  BY <1>3, <1>5
<1>7. Len(e) \in Nat /\ 1 \in 1 .. 1
  OBVIOUS
<1>8. 1 + Len(e) + 1 = Len(e) + 2 /\ \A k \in 1 .. Len(e) : 1 + k = k + 1
  BY <1>7
<1>9. QED
  BY <1>3, <1>6, <1>7, <1>8, Zenon DEF s

-----------------------------------------------------------------------------
(* json_escape *)

Escaped(s) == [i \in DOMAIN s |-> Escape(s[i])]

\* A character stands for itself, or for two of which the second means it.
LEMMA EscapeIs ==
    ASSUME NEW c \in Classes
    PROVE  /\ Escape(c) \in Seq(Classes)
           /\ \/ c \notin {"quote", "bslash"} /\ Len(Escape(c)) = 1 /\ Escape(c)[1] = c
              \/ /\ Len(Escape(c)) = 2 /\ Escape(c)[1] = "bslash"
                 /\ Escape(c)[2] \in DOMAIN Unescape /\ Unescape[Escape(c)[2]] = c
<1>1. "quote" \in Classes /\ "bslash" \in Classes /\ "n" \in Classes
  BY DEF Classes
<1>2. /\ DOMAIN Unescape = {"quote", "bslash", "n"}
      /\ Unescape["quote"] = "quote" /\ Unescape["bslash"] = "bslash" /\ Unescape["n"] = "nl"
  BY DEF Unescape
<1>3. ASSUME NEW a \in Classes, NEW b \in Classes, Escape(c) = <<a, b>>
      PROVE  Escape(c) \in Seq(Classes) /\ Len(Escape(c)) = 2 /\ Escape(c)[1] = a /\ Escape(c)[2] = b
  BY <1>3
<1>4. CASE c = "quote"
  <2>1. Escape(c) = <<"bslash", "quote">>
    BY <1>4 DEF Escape
  <2>2. QED
    BY <1>1, <1>2, <1>4, <1>3, <2>1, Zenon
<1>5. CASE c = "bslash"
  <2>1. Escape(c) = <<"bslash", "bslash">>
    BY <1>5 DEF Escape
  <2>2. QED
    BY <1>1, <1>2, <1>5, <1>3, <2>1, Zenon
<1>6. CASE c = "nl"
  <2>1. Escape(c) = <<"bslash", "n">>
    BY <1>6 DEF Escape
  <2>2. QED
    BY <1>1, <1>2, <1>6, <1>3, <2>1, Zenon
<1>7. CASE c \notin {"quote", "bslash", "nl"}
  <2>1. Escape(c) = <<c>>
    BY <1>7 DEF Escape
  <2>2. QED
    BY <1>7, <2>1
<1>8. QED
  BY <1>4, <1>5, <1>6, <1>7

\* The escaped characters of a text, one by one and together.
LEMMA EscapedIs ==
    ASSUME NEW s \in Seq(Classes)
    PROVE  /\ Escaped(s) \in Seq(Seq(Classes)) /\ Len(Escaped(s)) = Len(s)
           /\ \A i \in 1 .. Len(s) : s[i] \in Classes /\ Escaped(s)[i] = Escape(s[i])
           /\ FlattenSeq(Escaped(s)) \in Seq(Classes) /\ Len(FlattenSeq(Escaped(s))) \in Nat
           /\ Len(FlattenSeq(Escaped(s))) =< 2 * Len(s)
<1> DEFINE t == Escaped(s)
<1>1. DOMAIN s = 1 .. Len(s) /\ Len(s) \in Nat /\ \A i \in 1 .. Len(s) : s[i] \in Classes
  OBVIOUS
<1>2. \A i \in 1 .. Len(s) : Escape(s[i]) \in Seq(Classes) /\ Len(Escape(s[i])) =< 2
  <2>1. SUFFICES ASSUME NEW c \in Classes PROVE Escape(c) \in Seq(Classes) /\ Len(Escape(c)) =< 2
    BY <1>1
  <2>2. 1 =< 2 /\ 2 =< 2
    OBVIOUS
  <2>3. QED
    BY <2>2, EscapeIs, Zenon
<1>3. t = [i \in 1 .. Len(s) |-> Escape(s[i])]
  BY <1>1, Zenon DEF Escaped
<1> HIDE DEF t
<1>4. t \in [1 .. Len(s) -> Seq(Classes)] /\ \A i \in 1 .. Len(s) : t[i] = Escape(s[i])
  BY <1>2, <1>3
<1>5. t \in Seq(Seq(Classes)) /\ Len(t) = Len(s)
  BY <1>1, <1>4
<1>6. \A i \in 1 .. Len(t) : Len(t[i]) =< 2
  BY <1>2, <1>4, <1>5
<1>7. FlattenSeq(t) \in Seq(Classes) /\ Len(FlattenSeq(t)) =< 2 * Len(t)
  BY <1>5, <1>6, Parts, FlattenBound, Zenon
<1>8. \A r \in Seq(Classes) : Len(r) \in Nat
  OBVIOUS
<1>9. QED
  BY <1>1, <1>4, <1>5, <1>7, <1>8, Zenon DEF t

\* A text that json_escape can render fits a buffer of twice its length and one.
LEMMA EscapesFit ==
    ASSUME NEW s \in Seq(Classes), NEW cap \in Nat, cap > 2 * Len(s)
    PROVE  JsonEscape(s, cap) = IF "ctl" \in ToSet(s) THEN Failed ELSE FlattenSeq(Escaped(s))
<1> DEFINE e == FlattenSeq(Escaped(s))
<1>1. JsonEscape(s, cap) = IF "ctl" \in ToSet(s) \/ Len(e) + 1 > cap THEN Failed ELSE e
  BY Zenon DEF JsonEscape, Escaped
<1>2. Len(e) \in Nat /\ Len(e) =< 2 * Len(s)
  BY EscapedIs, Zenon
<1> HIDE DEF e
<1>3. Len(s) \in Nat
  OBVIOUS
<1>4. ~(Len(e) + 1 > cap)
  BY <1>2, <1>3
<1>5. QED
  BY <1>1, <1>4 DEF e

-----------------------------------------------------------------------------
(* parse_quoted *)

\* One turn of its loop, with what f says of the characters behind.
Turn(s, f, i) ==
    IF i > Len(s) THEN NoString
    ELSE IF s[i] = "quote" THEN [next |-> i + 1, text |-> <<>>]
    ELSE IF s[i] # "bslash" THEN Put(s[i], f[i + 1])
    ELSE IF i < Len(s) /\ s[i + 1] \in DOMAIN Unescape THEN Put(Unescape[s[i + 1]], f[i + 2])
    ELSE NoString

Scans(s, p, f) == f = [i \in p + 1 .. Len(s) + 2 |-> Turn(s, f, i)]

\* A turn looks at the two characters behind it at most.
LEMMA TurnIsLocal ==
    ASSUME NEW s, NEW f, NEW g, NEW i \in Nat, Len(s) \in Nat,
           \A j \in {i + 1, i + 2} : j =< Len(s) + 1 => f[j] = g[j]
    PROVE  Turn(s, f, i) = Turn(s, g, i)
<1>1. i =< Len(s) => f[i + 1] = g[i + 1]
  OBVIOUS
<1>2. i < Len(s) => f[i + 2] = g[i + 2]
  OBVIOUS
<1>3. i > Len(s) \/ i =< Len(s)
  OBVIOUS
<1>4. QED
  BY <1>1, <1>2, <1>3, Zenon DEF Turn

\* There is a scan of every text from every place.
LEMMA ScanExists ==
    ASSUME NEW s, Len(s) \in Nat, NEW p \in Nat, p =< Len(s)
    PROVE  \E f : Scans(s, p, f)
<1> DEFINE hi == Len(s) + 2
           From(f, i) == f = [j \in i .. hi |-> Turn(s, f, j)]
           G == {i \in p + 1 .. hi : \E f : From(f, i)}
<1>1. ASSUME NEW i \in p + 1 .. hi, \A j \in i + 1 .. hi : j \in G PROVE i \in G
  <2>1. i \in Nat
    OBVIOUS
  <2>2. CASE i = hi
    <3> DEFINE g == [j \in hi .. hi |-> NoString]
    <3>1. \A j \in hi .. hi : Turn(s, g, j) = NoString
      <4>1. SUFFICES ASSUME NEW j \in hi .. hi PROVE j > Len(s)
        BY Zenon DEF Turn
      <4>2. QED
        OBVIOUS
    <3>2. From(g, hi)
      <4> HIDE DEF hi
      <4>1. QED
        BY <3>1
    <3>3. QED
      <4> HIDE DEF g, hi, From
      <4>1. QED
        BY <2>2, <3>2
  <2>3. CASE i # hi
    <3>1. i + 1 \in i + 1 .. hi
      BY <2>3
    <3>2. PICK f : From(f, i + 1)
      <4>1. i + 1 \in G
        <5> HIDE DEF G
        <5>1. QED
          BY <1>1, <3>1
      <4> HIDE DEF From
      <4>2. QED
        BY <4>1
    <3> DEFINE g == [j \in i .. hi |-> IF j = i THEN Turn(s, f, i) ELSE f[j]]
    <3>3. \A j \in i + 1 .. hi : f[j] = Turn(s, f, j)
      <4> HIDE DEF hi
      <4>1. QED
        BY <3>2
    <3>4. \A j \in i + 1 .. hi : g[j] = f[j]
      OBVIOUS
    <3>5. g[i] = Turn(s, f, i) /\ g = [j \in i .. hi |-> g[j]]
      OBVIOUS
    <3> HIDE DEF g
    <3>6. ASSUME NEW j \in i .. hi PROVE Turn(s, g, j) = Turn(s, f, j)
      <4>1. j \in Nat /\ \A k \in {j + 1, j + 2} : k =< Len(s) + 1 => g[k] = f[k]
        BY <3>4
      <4>2. QED
        BY <4>1, TurnIsLocal
    <3>7. \A j \in i .. hi : g[j] = Turn(s, g, j)
      <4>1. \A j \in i .. hi : j = i \/ j \in i + 1 .. hi
        OBVIOUS
      <4>2. QED
        BY <3>3, <3>4, <3>5, <3>6, <4>1, Zenon
    <3>8. From(g, i)
      <4> HIDE DEF hi
      <4>1. QED
        BY <3>5, <3>7
    <3>9. QED
      <4> HIDE DEF From, hi
      <4>1. QED
        BY <3>8
  <2>4. QED
    BY <2>2, <2>3
<1>2. \A i \in p + 1 .. hi : i \in G
  <2>1. p + 1 \in Nat /\ hi \in Nat
    OBVIOUS
  <2> HIDE DEF G, hi
  <2>2. QED
    BY <1>1, <2>1, Downward
<1>3. p + 1 \in p + 1 .. hi
  OBVIOUS
<1>4. \E f : From(f, p + 1)
  <2> HIDE DEF From, hi
  <2>1. QED
    BY <1>2, <1>3
<1>5. QED
  BY <1>4, Zenon DEF Scans

\* parse_quoted is that scan.
LEMMA ParseIs ==
    ASSUME NEW s, Len(s) \in Nat, NEW p \in Nat, p =< Len(s), NEW cap
    PROVE  \E f : /\ \A i \in p + 1 .. Len(s) + 2 : f[i] = Turn(s, f, i)
                  /\ ParseQuoted(s, p, cap) = IF s[p] # "quote" \/ Len(f[p + 1].text) >= cap THEN NoString ELSE f[p + 1]
<1> DEFINE scan == CHOOSE f : Scans(s, p, f)
<1>1. ParseQuoted(s, p, cap) =
          IF p > Len(s) \/ s[p] # "quote" \/ Len(scan[p + 1].text) >= cap THEN NoString ELSE scan[p + 1]
  BY Zenon DEF ParseQuoted, Scans, Turn
<1>2. Scans(s, p, scan)
  BY ScanExists, Zenon
<1> HIDE DEF scan
<1>3. \A i \in p + 1 .. Len(s) + 2 : scan[i] = Turn(s, scan, i)
  <2>1. scan = [i \in p + 1 .. Len(s) + 2 |-> Turn(s, scan, i)]
    BY <1>2 DEF Scans
  <2>2. QED
    BY <2>1
<1>4. ~(p > Len(s))
  OBVIOUS
<1>5. QED
  BY <1>1, <1>3, <1>4

\* A character in front of what the rest gives.
LEMMA PutIs ==
    ASSUME NEW c \in Classes, NEW N, NEW rest \in {NoString} \cup [next : N, text : Seq(Classes)]
    PROVE  /\ Put(c, rest) \in {NoString} \cup [next : N, text : Seq(Classes)]
           /\ rest # NoString => Put(c, rest) = [next |-> rest.next, text |-> <<c>> \o rest.text]
<1>1. CASE rest = NoString
  BY <1>1 DEF Put
<1>2. CASE rest # NoString
  <2>1. rest \in [next : N, text : Seq(Classes)]
    BY <1>2
  <2>2. rest.next \in N /\ rest.text \in Seq(Classes) /\ rest = [next |-> rest.next, text |-> rest.text]
    BY <2>1
  <2>3. Put(c, rest) = [next |-> rest.next, text |-> <<c>> \o rest.text]
    BY <1>2, <2>2 DEF Put
  <2>4. <<c>> \o rest.text \in Seq(Classes)
    BY <2>2
  <2>5. QED
    BY <2>2, <2>3, <2>4
<1>3. QED
  BY <1>1, <1>2

\* parse_quoted returns a text that its buffer takes, and a place behind its
\* closing quote.
LEMMA ParseType ==
    ASSUME NEW s \in Seq(Classes), NEW p \in Nat, p =< Len(s), NEW cap \in Nat,
           ParseQuoted(s, p, cap) # NoString
    PROVE  /\ ParseQuoted(s, p, cap).next \in p + 2 .. Len(s) + 1
           /\ ParseQuoted(s, p, cap).text \in Seq(Classes) /\ Len(ParseQuoted(s, p, cap).text) < cap
<1> DEFINE hi == Len(s) + 2
           Texts(i) == {NoString} \cup [next : i + 1 .. Len(s) + 1, text : Seq(Classes)]
<1>1. Len(s) \in Nat /\ \A i \in 1 .. Len(s) : s[i] \in Classes
  OBVIOUS
<1>2. PICK f : /\ \A i \in p + 1 .. hi : f[i] = Turn(s, f, i)
               /\ ParseQuoted(s, p, cap) = IF s[p] # "quote" \/ Len(f[p + 1].text) >= cap THEN NoString ELSE f[p + 1]
  BY <1>1, ParseIs
<1> DEFINE G == {i \in p + 1 .. hi : f[i] \in Texts(i)}
<1>3. \A c \in DOMAIN Unescape : Unescape[c] \in Classes
  <2>1. /\ DOMAIN Unescape = {"quote", "bslash", "n"}
        /\ Unescape["quote"] = "quote" /\ Unescape["bslash"] = "bslash" /\ Unescape["n"] = "nl"
    BY DEF Unescape
  <2>2. QED
    BY <2>1 DEF Classes
<1>4. ASSUME NEW i \in p + 1 .. hi, \A j \in i + 1 .. hi : j \in G PROVE i \in G
  <2> USE DEF Turn
  <2>1. f[i] = Turn(s, f, i) /\ i \in Nat /\ i >= 1
    BY <1>2
  <2>2. \A j \in i + 1 .. hi : f[j] \in Texts(i)
    <3>1. SUFFICES ASSUME NEW j \in i + 1 .. hi PROVE Texts(j) \subseteq Texts(i)
      BY <1>4
    <3>2. j + 1 .. Len(s) + 1 \subseteq i + 1 .. Len(s) + 1
      BY <1>1, <2>1
    <3>3. QED
      BY <3>2
  <2> HIDE DEF Texts
  <2>3. NoString \in Texts(i)
    BY DEF Texts
  <2>4. ASSUME NEW c \in Classes, NEW j \in i + 1 .. hi PROVE Put(c, f[j]) \in Texts(i)
    BY <2>2, <2>4, PutIs DEF Texts
  <2>5. CASE i > Len(s)
    BY <2>1, <2>3, <2>5
  <2>6. CASE i =< Len(s)
    <3>1. i + 1 \in i + 1 .. hi /\ s[i] \in Classes /\ ~(i > Len(s))
      BY <1>1, <2>1, <2>6
    <3>2. CASE s[i] = "quote"
      <4>1. f[i] = [next |-> i + 1, text |-> <<>>]
        BY <2>1, <3>1, <3>2, Zenon
      <4>2. i + 1 \in i + 1 .. Len(s) + 1 /\ <<>> \in Seq(Classes)
        BY <1>1, <2>1, <2>6
      <4>3. [next |-> i + 1, text |-> <<>>] \in [next : i + 1 .. Len(s) + 1, text : Seq(Classes)]
        BY <4>2
      <4>4. f[i] \in Texts(i)
        BY <4>1, <4>3 DEF Texts
      <4>5. QED
        BY <4>4
    <3>3. CASE s[i] # "quote" /\ s[i] # "bslash"
      <4>1. f[i] = Put(s[i], f[i + 1])
        BY <2>1, <3>1, <3>3, Zenon
      <4>2. QED
        BY <2>4, <3>1, <4>1, Zenon
    <3>4. CASE s[i] = "bslash" /\ i < Len(s) /\ s[i + 1] \in DOMAIN Unescape
      <4>1. f[i] = Put(Unescape[s[i + 1]], f[i + 2])
        <5>1. s[i] # "quote"
          BY <3>4
        <5>2. QED
          BY <2>1, <3>1, <3>4, <5>1, Zenon
      <4>2. i + 2 \in i + 1 .. hi
        BY <1>1, <2>1, <3>4
      <4>3. Unescape[s[i + 1]] \in Classes
        BY <1>3, <3>4, Zenon
      <4>4. QED
        BY <2>4, <4>1, <4>2, <4>3, Zenon
    <3>5. CASE s[i] = "bslash" /\ ~(i < Len(s) /\ s[i + 1] \in DOMAIN Unescape)
      <4>1. s[i] # "quote"
        BY <3>5
      <4>2. f[i] = NoString
        BY <2>1, <3>1, <3>5, <4>1, Zenon
      <4>3. QED
        BY <2>3, <4>2
    <3>6. QED
      BY <3>2, <3>3, <3>4, <3>5
  <2>7. QED
    BY <1>1, <2>1, <2>5, <2>6
<1>5. \A i \in p + 1 .. hi : i \in G
  <2>1. p + 1 \in Nat /\ hi \in Nat
    BY <1>1
  <2> HIDE DEF G, hi
  <2>2. QED
    BY <1>4, <2>1, Downward
<1>6. f[p + 1] \in Texts(p + 1)
  <2>1. p + 1 \in p + 1 .. hi
    BY <1>1
  <2> HIDE DEF hi, Texts
  <2>2. QED
    BY <1>5, <2>1
<1>7. ParseQuoted(s, p, cap) = f[p + 1] /\ ~(Len(f[p + 1].text) >= cap) /\ f[p + 1] # NoString
  BY <1>2, Zenon
<1> DEFINE r == f[p + 1]
<1>8. r \in [next : (p + 1) + 1 .. Len(s) + 1, text : Seq(Classes)]
  BY <1>6, <1>7
<1>9. r.next \in p + 2 .. Len(s) + 1 /\ r.text \in Seq(Classes)
  BY <1>8
<1> HIDE DEF r
<1>10. Len(r.text) < cap
  <2>1. Len(r.text) \in Nat
    BY <1>9
  <2>2. QED
    BY <1>7, <2>1 DEF r
<1>11. QED
  BY <1>7, <1>9, <1>10 DEF r

\* skip_spaces goes to a place in the text or right behind it.
LEMMA SkipType ==
    ASSUME NEW s, Len(s) \in Nat, NEW p \in 1 .. Len(s) + 1
    PROVE  SkipSpaces(s, p) \in p .. Len(s) + 1
<1> DEFINE Ends(q) == q > Len(s) \/ s[q] \notin Spaces
           T == {q \in p .. Len(s) + 1 : Ends(q)}
<1>1. Len(s) + 1 \in T /\ T \in SUBSET Nat
  OBVIOUS
<1>2. PICK q \in T : \A r \in T : q =< r
  BY <1>1, LeastExists
<1>3. \A i \in p .. q - 1 : s[i] \in Spaces
  <2>1. SUFFICES ASSUME NEW i \in p .. q - 1, s[i] \notin Spaces PROVE FALSE
    OBVIOUS
  <2>2. i \in T /\ i < q
    BY <1>2, <2>1
  <2>3. QED
    BY <1>2, <2>2
<1>4. \E r \in p .. Len(s) + 1 : /\ r > Len(s) \/ s[r] \notin Spaces
                                 /\ \A i \in p .. r - 1 : s[i] \in Spaces
  BY <1>2, <1>3
<1>5. QED
  BY <1>4, Zenon DEF SkipSpaces

\* What strlen sees of a text has no zero byte and is no longer.
LEMMA CStringIs ==
    ASSUME NEW s \in Seq(Classes)
    PROVE  CString(s) \in Seq(Classes) /\ Len(CString(s)) =< Len(s) /\ "nul" \notin ToSet(CString(s))
<1>1. DOMAIN s = 1 .. Len(s) /\ Len(s) \in Nat /\ \A i \in 1 .. Len(s) : s[i] \in Classes
  OBVIOUS
<1>2. CASE \E i \in DOMAIN s : s[i] = "nul"
  <2> DEFINE T == {i \in DOMAIN s : s[i] = "nul"}
             first == CHOOSE i \in DOMAIN s : s[i] = "nul" /\ \A j \in 1 .. i - 1 : s[j] # "nul"
  <2>1. T \in SUBSET Nat /\ T # {}
    BY <1>1, <1>2
  <2>2. PICK i \in T : \A j \in T : i =< j
    BY <2>1, LeastExists
  <2>3. i \in DOMAIN s /\ s[i] = "nul" /\ \A j \in 1 .. i - 1 : s[j] # "nul"
    BY <1>1, <2>2
  <2>4. first \in DOMAIN s /\ \A j \in 1 .. first - 1 : s[j] # "nul"
    BY <2>3, Zenon
  <2>5. CString(s) = SubSeq(s, 1, first - 1)
    BY <1>2, Zenon DEF CString
  <2> HIDE DEF first
  <2>6. first - 1 \in 0 .. Len(s)
    BY <1>1, <2>4
  <2>7. SubSeq(s, 1, first - 1) = [j \in 1 .. first - 1 |-> s[j]]
    BY <1>1, <2>6
  <2> DEFINE c == CString(s)
  <2>8. c \in [1 .. first - 1 -> Classes] /\ \A j \in 1 .. first - 1 : c[j] = s[j]
    <3>1. \A j \in 1 .. first - 1 : s[j] \in Classes
      BY <1>1, <2>6
    <3>2. c = [j \in 1 .. first - 1 |-> s[j]]
      BY <2>5, <2>7
    <3> HIDE DEF c
    <3>3. QED
      BY <3>1, <3>2
  <2> HIDE DEF c
  <2>9. c \in Seq(Classes) /\ Len(c) = first - 1 /\ DOMAIN c = 1 .. first - 1
    BY <2>6, <2>8
  <2>10. "nul" \notin ToSet(c)
    BY <2>4, <2>8, <2>9 DEF ToSet
  <2>11. QED
    BY <1>1, <2>6, <2>9, <2>10 DEF c
<1>3. CASE ~\E i \in DOMAIN s : s[i] = "nul"
  BY <1>1, <1>3 DEF CString, ToSet
<1>4. QED
  BY <1>2, <1>3

\* parse_quoted finds nothing behind the text.
LEMMA ParseInside ==
    ASSUME NEW s, Len(s) \in Nat, NEW p \in Nat, NEW cap, ParseQuoted(s, p, cap) # NoString
    PROVE  p =< Len(s)
<1>1. p > Len(s) => ParseQuoted(s, p, cap) = NoString
  BY Zenon DEF ParseQuoted
<1>2. QED
  BY <1>1

-----------------------------------------------------------------------------
(* The body that a client sends *)

\* A sequence of naturals that never falls from one place to the next never falls.
LEMMA Monotone ==
    ASSUME NEW n \in Nat, NEW f \in [0 .. n -> Nat], \A i \in 1 .. n : f[i - 1] =< f[i]
    PROVE  \A i \in 0 .. n : \A j \in i .. n : f[i] =< f[j]
<1>1. SUFFICES ASSUME NEW i \in 0 .. n PROVE \A j \in i .. n : f[i] =< f[j]
  OBVIOUS
<1> DEFINE G == {j \in i .. n : f[i] =< f[j]}
<1>2. ASSUME NEW j \in i .. n, \A k \in i .. j - 1 : k \in G PROVE j \in G
  <2>1. CASE j = i
    BY <2>1
  <2>2. CASE j # i
    <3>1. j - 1 \in i .. j - 1 /\ j \in 1 .. n /\ j - 1 \in 0 .. n /\ j \in 0 .. n
      BY <2>2
    <3>2. f[i] =< f[j - 1] /\ f[j - 1] =< f[j] /\ f[i] \in Nat /\ f[j] \in Nat /\ f[j - 1] \in Nat
      BY <1>2, <3>1
    <3>3. QED
      BY <3>2
  <2>3. QED
    BY <2>1, <2>2
<1>3. \A j \in i .. n : j \in G
  <2>1. i \in Nat /\ n \in Int
    OBVIOUS
  <2> HIDE DEF G
  <2>2. QED
    BY <1>2, <2>1, Upward
<1>4. QED
  BY <1>3

\* A unit is a character that stands for itself, or a backslash and another one.
LEMMA UnitIs ==
    ASSUME NEW u \in TextUnits
    PROVE  /\ u.raw \in Seq(Classes)
           /\ \/ /\ u.means \in Classes \ {"quote", "bslash"} /\ Len(u.raw) = 1 /\ u.raw[1] = u.means
              \/ /\ Len(u.raw) = 2 /\ u.raw[1] = "bslash" /\ u.raw[2] \in Classes
                 /\ u.means = IF u.raw[2] \in DOMAIN Unescape THEN Unescape[u.raw[2]] ELSE "bad"
<1>1. CASE u \in {[raw |-> <<c>>, means |-> c] : c \in Classes \ {"quote", "bslash"}}
  <2>1. PICK c \in Classes \ {"quote", "bslash"} : u = [raw |-> <<c>>, means |-> c]
    BY <1>1
  <2>2. u.raw = <<c>> /\ u.means = c
    BY <2>1
  <2>3. <<c>> \in Seq(Classes) /\ Len(<<c>>) = 1 /\ <<c>>[1] = c
    OBVIOUS
  <2>4. QED
    BY <2>2, <2>3
<1>2. CASE u \notin {[raw |-> <<c>>, means |-> c] : c \in Classes \ {"quote", "bslash"}}
  <2> DEFINE Meant(c) == IF c \in DOMAIN Unescape THEN Unescape[c] ELSE "bad"
  <2>1. u \in {[raw |-> <<"bslash", c>>, means |-> Meant(c)] : c \in Classes}
    BY <1>2 DEF TextUnits
  <2> HIDE DEF Meant
  <2>2. PICK c \in Classes : u = [raw |-> <<"bslash", c>>, means |-> Meant(c)]
    BY <2>1
  <2>3. u.raw = <<"bslash", c>> /\ u.means = Meant(c)
    BY <2>2
  <2>4. "bslash" \in Classes
    BY DEF Classes
  <2> DEFINE r == <<"bslash", c>>
  <2>5. r \in Seq(Classes) /\ Len(r) = 2 /\ r[1] = "bslash" /\ r[2] = c
    BY <2>4
  <2> HIDE DEF r
  <2>6. u.raw = r
    BY <2>3 DEF r
  <2>7. QED
    BY <2>3, <2>5, <2>6, Zenon DEF Meant
<1>3. QED
  BY <1>1, <1>2

Raws(units) == [i \in DOMAIN units |-> units[i].raw]

\* What is written of the units of a string, one by one and together.
LEMMA RawsAre ==
    ASSUME NEW units \in Seq(TextUnits)
    PROVE  /\ Raws(units) \in Seq(Seq(Classes)) /\ Len(Raws(units)) = Len(units)
           /\ \A i \in 1 .. Len(units) : units[i] \in TextUnits /\ Raws(units)[i] = units[i].raw
           /\ FlattenSeq(Raws(units)) \in Seq(Classes)
<1> DEFINE t == Raws(units)
<1>1. DOMAIN units = 1 .. Len(units) /\ Len(units) \in Nat /\ \A i \in 1 .. Len(units) : units[i] \in TextUnits
  OBVIOUS
<1>2. t = [i \in 1 .. Len(units) |-> units[i].raw]
  BY <1>1, Zenon DEF Raws
<1>3. \A i \in 1 .. Len(units) : units[i].raw \in Seq(Classes)
  BY <1>1, UnitIs, Zenon
<1> HIDE DEF t
<1>4. t \in [1 .. Len(units) -> Seq(Classes)] /\ \A i \in 1 .. Len(units) : t[i] = units[i].raw
  BY <1>2, <1>3
<1>5. t \in Seq(Seq(Classes)) /\ Len(t) = Len(units)
  BY <1>1, <1>4
<1>6. FlattenSeq(t) \in Seq(Classes)
  BY <1>5, Parts
<1>7. QED
  BY <1>1, <1>4, <1>5, <1>6 DEF t

\* A piece is a mark by itself, or a text in quotes.
LEMMA WrittenIs ==
    ASSUME NEW p \in Pieces
    PROVE  /\ Written(p) \in Seq(Classes) /\ Len(Written(p)) \in Nat \ {0}
           /\ p.kind = "str" => /\ p.units \in Seq(TextUnits) /\ Written(p)[1] = "quote"
                                /\ Written(p) = <<"quote">> \o FlattenSeq(Raws(p.units)) \o <<"quote">>
           /\ p.kind # "str" => /\ p.kind \in Classes \ {"quote"}
                                /\ Len(Written(p)) = 1 /\ Written(p)[1] = p.kind
<1>1. "str" \notin Classes
  BY DEF Classes
<1>2. CASE p.kind = "str"
  <2>1. p \in [kind : {"str"}, units : Seq(TextUnits)]
    BY <1>1, <1>2 DEF Pieces
  <2>2. p.units \in Seq(TextUnits)
    BY <2>1
  <2> DEFINE e == FlattenSeq(Raws(p.units))
             s == <<"quote">> \o e \o <<"quote">>
  <2>3. Written(p) = s
    BY <1>2, Zenon DEF Written, Raws
  <2>4. e \in Seq(Classes)
    BY <2>2, RawsAre
  <2> HIDE DEF e
  <2>5. s \in Seq(Classes) /\ Len(s) = Len(e) + 2 /\ s[1] = "quote"
    BY <2>4, Quoted
  <2>6. Len(e) \in Nat
    BY <2>4
  <2> HIDE DEF s
  <2>7. Len(s) \in Nat \ {0}
    BY <2>5, <2>6
  <2>8. QED
    BY <1>2, <2>2, <2>3, <2>5, <2>7 DEF s, e
<1>3. CASE p.kind # "str"
  <2>1. p \in [kind : Classes \ {"quote"}]
    BY <1>3 DEF Pieces
  <2>2. p.kind \in Classes \ {"quote"}
    BY <2>1
  <2>3. Written(p) = <<p.kind>>
    BY <1>3 DEF Written
  <2>4. QED
    BY <1>3, <2>2, <2>3
<1>4. QED
  BY <1>2, <1>3

Words(b) == [i \in DOMAIN b.pieces |-> Written(b.pieces[i])]

\* The pieces of a body and the characters that arrive of them.
LEMMA BodyIs ==
    ASSUME NEW b, Arrives(b)
    PROVE  /\ Words(b) \in Seq(Seq(Classes)) /\ Len(Words(b)) = Len(b.pieces) /\ Len(b.pieces) \in Nat
           /\ DOMAIN b.pieces = 1 .. Len(b.pieces)
           /\ \A i \in 1 .. Len(b.pieces) : b.pieces[i] \in Pieces /\ Words(b)[i] = Written(b.pieces[i])
           /\ All(b) = FlattenSeq(Words(b)) /\ All(b) \in Seq(Classes)
           /\ Chars(b) \in Seq(Classes) /\ Len(Chars(b)) = b.cut /\ b.cut \in 0 .. Len(All(b)) /\ Len(All(b)) \in Nat
           /\ \A x \in 1 .. b.cut : Chars(b)[x] = All(b)[x]
<1> DEFINE t == Words(b)
           P == b.pieces
           a == All(b)
<1>1. P \in Seq(Pieces) /\ b.cut \in 0 .. Len(a)
  BY DEF Arrives
<1>2. DOMAIN P = 1 .. Len(P) /\ Len(P) \in Nat /\ \A i \in 1 .. Len(P) : P[i] \in Pieces
  BY <1>1
<1>3. t = [i \in 1 .. Len(P) |-> Written(P[i])]
  BY <1>2, Zenon DEF Words
<1>4. \A i \in 1 .. Len(P) : Written(P[i]) \in Seq(Classes)
  BY <1>2, WrittenIs, Zenon
<1>5. a = FlattenSeq(t)
  BY Zenon DEF All, Words
<1> HIDE DEF t
<1>6. t \in [1 .. Len(P) -> Seq(Classes)] /\ \A i \in 1 .. Len(P) : t[i] = Written(P[i])
  BY <1>3, <1>4
<1>7. t \in Seq(Seq(Classes)) /\ Len(t) = Len(P)
  BY <1>2, <1>6
<1>8. a \in Seq(Classes)
  BY <1>5, <1>7, Parts, Zenon
<1> DEFINE s == Chars(b)
           c == b.cut
<1>9. s = SubSeq(a, 1, c)
  BY Zenon DEF Chars
<1> HIDE DEF a, s, c
<1>10. Len(a) \in Nat /\ c \in 0 .. Len(a)
  BY <1>1, <1>8 DEF c
<1>11. s \in Seq(Classes) /\ Len(s) = c /\ \A x \in 1 .. c : s[x] = a[x]
  BY <1>8, <1>9, <1>10
<1>12. QED
  BY <1>2, <1>5, <1>6, <1>7, <1>8, <1>10, <1>11, Zenon DEF t, a, s, c

-----------------------------------------------------------------------------
(* A request from its body to its answers *)

\* The text in hand is a C string that the parser and the caller take.
Fits ==
    /\ out \in Seq(Classes) /\ "nul" \notin ToSet(out)
    /\ Len(out) < field.cap /\ Len(out) < ValueCap

Served == stage = "done" /\ stored = "OK"

CodecInv ==
    /\ body \in Bodies /\ field \in Fields
    /\ stage = "turn" => ptr \in 1 .. Len(Chars(body)) + 1
    /\ Fits
    /\ stage \in {"open", "turn", "store"} => stored = "none"
    /\ stage = "encode" => stored = "OK"
    /\ IF Served THEN inGet = JsonEscape(out, field.get) /\ inList = JsonEscape(out, field.list)
       ELSE inGet = <<>> /\ inList = <<>>

\* CodecInv holds at the start.
LEMMA CodecInvInit == CodecInit => CodecInv
<1> SUFFICES ASSUME CodecInit
             PROVE  CodecInv
  OBVIOUS
<1>1. body \in Bodies /\ field \in Fields /\ stage = "open" /\ out = <<>> /\ stored = "none" /\ inGet = <<>> /\ inList = <<>>
  BY DEF CodecInit
<1>2. field.cap \in Nat \ {0} /\ ValueCap \in Nat \ {0}
  BY <1>1, SizesAssumption
<1>3. <<>> \in Seq(Classes) /\ Len(<<>>) = 0 /\ ToSet(<<>>) = {}
  BY DEF ToSet
<1>4. Fits
  BY <1>1, <1>2, <1>3 DEF Fits
<1>5. ~Served
  BY <1>1 DEF Served
<1>6. QED
  BY <1>1, <1>4, <1>5 DEF CodecInv

\* A pair leaves the place inside the body, and a text that fits.
LEMMA PairFits ==
    ASSUME CodecInv, Pair
    PROVE  /\ Fits'
           /\ \/ stage' = "turn" /\ ptr' \in 1 .. Len(Chars(body)) + 1
              \/ stage' = "done"
<1> DEFINE s == Chars(body)
           p == SkipSpaces(s, ptr)
           name == ParseQuoted(s, p, NameCap)
           colon == SkipSpaces(s, name.next)
           value == ParseQuoted(s, SkipSpaces(s, colon + 1), ValueBuffer)
           after == SkipSpaces(s, value.next)
           mine == CString(name.text) = field.name
           text == CString(value.text)
<1>1. /\ stage = "turn" /\ p =< Len(s) /\ field' = field
      /\ \/ stage' = "done" /\ out' = out
         \/ /\ name # NoString /\ colon =< Len(s) /\ value # NoString /\ after =< Len(s)
            /\ mine => ~(Len(text) + 1 > field.cap)
            /\ ptr' \in {after, after + 1} /\ out' = IF mine THEN text ELSE out
            /\ stage' = stage
  <2>1. "BAD_REQUEST" # "OK" /\ "PAYLOAD_TOO_LARGE" # "OK"
    OBVIOUS
  <2> HIDE DEF s, p, name, colon, value, after, mine, text
  <2>2. QED
    BY <2>1, Zenon DEF Pair, Return, s, p, name, colon, value, after, mine, text
<1>2. s \in Seq(Classes) /\ Len(s) \in Nat /\ ptr \in 1 .. Len(s) + 1
  <2>1. s \in Seq(Classes)
    BY BodiesAssumption, BodyIs DEF CodecInv
  <2>2. stage = "turn" => ptr \in 1 .. Len(s) + 1
    BY DEF CodecInv
  <2> HIDE DEF s
  <2>3. QED
    BY <1>1, <2>1, <2>2
<1>3. field.cap \in Nat /\ ValueCap \in Nat /\ NameCap \in Nat
  BY SizesAssumption DEF CodecInv
<1> HIDE DEF s
<1>4. CASE stage' = "done" /\ out' = out
  BY <1>1, <1>4 DEF CodecInv, Fits
<1>5. CASE ~(stage' = "done" /\ out' = out)
  <2>1. p \in 1 .. Len(s)
    BY <1>1, <1>2, SkipType
  <2> HIDE DEF p
  <2>2. name.next \in 1 .. Len(s) + 1
    BY <1>1, <1>2, <1>3, <1>5, <2>1, ParseType
  <2> HIDE DEF name
  <2>3. colon \in 1 .. Len(s)
    BY <1>1, <1>2, <1>5, <2>2, SkipType
  <2> HIDE DEF colon
  <2> DEFINE q == SkipSpaces(s, colon + 1)
  <2>4. q \in 1 .. Len(s) + 1
    <3>1. colon + 1 \in 1 .. Len(s) + 1
      BY <1>2, <2>3
    <3>2. q \in colon + 1 .. Len(s) + 1
      BY <1>2, <3>1, SkipType
    <3>3. QED
      BY <2>3, <3>2
  <2> HIDE DEF q
  <2>5. value = ParseQuoted(s, q, ValueCap) /\ value # NoString
    BY <1>1, <1>5 DEF q, ValueBuffer
  <2> HIDE DEF value
  <2>6. value.next \in q + 2 .. Len(s) + 1 /\ value.text \in Seq(Classes) /\ Len(value.text) < ValueCap
    <3>1. q \in Nat /\ q =< Len(s)
      BY <1>2, <2>4, <2>5, ParseInside
    <3>2. QED
      BY <1>2, <1>3, <2>5, <3>1, ParseType
  <2>7. after \in 1 .. Len(s)
    <3>1. value.next \in 1 .. Len(s) + 1
      BY <2>4, <2>6
    <3>2. after \in value.next .. Len(s) + 1
      BY <1>2, <3>1, SkipType
    <3>3. QED
      BY <1>1, <1>2, <1>5, <3>1, <3>2
  <2> HIDE DEF after
  <2>8. ptr' \in 1 .. Len(s) + 1 /\ stage' = "turn"
    BY <1>1, <1>2, <1>5, <2>7
  <2>9. text \in Seq(Classes) /\ "nul" \notin ToSet(text) /\ Len(text) =< Len(value.text)
    BY <2>6, CStringIs
  <2> HIDE DEF text
  <2>10. Len(text) \in Nat /\ Len(value.text) \in Nat
    BY <2>6, <2>9
  <2>11. Len(text) < ValueCap /\ (mine => Len(text) < field.cap)
    BY <1>1, <1>3, <1>5, <2>6, <2>9, <2>10
  <2>12. Fits'
    <3> HIDE DEF mine
    <3>1. out' = out \/ (mine /\ out' = text)
      BY <1>1, <1>5
    <3>2. QED
      BY <1>1, <2>9, <2>11, <3>1 DEF Fits, CodecInv
  <2>13. QED
    BY <2>8, <2>12 DEF s
<1>6. QED
  BY <1>4, <1>5

\* CodecInv is kept by every step.
LEMMA CodecInvNext == CodecInv /\ [CodecNext]_codecVars => CodecInv'
<1> SUFFICES ASSUME CodecInv, [CodecNext]_codecVars
             PROVE  CodecInv'
  OBVIOUS
<1>1. CASE OpenObject
  <2> DEFINE s == Chars(body)
             p == SkipSpaces(s, 1)
  <2>1. /\ stage = "open" /\ UNCHANGED <<body, field, out, stored, inGet, inList>>
        /\ stage' = "done" \/ (p =< Len(s) /\ ptr' = p + 1 /\ stage' = "turn")
    <3>1. "BAD_REQUEST" # "OK"
      OBVIOUS
    <3> HIDE DEF s, p
    <3>2. QED
      BY <1>1, <3>1, Zenon DEF OpenObject, Return, s, p
  <2>2. stage' = "turn" => ptr' \in 1 .. Len(s) + 1
    <3>1. s \in Seq(Classes) /\ Len(s) \in Nat
      <4>1. s \in Seq(Classes)
        BY BodiesAssumption, BodyIs DEF CodecInv
      <4> HIDE DEF s
      <4>2. QED
        BY <4>1
    <3> HIDE DEF s
    <3>2. 1 \in 1 .. Len(s) + 1
      BY <3>1
    <3>3. p \in 1 .. Len(s) + 1
      BY <3>1, <3>2, SkipType
    <3> HIDE DEF p
    <3>4. QED
      BY <2>1, <3>1, <3>3
  <2> HIDE DEF s, p
  <2>3. stage' \in {"done", "turn"} /\ Fits'
    BY <2>1 DEF CodecInv, Fits
  <2>4. QED
    BY <2>1, <2>2, <2>3 DEF CodecInv, Served, s
<1>2. CASE Pair
  <2>1. stage = "turn" /\ UNCHANGED <<body, field, stored, inGet, inList>>
    BY <1>2 DEF Pair
  <2>2. /\ Fits'
        /\ \/ stage' = "turn" /\ ptr' \in 1 .. Len(Chars(body)) + 1
           \/ stage' = "done"
    BY <1>2, PairFits
  <2>3. QED
    BY <2>1, <2>2 DEF CodecInv, Served
<1>3. CASE CloseObject
  <2>1. /\ stage = "turn" /\ UNCHANGED <<body, field, out, stored, inGet, inList>>
        /\ stage' = "store" \/ stage' = "done"
    BY <1>3, Zenon DEF CloseObject, Return
  <2>2. Fits'
    BY <2>1 DEF CodecInv, Fits
  <2>3. QED
    BY <2>1, <2>2 DEF CodecInv, Served
<1>4. CASE Store
  <2>1. /\ stage = "store" /\ UNCHANGED <<body, field, out, inGet, inList>>
        /\ \/ stored' = "OK" /\ stage' = "encode"
           \/ stored' # "OK" /\ stage' = "done"
    BY <1>4 DEF Store
  <2>2. Fits'
    BY <2>1 DEF CodecInv, Fits
  <2>3. QED
    BY <2>1, <2>2 DEF CodecInv, Served
<1>5. CASE Encode
  <2>1. /\ stage = "encode" /\ stage' = "done" /\ UNCHANGED <<body, field, out, stored>>
        /\ inGet' = JsonEscape(out, field.get) /\ inList' = JsonEscape(out, field.list)
    BY <1>5 DEF Encode
  <2>2. Fits'
    BY <2>1 DEF CodecInv, Fits
  <2>3. QED
    BY <2>1, <2>2 DEF CodecInv, Served
<1>6. CASE UNCHANGED codecVars
  BY <1>6 DEF codecVars, CodecInv, Served, Fits
<1>7. QED
  BY <1>1, <1>2, <1>3, <1>4, <1>5, <1>6 DEF CodecNext

\* So it always holds.
LEMMA CodecInvHolds == CodecSpec => []CodecInv
BY CodecInvInit, CodecInvNext, PTL DEF CodecSpec

\* Both answers have the escaped text whole, or neither has it.
LEMMA AnswersFit ==
    ASSUME CodecInv
    PROVE  /\ JsonEscape(out, field.get) = IF "ctl" \in ToSet(out) THEN Failed ELSE FlattenSeq(Escaped(out))
           /\ JsonEscape(out, field.list) = JsonEscape(out, field.get)
<1> DEFINE longest == IF field.cap < ValueCap THEN field.cap - 1 ELSE ValueCap - 1
<1>1. field \in Fields /\ out \in Seq(Classes) /\ Len(out) \in Nat /\ Len(out) < field.cap /\ Len(out) < ValueCap
  BY DEF CodecInv, Fits
<1>2. field.cap \in Nat /\ ValueCap \in Nat /\ field.get \in Nat /\ field.list \in Nat
  BY <1>1, SizesAssumption
<1>3. field.get > 2 * longest /\ field.list > 2 * longest
  BY <1>1, SizesAssumption
<1>4. longest \in Int /\ Len(out) =< longest
  BY <1>1, <1>2
<1> HIDE DEF longest
<1>5. field.get > 2 * Len(out) /\ field.list > 2 * Len(out)
  BY <1>1, <1>2, <1>3, <1>4
<1>6. QED
  BY <1>1, <1>2, <1>5, EscapesFit

\* What fits the answer to a GET fits a list: the parser let in no text whose
\* escaped form needs more than the smaller buffer of store_kv_list.
THEOREM ListsWhatItServesHolds == CodecSpec => []ListsWhatItServes
<1>1. CodecInv => ListsWhatItServes
  BY AnswersFit DEF CodecInv, ListsWhatItServes
<1>2. QED
  BY <1>1, CodecInvHolds, PTL

-----------------------------------------------------------------------------
(* An escaped text, read again *)

\* A text from one of its characters on.
LEMMA SuffixIs ==
    ASSUME NEW C, NEW t \in Seq(C), NEW i \in 1 .. Len(t)
    PROVE  /\ SubSeq(t, i + 1, Len(t)) \in Seq(C)
           /\ <<t[i]>> \o SubSeq(t, i + 1, Len(t)) = SubSeq(t, i, Len(t))
<1> DEFINE n == Len(t)
           u == SubSeq(t, i + 1, n)
           v == SubSeq(t, i, n)
<1>1. n \in Nat /\ \A j \in 1 .. n : t[j] \in C
  OBVIOUS
<1>2. u = [j \in 1 .. n - i |-> t[i + j]] /\ v = [j \in 1 .. n - i + 1 |-> t[i + j - 1]]
  BY <1>1
<1> HIDE DEF u, v, n
<1>3. \A j \in 1 .. n - i : i + j \in 1 .. n
  BY <1>1 DEF n
<1>4. \A j \in 1 .. n - i + 1 : i + j - 1 \in 1 .. n
  BY <1>1 DEF n
<1>5. u \in [1 .. n - i -> C] /\ v \in [1 .. n - i + 1 -> C]
  BY <1>1, <1>2, <1>3, <1>4
<1>6. n - i \in Nat /\ n - i + 1 \in Nat
  BY <1>1 DEF n
<1>7. u \in Seq(C) /\ v \in Seq(C) /\ Len(u) = n - i /\ Len(v) = n - i + 1
  BY <1>5, <1>6
<1> DEFINE w == <<t[i]>> \o u
<1>8. /\ w \in Seq(C) /\ Len(w) = n - i + 1 /\ w[1] = t[i]
      /\ \A j \in 1 .. n - i : w[1 + j] = u[j]
  <2>1. <<t[i]>> \in Seq(C) /\ Len(<<t[i]>>) = 1 /\ <<t[i]>>[1] = t[i]
    BY <1>1 DEF n
  <2> DEFINE a == <<t[i]>>
  <2> HIDE DEF a
  <2>2. /\ w \in Seq(C) /\ Len(w) = Len(a) + Len(u)
        /\ \A j \in 1 .. Len(a) : w[j] = a[j]
        /\ \A j \in 1 .. Len(u) : w[Len(a) + j] = u[j]
    BY <1>7, <2>1, Concat DEF a
  <2> HIDE DEF w
  <2>3. QED
    BY <1>6, <1>7, <2>1, <2>2 DEF a
<1> HIDE DEF w
<1>9. \A j \in 1 .. n - i + 1 : w[j] = v[j]
  <2>1. SUFFICES ASSUME NEW j \in 1 .. n - i + 1 PROVE w[j] = v[j]
    OBVIOUS
  <2>2. v[j] = t[i + j - 1]
    BY <1>2
  <2>3. CASE j = 1
    BY <1>8, <2>2, <2>3
  <2>4. CASE j # 1
    <3>1. j - 1 \in 1 .. n - i /\ 1 + (j - 1) = j /\ i + (j - 1) = i + j - 1
      BY <1>6, <2>4
    <3>2. w[j] = u[j - 1] /\ u[j - 1] = t[i + (j - 1)]
      BY <1>2, <1>8, <3>1
    <3>3. QED
      BY <2>2, <3>1, <3>2
  <2>5. QED
    BY <2>3, <2>4
<1>10. w = v
  BY <1>7, <1>8, <1>9, SeqEqual
<1>11. QED
  BY <1>7, <1>10 DEF u, v, w, n

\* parse_quoted takes an escaped text back to the text.
LEMMA ReadsEscaped ==
    ASSUME NEW t \in Seq(Classes), NEW e, e = FlattenSeq(Escaped(t))
    PROVE  ParseQuoted(<<"quote">> \o e \o <<"quote">>, 1, Len(e) + 1).text = t
<1> DEFINE n == Len(t)
           m == Len(e)
           s == <<"quote">> \o e \o <<"quote">>
           esc == Escaped(t)
<1>1. /\ n \in Nat /\ m \in Nat /\ e \in Seq(Classes) /\ esc \in Seq(Seq(Classes)) /\ Len(esc) = n
      /\ \A i \in 1 .. n : t[i] \in Classes /\ esc[i] = Escape(t[i])
  BY EscapedIs
<1>2. /\ s \in Seq(Classes) /\ Len(s) = m + 2 /\ s[1] = "quote" /\ s[m + 2] = "quote"
      /\ \A k \in 1 .. m : s[k + 1] = e[k]
  BY <1>1, Quoted
<1>3. PICK at \in [0 .. n -> Nat] :
          /\ at[0] = 0 /\ at[n] = m
          /\ \A i \in 1 .. n : /\ at[i] = at[i - 1] + Len(esc[i])
                             /\ \A k \in 1 .. Len(esc[i]) : e[at[i - 1] + k] = esc[i][k]
  <2> HIDE DEF n, m, esc
  <2>1. e = FlattenSeq(esc)
    BY DEF esc
  <2>2. \E at \in [0 .. Len(esc) -> Nat] :
            /\ at[0] = 0 /\ at[Len(esc)] = Len(FlattenSeq(esc))
            /\ \A i \in 1 .. Len(esc) : /\ at[i] = at[i - 1] + Len(esc[i])
                                     /\ \A k \in 1 .. Len(esc[i]) : FlattenSeq(esc)[at[i - 1] + k] = esc[i][k]
    <3>1. esc \in Seq(Seq(Classes))
      BY <1>1
    <3>2. QED
      BY <3>1, Parts
  <2>3. Len(esc) = n /\ Len(FlattenSeq(esc)) = m
    BY <1>1, <2>1 DEF m
  <2>4. PICK at \in [0 .. Len(esc) -> Nat] :
            /\ at[0] = 0 /\ at[Len(esc)] = Len(FlattenSeq(esc))
            /\ \A i \in 1 .. Len(esc) : /\ at[i] = at[i - 1] + Len(esc[i])
                                     /\ \A k \in 1 .. Len(esc[i]) : FlattenSeq(esc)[at[i - 1] + k] = esc[i][k]
    BY <2>2, Zenon
  <2>5. at \in [0 .. n -> Nat] /\ at[0] = 0 /\ at[n] = m
    BY <2>3, <2>4
  <2>6. \A i \in 1 .. n : /\ at[i] = at[i - 1] + Len(esc[i])
                         /\ \A k \in 1 .. Len(esc[i]) : e[at[i - 1] + k] = esc[i][k]
    BY <2>1, <2>3, <2>4
  <2>7. QED
    BY <2>5, <2>6, Zenon
<1> HIDE DEF s, n, m, esc
<1>4. \A i \in 1 .. n :
          \/ t[i] \notin {"quote", "bslash"} /\ Len(esc[i]) = 1 /\ esc[i][1] = t[i]
          \/ /\ Len(esc[i]) = 2 /\ esc[i][1] = "bslash"
             /\ esc[i][2] \in DOMAIN Unescape /\ Unescape[esc[i][2]] = t[i]
  BY <1>1, EscapeIs, Zenon
<1>5. \A i \in 1 .. n : Len(esc[i]) \in {1, 2}
  BY <1>4, Zenon
<1>6. \A i \in 0 .. n : at[i] \in Nat /\ at[i] >= i
  <2> DEFINE G == {i \in 0 .. n : at[i] >= i}
  <2>1. ASSUME NEW i \in 0 .. n, \A j \in 0 .. i - 1 : j \in G PROVE i \in G
    <3>1. CASE i = 0
      BY <1>3, <3>1
    <3>2. CASE i # 0
      <4>1. i - 1 \in 0 .. i - 1 /\ i \in 1 .. n /\ i - 1 \in 0 .. n
        BY <1>1, <3>2
      <4>2. at[i - 1] >= i - 1 /\ at[i - 1] \in Nat /\ at[i] \in Nat
        BY <1>3, <2>1, <4>1
      <4>3. at[i] = at[i - 1] + Len(esc[i]) /\ Len(esc[i]) \in {1, 2}
        BY <1>3, <1>5, <4>1
      <4>4. at[i] >= i
        <5>1. \A a, b, c \in Nat : b >= i - 1 /\ a = b + c /\ c \in {1, 2} => a >= i
          OBVIOUS
        <5>2. 1 \in Nat /\ 2 \in Nat
          OBVIOUS
        <5>3. QED
          BY <4>2, <4>3, <5>1, <5>2, Zenon
      <4>5. QED
        BY <4>4
    <3>3. QED
      BY <3>1, <3>2
  <2> HIDE DEF G
  <2>2. \A i \in 0 .. n : i \in G
    <3>1. 0 \in Nat /\ n \in Int
      BY <1>1
    <3>2. QED
      BY <2>1, <3>1, Upward
  <2>3. QED
    BY <1>3, <2>2 DEF G
<1>7. \A i \in 0 .. n : at[i] =< m
  <2> DEFINE G == {i \in 0 .. n : at[i] =< m}
  <2>1. ASSUME NEW i \in 0 .. n, \A j \in i + 1 .. n : j \in G PROVE i \in G
    <3>1. CASE i = n
      BY <1>1, <1>3, <3>1
    <3>2. CASE i # n
      <4>1. i + 1 \in i + 1 .. n /\ i + 1 \in 1 .. n /\ i + 1 \in 0 .. n /\ (i + 1) - 1 = i
        BY <1>1, <3>2
      <4>2. at[i + 1] =< m /\ at[i] \in Nat /\ at[i + 1] \in Nat
        BY <1>6, <2>1, <4>1
      <4>3. at[i + 1] = at[i] + Len(esc[i + 1]) /\ Len(esc[i + 1]) \in {1, 2}
        BY <1>3, <1>5, <4>1
      <4>4. at[i] =< m
        BY <1>1, <4>2, <4>3
      <4>5. QED
        BY <4>4
    <3>3. QED
      BY <3>1, <3>2
  <2> HIDE DEF G
  <2>2. \A i \in 0 .. n : i \in G
    <3>1. 0 \in Nat
      OBVIOUS
    <3>2. QED
      BY <1>1, <2>1, <3>1, Downward
  <2>3. QED
    BY <2>2 DEF G
<1>8. PICK f : /\ \A i \in 2 .. m + 4 : f[i] = Turn(s, f, i)
               /\ ParseQuoted(s, 1, m + 1) = IF s[1] # "quote" \/ Len(f[2].text) >= m + 1 THEN NoString ELSE f[2]
  <2>1. Len(s) \in Nat /\ 1 \in Nat /\ 1 =< Len(s) /\ 1 + 1 = 2 /\ Len(s) + 2 = m + 4
    BY <1>1, <1>2
  <2>2. \E f : /\ \A i \in 1 + 1 .. Len(s) + 2 : f[i] = Turn(s, f, i)
               /\ ParseQuoted(s, 1, m + 1) = IF s[1] # "quote" \/ Len(f[1 + 1].text) >= m + 1 THEN NoString ELSE f[1 + 1]
    BY <2>1, ParseIs
  <2>3. QED
    BY <2>1, <2>2, Zenon
<1> DEFINE Rest(i) == [next |-> m + 3, text |-> SubSeq(t, i, n)]
           G == {i \in 1 .. n + 1 : f[at[i - 1] + 2] = Rest(i)}
<1>9. ASSUME NEW i \in 1 .. n + 1, \A j \in i + 1 .. n + 1 : j \in G PROVE f[at[i - 1] + 2] = Rest(i)
  <2> DEFINE p == at[i - 1] + 2
  <2>1. i - 1 \in 0 .. n /\ p \in 2 .. m + 2 /\ p \in 2 .. m + 4 /\ ~(p > Len(s))
    <3>1. i - 1 \in 0 .. n
      BY <1>1
    <3>2. at[i - 1] \in 0 .. m
      BY <1>1, <1>6, <1>7, <3>1
    <3>3. QED
      BY <1>1, <1>2, <3>1, <3>2
  <2>2. f[p] = Turn(s, f, p)
    BY <1>8, <2>1
  <2>3. CASE i = n + 1
    <3>1. p = m + 2 /\ p + 1 = m + 3
      BY <1>1, <1>3, <2>3
    <3> HIDE DEF p
    <3>2. f[p] = [next |-> m + 3, text |-> <<>>]
      BY <1>2, <2>1, <2>2, <3>1, Zenon DEF Turn
    <3>3. SubSeq(t, n + 1, n) = <<>>
      BY <1>1
    <3>4. QED
      BY <2>3, <3>2, <3>3 DEF p
  <2>4. CASE i # n + 1
    <3>1. i \in 1 .. n /\ i + 1 \in i + 1 .. n + 1 /\ (i + 1) - 1 = i
      BY <1>1, <2>4
    <3>2. f[at[i] + 2] = Rest(i + 1)
      BY <1>9, <3>1
    <3>3. /\ SubSeq(t, i + 1, n) \in Seq(Classes)
          /\ <<t[i]>> \o SubSeq(t, i + 1, n) = SubSeq(t, i, n) /\ t[i] \in Classes
      BY <1>1, <3>1, SuffixIs DEF n
    <3>4. Put(t[i], f[at[i] + 2]) = Rest(i)
      <4> DEFINE r == Rest(i + 1)
      <4>1. r \in [next : Nat, text : Seq(Classes)] /\ r.next = m + 3 /\ r.text = SubSeq(t, i + 1, n) /\ r # NoString
        BY <1>1, <3>3 DEF NoString
      <4> HIDE DEF r
      <4>2. Put(t[i], r) = [next |-> r.next, text |-> <<t[i]>> \o r.text]
        BY <3>3, <4>1, PutIs
      <4>3. QED
        BY <3>2, <3>3, <4>1, <4>2, Zenon DEF r
    <3>5. /\ at[i] = at[i - 1] + Len(esc[i]) /\ at[i] =< m
          /\ at[i - 1] \in Nat /\ at[i] \in Nat
          /\ \A k \in 1 .. Len(esc[i]) : e[at[i - 1] + k] = esc[i][k]
      <4>1. i \in 0 .. n
        BY <3>1
      <4>2. QED
        BY <1>3, <1>6, <1>7, <2>1, <3>1, <4>1
    <3>6. ASSUME NEW k \in 1 .. Len(esc[i]), Len(esc[i]) \in {1, 2}
          PROVE  s[at[i - 1] + k + 1] = esc[i][k]
      <4>1. at[i - 1] + k \in 1 .. m
        BY <1>1, <3>5, <3>6
      <4>2. QED
        BY <1>2, <3>5, <4>1
    <3>7. CASE t[i] \notin {"quote", "bslash"} /\ Len(esc[i]) = 1 /\ esc[i][1] = t[i]
      <4>1. s[at[i - 1] + 1 + 1] = esc[i][1]
        BY <3>6, <3>7
      <4>2. p = at[i - 1] + 1 + 1 /\ p + 1 = at[i] + 2
        BY <3>5, <3>7
      <4>3. s[p] = t[i]
        BY <3>7, <4>1, <4>2
      <4> HIDE DEF p
      <4>4. f[p] = Put(t[i], f[p + 1])
        <5>1. s[p] # "quote" /\ s[p] # "bslash"
          BY <3>7, <4>3
        <5>2. QED
          BY <2>1, <2>2, <4>3, <5>1, Zenon DEF Turn
      <4>5. QED
        BY <3>4, <4>2, <4>4, Zenon DEF p
    <3>8. CASE /\ Len(esc[i]) = 2 /\ esc[i][1] = "bslash"
               /\ esc[i][2] \in DOMAIN Unescape /\ Unescape[esc[i][2]] = t[i]
      <4>1. s[at[i - 1] + 1 + 1] = esc[i][1] /\ s[at[i - 1] + 2 + 1] = esc[i][2]
        BY <3>6, <3>8
      <4>2. p = at[i - 1] + 1 + 1 /\ p + 1 = at[i - 1] + 2 + 1 /\ p + 2 = at[i] + 2 /\ p < Len(s)
        <5>1. at[i] = at[i - 1] + 2
          BY <3>5, <3>8
        <5>2. at[i] =< m /\ at[i - 1] \in Nat
          BY <3>5
        <5>3. QED
          BY <1>1, <1>2, <5>1, <5>2
      <4>3. s[p] = "bslash" /\ s[p + 1] = esc[i][2]
        BY <3>8, <4>1, <4>2
      <4> HIDE DEF p
      <4>4. f[p] = Put(t[i], f[p + 2])
        <5>1. s[p] # "quote"
          BY <4>3
        <5>2. QED
          BY <2>1, <2>2, <3>8, <4>2, <4>3, <5>1, Zenon DEF Turn
      <4>5. QED
        BY <3>4, <4>2, <4>4, Zenon DEF p
    <3>9. QED
      BY <1>4, <3>1, <3>7, <3>8
  <2>5. QED
    BY <2>3, <2>4
<1> HIDE DEF Rest
<1>10. \A i \in 1 .. n + 1 : i \in G
  <2>1. \A i \in 1 .. n + 1 : (\A j \in i + 1 .. n + 1 : j \in G) => i \in G
    BY <1>9
  <2>2. 1 \in Nat /\ n + 1 \in Nat
    BY <1>1
  <2> HIDE DEF G
  <2>3. QED
    BY <2>1, <2>2, Downward
<1>11. f[2] = Rest(1)
  <2>1. 1 \in 1 .. n + 1 /\ at[1 - 1] + 2 = 2
    BY <1>1, <1>3
  <2>2. QED
    BY <1>10, <2>1
<1>12. f[2].text = t /\ ~(Len(f[2].text) >= m + 1)
  <2>1. SubSeq(t, 1, n) = t
    BY SubSeqFull DEF n
  <2>2. f[2].text = t
    BY <1>11, <2>1 DEF Rest
  <2>3. n =< m
    BY <1>1, <1>3, <1>6
  <2>4. QED
    BY <1>1, <2>2, <2>3 DEF n
<1>13. QED
  BY <1>2, <1>8, <1>12, Zenon DEF s, m

\* What the store accepted is what the client reads later, whatever the text;
\* a text with a control character is the only one that can never be read.
THEOREM ReadsBackHolds == CodecSpec => []ReadsBack
<1>1. CodecInv => ReadsBack
  <2>1. SUFFICES ASSUME CodecInv, Served
                 PROVE  IF "ctl" \in ToSet(out) THEN inGet = Failed
                        ELSE ParseQuoted(<<"quote">> \o inGet \o <<"quote">>, 1, Len(inGet) + 1).text = out
    BY Zenon DEF ReadsBack, Served
  <2>2. inGet = IF "ctl" \in ToSet(out) THEN Failed ELSE FlattenSeq(Escaped(out))
    BY <2>1, AnswersFit DEF CodecInv
  <2>3. out \in Seq(Classes)
    BY <2>1 DEF CodecInv, Fits
  <2>4. QED
    BY <2>2, <2>3, ReadsEscaped, Zenon
<1>2. QED
  BY <1>1, CodecInvHolds, PTL

-----------------------------------------------------------------------------
(* A string in a body *)

\* skip_spaces stops at the first character that is no space.
LEMMA SkipIs ==
    ASSUME NEW s, Len(s) \in Nat, NEW p \in Nat, NEW q \in p .. Len(s) + 1,
           q > Len(s) \/ s[q] \notin Spaces, \A i \in p .. q - 1 : s[i] \in Spaces
    PROVE  SkipSpaces(s, p) = q
<1> DEFINE Stops(r) == /\ r > Len(s) \/ s[r] \notin Spaces
                       /\ \A i \in p .. r - 1 : s[i] \in Spaces
           r == CHOOSE x \in p .. Len(s) + 1 : Stops(x)
<1>1. r \in p .. Len(s) + 1 /\ Stops(r)
  <2>1. Stops(q)
    OBVIOUS
  <2> HIDE DEF Stops
  <2>2. QED
    BY <2>1, Zenon
<1>2. SkipSpaces(s, p) = r
  BY Zenon DEF SkipSpaces
<1> HIDE DEF r
<1>3. ~(r < q)
  <2>1. r < q => r =< Len(s) /\ r \in p .. q - 1
    BY <1>1
  <2>2. QED
    BY <1>1, <2>1
<1>4. ~(q < r)
  <2>1. q < r => q =< Len(s) /\ q \in p .. r - 1
    BY <1>1
  <2>2. QED
    BY <1>1, <2>1
<1>5. QED
  BY <1>1, <1>2, <1>3, <1>4

\* What follows one wrong escape or the end of the text is no string.
LEMMA PutNothing == \A c : Put(c, NoString) = NoString
  BY DEF Put

Means(units) == [i \in DOMAIN units |-> units[i].means]

\* What the units of a string mean: characters, unless one of them is bad.
LEMMA MeansAre ==
    ASSUME NEW units \in Seq(TextUnits)
    PROVE  /\ Means(units) \in Seq(Classes \cup {"bad"}) /\ Len(Means(units)) = Len(units) /\ Len(units) \in Nat
           /\ \A i \in 1 .. Len(units) : Means(units)[i] = units[i].means
           /\ "bad" \notin ToSet(Means(units)) <=> \A i \in 1 .. Len(units) : units[i].means # "bad"
           /\ "bad" \notin ToSet(Means(units)) => Means(units) \in Seq(Classes)
<1> DEFINE t == Means(units)
<1>1. DOMAIN units = 1 .. Len(units) /\ Len(units) \in Nat /\ \A i \in 1 .. Len(units) : units[i] \in TextUnits
  OBVIOUS
<1>2. t = [i \in 1 .. Len(units) |-> units[i].means]
  BY <1>1, Zenon DEF Means
<1>3. \A i \in 1 .. Len(units) : units[i].means \in Classes \cup {"bad"}
  <2>1. /\ DOMAIN Unescape = {"quote", "bslash", "n"}
        /\ Unescape["quote"] = "quote" /\ Unescape["bslash"] = "bslash" /\ Unescape["n"] = "nl"
    BY DEF Unescape
  <2>2. "quote" \in Classes /\ "bslash" \in Classes /\ "nl" \in Classes
    BY DEF Classes
  <2>3. \A c \in DOMAIN Unescape : Unescape[c] \in Classes
    BY <2>1, <2>2
  <2>4. QED
    BY <1>1, <2>3, UnitIs, Zenon
<1> HIDE DEF t
<1>4. t \in [1 .. Len(units) -> Classes \cup {"bad"}] /\ \A i \in 1 .. Len(units) : t[i] = units[i].means
  BY <1>2, <1>3
<1>5. t \in Seq(Classes \cup {"bad"}) /\ Len(t) = Len(units) /\ DOMAIN t = 1 .. Len(units)
  BY <1>1, <1>4
<1>6. "bad" \notin ToSet(t) <=> \A i \in 1 .. Len(units) : units[i].means # "bad"
  BY <1>4, <1>5 DEF ToSet
<1>7. "bad" \notin ToSet(t) => t \in Seq(Classes)
  BY <1>1, <1>4, <1>5, <1>6
<1>8. QED
  BY <1>1, <1>4, <1>5, <1>6, <1>7 DEF t

\* A character in front of a string.
LEMMA PutInFront ==
    ASSUME NEW c, NEW x, x # 0, NEW t
    PROVE  Put(c, [next |-> x, text |-> t]) = [next |-> x, text |-> <<c>> \o t]
<1>1. [next |-> x, text |-> t] # NoString
  BY DEF NoString
<1>2. QED
  BY <1>1 DEF Put

\* The text e in quotes stands at p, as far as s goes.
QuotedAt(s, p, e) ==
    /\ s[p] = "quote"
    /\ p + Len(e) + 1 =< Len(s) => s[p + Len(e) + 1] = "quote"
    /\ \A k \in 1 .. Len(e) : p + k =< Len(s) => s[p + k] = e[k]

\* parse_quoted at a string: it returns what the units mean and goes behind the
\* closing quote, unless the end is missing, a unit is bad or the buffer too small.
LEMMA StringIs ==
    ASSUME NEW s \in Seq(Classes), NEW units \in Seq(TextUnits), NEW p \in 1 .. Len(s), NEW cap \in Nat,
           NEW e, e = FlattenSeq(Raws(units)), QuotedAt(s, p, e)
    PROVE  ParseQuoted(s, p, cap) =
               IF p + Len(e) + 1 =< Len(s) /\ "bad" \notin ToSet(Means(units)) /\ Len(units) < cap
               THEN [next |-> p + Len(e) + 2, text |-> Means(units)] ELSE NoString
<1> DEFINE n == Len(units)
           raws == Raws(units)
           m == Len(e)
           M == Means(units)
           C == Classes \cup {"bad"}
           L == Len(s)
<1>1. /\ raws \in Seq(Seq(Classes)) /\ Len(raws) = n
      /\ \A i \in 1 .. n : units[i] \in TextUnits /\ raws[i] = units[i].raw
      /\ e \in Seq(Classes)
  BY RawsAre
<1>2. /\ M \in Seq(C) /\ Len(M) = n /\ n \in Nat /\ \A i \in 1 .. n : M[i] = units[i].means
      /\ "bad" \notin ToSet(M) <=> \A i \in 1 .. n : units[i].means # "bad"
  BY MeansAre
<1>3. PICK at \in [0 .. n -> Nat] :
          /\ at[0] = 0 /\ at[n] = m
          /\ \A i \in 1 .. n : /\ at[i] = at[i - 1] + Len(raws[i])
                             /\ \A k \in 1 .. Len(raws[i]) : e[at[i - 1] + k] = raws[i][k]
  <2> HIDE DEF n, raws
  <2>1. \E at \in [0 .. Len(raws) -> Nat] :
            /\ at[0] = 0 /\ at[Len(raws)] = Len(FlattenSeq(raws))
            /\ \A i \in 1 .. Len(raws) : /\ at[i] = at[i - 1] + Len(raws[i])
                                       /\ \A k \in 1 .. Len(raws[i]) : FlattenSeq(raws)[at[i - 1] + k] = raws[i][k]
    <3>1. raws \in Seq(Seq(Classes))
      BY <1>1
    <3>2. QED
      BY <3>1, Parts, Zenon
  <2>2. Len(raws) = n /\ FlattenSeq(raws) = e
    BY <1>1 DEF raws
  <2>3. PICK at \in [0 .. Len(raws) -> Nat] :
            /\ at[0] = 0 /\ at[Len(raws)] = Len(FlattenSeq(raws))
            /\ \A i \in 1 .. Len(raws) : /\ at[i] = at[i - 1] + Len(raws[i])
                                       /\ \A k \in 1 .. Len(raws[i]) : FlattenSeq(raws)[at[i - 1] + k] = raws[i][k]
    BY <2>1, Zenon
  <2>4. at \in [0 .. n -> Nat] /\ at[0] = 0 /\ at[n] = m
    BY <2>2, <2>3
  <2>5. \A i \in 1 .. n : /\ at[i] = at[i - 1] + Len(raws[i])
                          /\ \A k \in 1 .. Len(raws[i]) : e[at[i - 1] + k] = raws[i][k]
    BY <2>2, <2>3
  <2>6. QED
    BY <2>4, <2>5, Zenon
<1>4. m \in Nat /\ L \in Nat /\ p \in Nat /\ p >= 1 /\ p =< L
  <2>1. e \in Seq(Classes)
    BY <1>1
  <2>2. QED
    BY <2>1
<1>6. \A i \in 1 .. n : /\ units[i] \in TextUnits /\ Len(raws[i]) \in {1, 2}
                        /\ \/ /\ units[i].means \in Classes \ {"quote", "bslash"} /\ Len(raws[i]) = 1 /\ raws[i][1] = units[i].means
                           \/ /\ Len(raws[i]) = 2 /\ raws[i][1] = "bslash" /\ raws[i][2] \in Classes
                              /\ units[i].means = IF raws[i][2] \in DOMAIN Unescape THEN Unescape[raws[i][2]] ELSE "bad"
  <2> HIDE DEF n, raws
  <2>1. \A i \in 1 .. n : units[i] \in TextUnits /\ raws[i] = units[i].raw
    BY <1>1, Zenon
  <2>2. SUFFICES ASSUME NEW i \in 1 .. n, NEW u \in TextUnits, u = units[i], NEW r, r = raws[i], r = u.raw
                 PROVE  /\ Len(r) \in {1, 2}
                        /\ \/ /\ u.means \in Classes \ {"quote", "bslash"} /\ Len(r) = 1 /\ r[1] = u.means
                           \/ /\ Len(r) = 2 /\ r[1] = "bslash" /\ r[2] \in Classes
                              /\ u.means = IF r[2] \in DOMAIN Unescape THEN Unescape[r[2]] ELSE "bad"
    BY <2>1, Zenon
  <2>3. QED
    BY <2>2, UnitIs, Zenon
<1> HIDE DEF n, raws, m, M, C, L
<1>7. \A i \in 0 .. n : at[i] \in 0 .. m
  <2>1. \A i \in 1 .. n : at[i - 1] =< at[i]
    <3>1. SUFFICES ASSUME NEW i \in 1 .. n PROVE at[i - 1] =< at[i]
      OBVIOUS
    <3>2. at[i] = at[i - 1] + Len(raws[i]) /\ Len(raws[i]) \in {1, 2} /\ at[i - 1] \in Nat
      BY <1>2, <1>3, <1>6
    <3>3. QED
      BY <3>2
  <2>2. \A i \in 0 .. n : at[i] =< at[n]
    <3>1. \A i \in 0 .. n : \A j \in i .. n : at[i] =< at[j]
      BY <1>2, <2>1, Monotone
    <3>2. QED
      BY <1>2, <3>1
  <2>3. QED
    BY <1>2, <1>3, <1>4, <2>2
<1>8. ASSUME NEW i \in 1 .. n, NEW k \in 1 .. Len(raws[i]), p + at[i - 1] + k =< L
      PROVE  s[p + at[i - 1] + k] = raws[i][k]
  <2> DEFINE x == at[i - 1] + k
  <2>1. at[i] = at[i - 1] + Len(raws[i]) /\ Len(raws[i]) \in {1, 2} /\ at[i - 1] \in Nat /\ at[i] =< m
    BY <1>2, <1>3, <1>4, <1>6, <1>7
  <2>2. x \in 1 .. m /\ p + x = p + at[i - 1] + k
    <3>1. \A a, c, d \in Nat : \A y \in 1 .. d : d \in {1, 2} /\ c = a + d /\ c =< m
              => a + y \in 1 .. m /\ p + (a + y) = p + a + y
      BY <1>4
    <3>2. at[i] \in Nat /\ Len(raws[i]) \in Nat
      BY <2>1
    <3>3. QED
      BY <2>1, <3>1, <3>2, Zenon
  <2>3. e[x] = raws[i][k]
    BY <1>3
  <2>4. s[p + x] = e[x]
    BY <1>8, <2>2 DEF m, L, QuotedAt
  <2>5. QED
    BY <2>2, <2>3, <2>4
<1>9. s[p] = "quote"
  BY DEF QuotedAt
<1>10. p + m + 1 =< L => s[p + m + 1] = "quote"
  BY DEF m, L, QuotedAt
<1>11. PICK f : /\ \A i \in p + 1 .. L + 2 : f[i] = Turn(s, f, i)
                /\ ParseQuoted(s, p, cap) = IF s[p] # "quote" \/ Len(f[p + 1].text) >= cap THEN NoString ELSE f[p + 1]
  <2>1. Len(s) \in Nat /\ p \in Nat /\ p =< Len(s)
    BY <1>4 DEF L
  <2>2. \E f : /\ \A i \in p + 1 .. Len(s) + 2 : f[i] = Turn(s, f, i)
               /\ ParseQuoted(s, p, cap) = IF s[p] # "quote" \/ Len(f[p + 1].text) >= cap THEN NoString ELSE f[p + 1]
    BY <2>1, ParseIs
  <2>3. QED
    BY <2>2, Zenon DEF L
<1> DEFINE Good(i) == p + m + 1 =< L /\ \A l \in i .. n : units[l].means # "bad"
           Found(i) == [next |-> p + m + 2, text |-> SubSeq(M, i, n)]
           Rest(i) == IF Good(i) THEN Found(i) ELSE NoString
           Pos(i) == p + at[i - 1] + 1
           Right(i) == Pos(i) =< L + 2 => f[Pos(i)] = Rest(i)
           G == {i \in 1 .. n + 1 : Right(i)}
<1>12. ASSUME NEW i \in 1 .. n + 1, \A j \in i + 1 .. n + 1 : j \in G PROVE Right(i)
  <2> DEFINE q == Pos(i)
  <2>1. SUFFICES ASSUME q =< L + 2 PROVE f[q] = Rest(i)
    OBVIOUS
  <2>2. i - 1 \in 0 .. n /\ at[i - 1] \in 0 .. m /\ q \in p + 1 .. L + 2 /\ q =< p + m + 1 /\ q \in Nat
    <3>1. i - 1 \in 0 .. n
      BY <1>2
    <3>2. at[i - 1] \in 0 .. m
      BY <1>7, <3>1
    <3>3. \A a \in 0 .. m : p + a + 1 =< L + 2 => /\ p + a + 1 \in p + 1 .. L + 2 /\ p + a + 1 =< p + m + 1
                                                  /\ p + a + 1 \in Nat
      BY <1>4
    <3>4. QED
      BY <2>1, <3>1, <3>2, <3>3, Zenon
  <2>3. f[q] = Turn(s, f, q)
    BY <1>11, <2>2
  <2> HIDE DEF q
  <2>4. CASE q > L
    <3>1. ~Good(i)
      BY <1>4, <2>2, <2>4
    <3>2. f[q] = NoString
      BY <2>3, <2>4, Zenon DEF Turn, L
    <3>3. QED
      BY <3>1, <3>2
  <2>5. CASE q =< L /\ i = n + 1
    <3>1. q = p + m + 1 /\ q + 1 = p + m + 2 /\ ~(q > L)
      BY <1>2, <1>3, <1>4, <2>2, <2>5 DEF q
    <3>2. s[q] = "quote"
      BY <1>10, <2>5, <3>1
    <3>3. f[q] = [next |-> p + m + 2, text |-> <<>>]
      BY <2>3, <3>1, <3>2, Zenon DEF Turn, L
    <3>4. SubSeq(M, n + 1, n) = <<>>
      BY <1>2
    <3>5. Good(i)
      BY <1>2, <2>5, <3>1
    <3>6. QED
      BY <2>5, <3>3, <3>4, <3>5
  <2>6. CASE q =< L /\ i # n + 1
    <3>1. i \in 1 .. n /\ i + 1 \in i + 1 .. n + 1 /\ (i + 1) - 1 = i /\ ~(q > L)
      BY <1>2, <1>4, <2>2, <2>6
    <3>2. Pos(i + 1) = p + at[i] + 1 /\ Right(i + 1)
      <4>1. i + 1 \in G
        <5> HIDE DEF G
        <5>1. QED
          BY <1>12, <3>1
      <4> HIDE DEF Right
      <4>2. Right(i + 1)
        BY <4>1
      <4>3. QED
        BY <3>1, <4>2
    <3>3. at[i] = at[i - 1] + Len(raws[i]) /\ Len(raws[i]) \in {1, 2} /\ at[i] \in 0 .. m
      BY <1>2, <1>3, <1>6, <1>7, <3>1
    <3>4. Pos(i + 1) = q + Len(raws[i]) /\ q + Len(raws[i]) =< p + m + 1
      <4>1. \A a, c, d \in Nat : c = a + d /\ c =< m => p + c + 1 = p + a + 1 + d /\ p + a + 1 + d =< p + m + 1
        BY <1>4
      <4>2. at[i - 1] \in Nat /\ at[i] \in Nat /\ Len(raws[i]) \in Nat /\ at[i] =< m
        BY <1>4, <2>2, <3>3
      <4> HIDE DEF Right
      <4>3. Pos(i + 1) = p + at[i - 1] + 1 + Len(raws[i]) /\ p + at[i - 1] + 1 + Len(raws[i]) =< p + m + 1
        BY <3>2, <3>3, <4>1, <4>2, Zenon
      <4>4. QED
        BY <4>3, Zenon DEF q
    <3>5. Good(i) <=> Good(i + 1) /\ units[i].means # "bad"
      BY <1>2, <3>1
    <3>6. ASSUME units[i].means # "bad" PROVE Put(units[i].means, Rest(i + 1)) = Rest(i)
      <4>1. CASE Good(i + 1)
        <5>1. /\ <<M[i]>> \o SubSeq(M, i + 1, n) = SubSeq(M, i, n)
              /\ M[i] = units[i].means
          BY <1>2, <3>1, SuffixIs
        <5>2. p + m + 2 # 0
          BY <1>4
        <5>3. Put(M[i], Found(i + 1)) = Found(i)
          <6> DEFINE v == SubSeq(M, i + 1, n)
                     u == SubSeq(M, i, n)
                     c == M[i]
                     x == p + m + 2
          <6> HIDE DEF v, u, c, x
          <6>1. Put(c, [next |-> x, text |-> v]) = [next |-> x, text |-> <<c>> \o v]
            BY <5>2, PutInFront, Zenon DEF x
          <6>2. <<c>> \o v = u
            BY <5>1, Zenon DEF c, v, u
          <6>3. Put(c, [next |-> x, text |-> v]) = [next |-> x, text |-> u]
            BY <6>1, <6>2, Zenon
          <6>4. QED
            BY <6>3, Zenon DEF c, v, u, x
        <5> HIDE DEF Found, Good
        <5>4. QED
          BY <3>5, <3>6, <4>1, <5>1, <5>3
      <4>2. CASE ~Good(i + 1)
        <5> HIDE DEF Found, Good
        <5>1. QED
          BY <3>5, <4>2, PutNothing
      <4>3. QED
        BY <4>1, <4>2
    <3> HIDE DEF Good, Rest, Pos
    <3>7. CASE units[i].means \in Classes \ {"quote", "bslash"} /\ Len(raws[i]) = 1 /\ raws[i][1] = units[i].means
      <4>1. p + at[i - 1] + 1 = q /\ 1 \in 1 .. Len(raws[i])
        BY <3>7 DEF q, Pos
      <4>2. s[q] = units[i].means
        BY <1>8, <2>6, <3>1, <3>7, <4>1
      <4>3. "bad" \notin Classes
        BY DEF Classes
      <4>4. f[q] = Put(units[i].means, f[q + 1])
        <5>1. s[q] # "quote" /\ s[q] # "bslash"
          BY <3>7, <4>2
        <5>2. QED
          BY <2>3, <3>1, <4>2, <5>1, Zenon DEF Turn, L
      <4>5. q + 1 = Pos(i + 1) /\ Pos(i + 1) =< L + 2
        BY <1>4, <2>2, <2>6, <3>4, <3>7
      <4>6. f[q + 1] = Rest(i + 1)
        BY <3>2, <4>5
      <4>7. QED
        BY <3>6, <3>7, <4>3, <4>4, <4>6
    <3>8. CASE /\ Len(raws[i]) = 2 /\ raws[i][1] = "bslash" /\ raws[i][2] \in Classes
               /\ units[i].means = IF raws[i][2] \in DOMAIN Unescape THEN Unescape[raws[i][2]] ELSE "bad"
      <4>1. p + at[i - 1] + 1 = q /\ p + at[i - 1] + 2 = q + 1 /\ 1 \in 1 .. Len(raws[i]) /\ 2 \in 1 .. Len(raws[i])
        BY <1>4, <2>2, <3>8 DEF q, Pos
      <4>2. s[q] = "bslash" /\ s[q] # "quote"
        BY <1>8, <2>6, <3>1, <3>8, <4>1
      <4>3. CASE q < L
        <5>1. s[q + 1] = raws[i][2]
          <6>1. q + 1 =< L
            BY <1>4, <2>2, <4>3
          <6>2. QED
            BY <1>8, <3>1, <4>1, <6>1
        <5>2. CASE raws[i][2] \in DOMAIN Unescape
          <6>1. f[q] = Put(units[i].means, f[q + 2])
            BY <2>3, <3>1, <3>8, <4>2, <4>3, <5>1, <5>2, Zenon DEF Turn, L
          <6>2. q + 2 = Pos(i + 1) /\ Pos(i + 1) =< L + 2
            BY <1>4, <2>2, <2>6, <3>4, <3>8
          <6>3. f[q + 2] = Rest(i + 1)
            BY <3>2, <6>2
          <6>4. units[i].means # "bad"
            <7>1. /\ DOMAIN Unescape = {"quote", "bslash", "n"}
                  /\ Unescape["quote"] = "quote" /\ Unescape["bslash"] = "bslash" /\ Unescape["n"] = "nl"
              BY DEF Unescape
            <7>2. units[i].means = Unescape[raws[i][2]]
              BY <3>8, <5>2, Zenon
            <7>3. QED
              BY <5>2, <7>1, <7>2
          <6>5. QED
            BY <3>6, <6>1, <6>3, <6>4
        <5>3. CASE raws[i][2] \notin DOMAIN Unescape
          <6>1. f[q] = NoString
            BY <2>3, <3>1, <4>2, <4>3, <5>1, <5>3, Zenon DEF Turn, L
          <6>2. units[i].means = "bad"
            BY <3>8, <5>3, Zenon
          <6>3. QED
            BY <3>5, <6>1, <6>2 DEF Rest
        <5>4. QED
          BY <5>2, <5>3
      <4>4. CASE ~(q < L)
        <5>1. f[q] = NoString
          BY <2>3, <3>1, <4>2, <4>4, Zenon DEF Turn, L
        <5>2. ~(p + m + 1 =< L)
          BY <1>4, <2>2, <3>4, <3>8, <4>4
        <5>3. QED
          BY <5>1, <5>2 DEF Rest, Good
      <4>5. QED
        BY <4>3, <4>4
    <3>9. QED
      BY <1>6, <3>1, <3>7, <3>8
  <2>7. QED
    BY <1>4, <2>2, <2>4, <2>5, <2>6
<1>13. \A i \in 1 .. n + 1 : i \in G
  <2>1. \A i \in 1 .. n + 1 : (\A j \in i + 1 .. n + 1 : j \in G) => i \in G
    <3> HIDE DEF Right
    <3>1. QED
      BY <1>12
  <2>2. 1 \in Nat /\ n + 1 \in Nat
    BY <1>2
  <2> HIDE DEF G
  <2>3. QED
    BY <2>1, <2>2, Downward
<1>14. f[p + 1] = Rest(1)
  <2>1. Pos(1) = p + 1 /\ p + 1 =< L + 2 /\ 1 \in 1 .. n + 1
    BY <1>2, <1>3, <1>4
  <2>2. Right(1)
    <3> HIDE DEF Right
    <3>1. QED
      BY <1>13, <2>1
  <2> HIDE DEF Rest, Pos
  <2>3. QED
    BY <2>1, <2>2
<1>15. SubSeq(M, 1, n) = M
  BY <1>2, SubSeqFull
<1>16. Good(1) <=> p + m + 1 =< L /\ "bad" \notin ToSet(M)
  BY <1>2
<1>17. /\ Found(1) = [next |-> p + m + 2, text |-> M] /\ Found(1).text = M /\ NoString.text = <<>>
       /\ ~(Len(M) >= cap) <=> n < cap
  BY <1>2, <1>15 DEF NoString
<1> HIDE DEF Good, Found
<1>19. ParseQuoted(s, p, cap) = IF Good(1) /\ n < cap THEN Found(1) ELSE NoString
  <2>1. CASE Good(1)
    BY <1>9, <1>11, <1>14, <1>17, <2>1
  <2>2. CASE ~Good(1)
    BY <1>9, <1>11, <1>14, <2>2
  <2>3. QED
    BY <2>1, <2>2
<1>20. QED
  BY <1>16, <1>17, <1>19, Zenon DEF n, m, M, L

-----------------------------------------------------------------------------
(* Where the pieces of a body stand *)

Picks(b) == [i \in DOMAIN b.pieces |-> IF b.pieces[i].kind \in Spaces THEN <<>> ELSE <<b.pieces[i]>>]

\* The pieces other than spaces, one by one and together.
LEMMA PicksAre ==
    ASSUME NEW b, Arrives(b)
    PROVE  /\ Picks(b) \in Seq(Seq(Pieces)) /\ Len(Picks(b)) = Len(b.pieces)
           /\ Bare(b) = FlattenSeq(Picks(b)) /\ Bare(b) \in Seq(Pieces) /\ Len(Bare(b)) \in Nat
           /\ \A i \in 1 .. Len(b.pieces) :
                  IF b.pieces[i].kind \in Spaces THEN Len(Picks(b)[i]) = 0
                  ELSE Len(Picks(b)[i]) = 1 /\ Picks(b)[i][1] = b.pieces[i]
<1> DEFINE t == Picks(b)
           P == b.pieces
           m == Len(P)
           One(i) == IF P[i].kind \in Spaces THEN <<>> ELSE <<P[i]>>
<1>1. DOMAIN P = 1 .. m /\ m \in Nat /\ \A i \in 1 .. m : P[i] \in Pieces
  BY BodyIs
<1>2. t = [i \in 1 .. m |-> One(i)]
  BY <1>1, Zenon DEF Picks
<1>3. \A i \in 1 .. m : /\ One(i) \in Seq(Pieces)
                        /\ IF P[i].kind \in Spaces THEN Len(One(i)) = 0 ELSE Len(One(i)) = 1 /\ One(i)[1] = P[i]
  <2>1. SUFFICES ASSUME NEW p \in Pieces, NEW o, o = IF p.kind \in Spaces THEN <<>> ELSE <<p>>
                 PROVE  o \in Seq(Pieces) /\ IF p.kind \in Spaces THEN Len(o) = 0 ELSE Len(o) = 1 /\ o[1] = p
    BY <1>1, Zenon
  <2>2. CASE p.kind \in Spaces
    <3>1. o = <<>>
      BY <2>1, <2>2
    <3>2. <<>> \in Seq(Pieces) /\ Len(<<>>) = 0
      OBVIOUS
    <3>3. QED
      BY <2>2, <3>1, <3>2, Zenon
  <2>3. CASE p.kind \notin Spaces
    <3>1. o = <<p>>
      BY <2>1, <2>3
    <3>2. <<p>> \in Seq(Pieces) /\ Len(<<p>>) = 1 /\ <<p>>[1] = p
      OBVIOUS
    <3>3. QED
      BY <2>3, <3>1, <3>2, Zenon
  <2>4. QED
    BY <2>2, <2>3
<1>4. Bare(b) = FlattenSeq(t)
  BY Zenon DEF Bare, Picks
<1> HIDE DEF t, m, One
<1>5. t \in [1 .. m -> Seq(Pieces)] /\ \A i \in 1 .. m : t[i] = One(i)
  BY <1>2, <1>3
<1>6. t \in Seq(Seq(Pieces)) /\ Len(t) = m
  BY <1>1, <1>5
<1>7. FlattenSeq(t) \in Seq(Pieces)
  BY <1>6, Parts, Zenon
<1>8. \A r \in Seq(Pieces) : Len(r) \in Nat
  OBVIOUS
<1>9. QED
  BY <1>3, <1>4, <1>5, <1>6, <1>7, <1>8, Zenon DEF t, m

\* at[i] characters and pl[i] pieces other than spaces make up the first i pieces.
Places(b, at, pl) ==
    LET m == Len(b.pieces)
    IN  /\ at \in [0 .. m -> Nat] /\ at[0] = 0 /\ at[m] = Len(All(b))
        /\ pl \in [0 .. m -> Nat] /\ pl[0] = 0 /\ pl[m] = Len(Bare(b))
        /\ \A i \in 1 .. m :
               /\ at[i] = at[i - 1] + Len(Written(b.pieces[i]))
               /\ \A k \in 1 .. Len(Written(b.pieces[i])) : All(b)[at[i - 1] + k] = Written(b.pieces[i])[k]
               /\ IF b.pieces[i].kind \in Spaces THEN pl[i] = pl[i - 1]
                  ELSE pl[i] = pl[i - 1] + 1 /\ Bare(b)[pl[i]] = b.pieces[i]

\* There are such numbers.
LEMMA PlacesExist ==
    ASSUME NEW b, Arrives(b)
    PROVE  \E at, pl : Places(b, at, pl)
<1> DEFINE m == Len(b.pieces)
           t == Words(b)
           u == Picks(b)
<1>1. /\ t \in Seq(Seq(Classes)) /\ Len(t) = m /\ All(b) = FlattenSeq(t)
      /\ \A i \in 1 .. m : t[i] = Written(b.pieces[i])
  BY BodyIs
<1>2. /\ u \in Seq(Seq(Pieces)) /\ Len(u) = m /\ Bare(b) = FlattenSeq(u)
      /\ \A i \in 1 .. m : IF b.pieces[i].kind \in Spaces THEN Len(u[i]) = 0 ELSE Len(u[i]) = 1 /\ u[i][1] = b.pieces[i]
  BY PicksAre
<1> HIDE DEF t, u
<1>3. PICK at \in [0 .. Len(t) -> Nat] :
          /\ at[0] = 0 /\ at[Len(t)] = Len(FlattenSeq(t))
          /\ \A i \in 1 .. Len(t) : /\ at[i] = at[i - 1] + Len(t[i])
                                  /\ \A k \in 1 .. Len(t[i]) : FlattenSeq(t)[at[i - 1] + k] = t[i][k]
  <2>1. t \in Seq(Seq(Classes))
    BY <1>1
  <2>2. QED
    BY <2>1, Parts
<1>4. PICK pl \in [0 .. Len(u) -> Nat] :
          /\ pl[0] = 0 /\ pl[Len(u)] = Len(FlattenSeq(u))
          /\ \A i \in 1 .. Len(u) : /\ pl[i] = pl[i - 1] + Len(u[i])
                                  /\ \A k \in 1 .. Len(u[i]) : FlattenSeq(u)[pl[i - 1] + k] = u[i][k]
  <2>1. u \in Seq(Seq(Pieces))
    BY <1>2
  <2>2. QED
    BY <2>1, Parts
<1> DEFINE a == All(b)
           B == Bare(b)
           P == b.pieces
<1> HIDE DEF m, a, B, P
<1>5. at \in [0 .. m -> Nat] /\ at[0] = 0 /\ at[m] = Len(a)
  BY <1>1, <1>3 DEF a, m
<1>6. pl \in [0 .. m -> Nat] /\ pl[0] = 0 /\ pl[m] = Len(B)
  BY <1>2, <1>4 DEF B, m
<1>7. \A i \in 1 .. m : at[i] = at[i - 1] + Len(Written(P[i])) /\ \A k \in 1 .. Len(Written(P[i])) : a[at[i - 1] + k] = Written(P[i])[k]
  <2>1. \A i \in 1 .. m : t[i] = Written(P[i])
    BY <1>1, Zenon DEF m, P
  <2>2. \A i \in 1 .. m : at[i] = at[i - 1] + Len(t[i]) /\ \A k \in 1 .. Len(t[i]) : a[at[i - 1] + k] = t[i][k]
    <3>1. Len(t) = m /\ FlattenSeq(t) = a
      BY <1>1 DEF m, a
    <3>2. QED
      BY <1>3, <3>1
  <2>3. QED
    BY <2>1, <2>2, Zenon
<1>8. ASSUME NEW i \in 1 .. m
      PROVE  IF P[i].kind \in Spaces THEN pl[i] = pl[i - 1] ELSE pl[i] = pl[i - 1] + 1 /\ B[pl[i]] = P[i]
  <2>1. i \in 1 .. Len(u) /\ pl[i - 1] \in Nat
    BY <1>2, <1>6 DEF m
  <2>2. pl[i] = pl[i - 1] + Len(u[i]) /\ \A k \in 1 .. Len(u[i]) : B[pl[i - 1] + k] = u[i][k]
    BY <1>2, <1>4, <2>1, Zenon DEF B
  <2>3. CASE P[i].kind \in Spaces
    <3>1. Len(u[i]) = 0
      BY <1>2, <2>3, Zenon DEF m, P
    <3>2. QED
      BY <2>1, <2>2, <2>3, <3>1
  <2>4. CASE P[i].kind \notin Spaces
    <3>1. Len(u[i]) = 1 /\ u[i][1] = P[i]
      BY <1>2, <2>4, Zenon DEF m, P
    <3>2. 1 \in 1 .. 1
      OBVIOUS
    <3>3. QED
      BY <2>1, <2>2, <2>4, <3>1, <3>2, Zenon
  <2>5. QED
    BY <2>3, <2>4
<1>9. Places(b, at, pl)
  BY <1>5, <1>6, <1>7, <1>8, Zenon DEF Places, a, B, P, m
<1>10. QED
  BY <1>9, Zenon


\* The pieces other than spaces: where each begins and ends in the characters that
\* arrived, with nothing but spaces between them, and the end behind them.
Layout(b, st, en) ==
    LET s == Chars(b)
        B == Bare(b)
        n == Len(B)
    IN  /\ st \in [1 .. n + 1 -> Nat] /\ en \in [0 .. n -> Nat] /\ en[0] = 0 /\ st[n + 1] = Len(s) + 1
        /\ \A j \in 1 .. n :
               /\ B[j].kind \notin Spaces
               /\ st[j] \in 1 .. Len(s) /\ en[j] = st[j] + Len(Written(B[j])) - 1
               /\ \A k \in 1 .. Len(Written(B[j])) : st[j] + k - 1 =< Len(s) => s[st[j] + k - 1] = Written(B[j])[k]
        /\ \A j \in 0 .. n : j < n \/ b.cut = Len(All(b)) => en[j] < st[j + 1]
        /\ \A j \in 0 .. n : \A x \in en[j] + 1 .. st[j + 1] - 1 : s[x] \in Spaces
        /\ b.cut = Len(All(b)) \/ en[n] > Len(s)

\* Every body has a layout.
LEMMA LayoutExists ==
    ASSUME NEW b, Arrives(b)
    PROVE  \E st, en : Layout(b, st, en)
<1> DEFINE P == b.pieces
           m == Len(P)
           a == All(b)
           s == Chars(b)
           B == Bare(b)
           n == Len(B)
           c == b.cut
           W(i) == Written(P[i])
<1>1. /\ m \in Nat /\ Len(a) \in Nat /\ Len(s) = c /\ c \in 0 .. Len(a) /\ c \in Nat
      /\ \A i \in 1 .. m : P[i] \in Pieces
      /\ \A x \in 1 .. c : s[x] = a[x]
  BY BodyIs
<1>2. n \in Nat
  BY PicksAre
<1>3. m # 0 => Len(a) - c < Len(W(m))
  <2>1. m # 0 => P # <<>>
    OBVIOUS
  <2>2. QED
    BY <2>1, Zenon DEF Arrives, Last
<1>4. \A i \in 1 .. m : Len(W(i)) \in Nat \ {0} /\ (P[i].kind # "str" => Len(W(i)) = 1 /\ W(i)[1] = P[i].kind)
  BY <1>1, WrittenIs, Zenon
<1>5. PICK at, pl : Places(b, at, pl)
  BY PlacesExist, Zenon
<1>6. /\ at \in [0 .. m -> Nat] /\ at[0] = 0 /\ at[m] = Len(a)
      /\ pl \in [0 .. m -> Nat] /\ pl[0] = 0 /\ pl[m] = n
  BY <1>5, Zenon DEF Places
<1>7. \A i \in 1 .. m : at[i] = at[i - 1] + Len(W(i)) /\ \A k \in 1 .. Len(W(i)) : a[at[i - 1] + k] = W(i)[k]
  BY <1>5, Zenon DEF Places
<1>8. \A i \in 1 .. m : IF P[i].kind \in Spaces THEN pl[i] = pl[i - 1] ELSE pl[i] = pl[i - 1] + 1 /\ B[pl[i]] = P[i]
  BY <1>5, Zenon DEF Places
<1> HIDE DEF P, m, a, s, B, n, c, W
<1>9. \A i \in 0 .. m : \A j \in i .. m : at[i] =< at[j] /\ pl[i] =< pl[j]
  <2>1. \A i \in 1 .. m : at[i - 1] =< at[i] /\ pl[i - 1] =< pl[i]
    <3>1. SUFFICES ASSUME NEW i \in 1 .. m PROVE at[i - 1] =< at[i] /\ pl[i - 1] =< pl[i]
      OBVIOUS
    <3>2. at[i - 1] \in Nat /\ pl[i - 1] \in Nat /\ Len(W(i)) \in Nat
      BY <1>1, <1>4, <1>6
    <3>3. QED
      BY <1>7, <1>8, <3>2
  <2>2. QED
    BY <1>1, <1>6, <2>1, Monotone
<1>10. \A j \in 1 .. n : \E i \in 1 .. m : pl[i] = j /\ pl[i - 1] = j - 1
  <2>1. SUFFICES ASSUME NEW j \in 1 .. n PROVE \E i \in 1 .. m : pl[i] = j /\ pl[i - 1] = j - 1
    OBVIOUS
  <2> DEFINE T == {i \in 0 .. m : pl[i] >= j}
  <2>2. T \in SUBSET Nat /\ m \in T
    BY <1>1, <1>2, <1>6
  <2>3. PICK i \in T : \A y \in T : i =< y
    BY <2>2, LeastExists
  <2>4. i \in 1 .. m /\ i - 1 \in 0 .. m
    BY <1>1, <1>6, <2>3
  <2>5. pl[i - 1] \in Nat /\ pl[i] \in Nat /\ pl[i] >= j /\ ~(pl[i - 1] >= j)
    BY <1>6, <2>3, <2>4
  <2>6. pl[i] = pl[i - 1] \/ pl[i] = pl[i - 1] + 1
    BY <1>8, <2>4
  <2>7. pl[i] = j /\ pl[i - 1] = j - 1
    BY <2>5, <2>6
  <2>8. QED
    BY <2>4, <2>7
<1> DEFINE Nth(j) == CHOOSE i \in 1 .. m : pl[i] = j /\ pl[i - 1] = j - 1
           ix == [j \in 0 .. n + 1 |-> IF j = 0 THEN 0 ELSE IF j = n + 1 THEN m + 1 ELSE Nth(j)]
<1>11. \A j \in 1 .. n : Nth(j) \in 1 .. m /\ pl[Nth(j)] = j /\ pl[Nth(j) - 1] = j - 1
  BY <1>10, Zenon
<1> HIDE DEF Nth
<1>12. ix[0] = 0 /\ ix[n + 1] = m + 1 /\ \A j \in 1 .. n : ix[j] = Nth(j)
  BY <1>2
<1> HIDE DEF ix
<1>13. \A j \in 1 .. n : ix[j] \in 1 .. m /\ pl[ix[j]] = j /\ pl[ix[j] - 1] = j - 1
  BY <1>11, <1>12
<1>14. \A j \in 0 .. n : /\ ix[j] \in 0 .. m /\ pl[ix[j]] = j
                         /\ ix[j + 1] - 1 \in 0 .. m /\ pl[ix[j + 1] - 1] = j /\ ix[j] =< ix[j + 1] - 1
  <2>1. SUFFICES ASSUME NEW j \in 0 .. n
                 PROVE  /\ ix[j] \in 0 .. m /\ pl[ix[j]] = j
                        /\ ix[j + 1] - 1 \in 0 .. m /\ pl[ix[j + 1] - 1] = j /\ ix[j] =< ix[j + 1] - 1
    OBVIOUS
  <2>2. ix[j] \in 0 .. m /\ pl[ix[j]] = j
    <3>1. CASE j = 0
      BY <1>1, <1>6, <1>12, <3>1
    <3>2. CASE j # 0
      BY <1>2, <1>13, <3>2
    <3>3. QED
      BY <3>1, <3>2
  <2>3. CASE j = n
    <3>1. ix[j + 1] = m + 1
      BY <1>12, <2>3
    <3>2. ix[j + 1] - 1 = m
      BY <1>1, <3>1
    <3>3. QED
      BY <1>1, <1>6, <2>2, <2>3, <3>2
  <2>4. CASE j # n
    <3>1. j + 1 \in 1 .. n /\ (j + 1) - 1 = j
      BY <1>2, <2>4
    <3>2. ix[j + 1] \in 1 .. m /\ pl[ix[j + 1]] = j + 1 /\ pl[ix[j + 1] - 1] = j
      BY <1>13, <3>1
    <3>3. ~(ix[j + 1] =< ix[j])
      <4>1. SUFFICES ASSUME ix[j + 1] =< ix[j] PROVE FALSE
        OBVIOUS
      <4>2. ix[j + 1] \in 0 .. m /\ ix[j] \in ix[j + 1] .. m
        BY <1>1, <2>2, <3>2, <4>1
      <4>3. pl[ix[j + 1]] =< pl[ix[j]]
        BY <1>9, <4>2
      <4>4. QED
        BY <2>2, <3>2, <4>3
    <3>4. QED
      BY <1>1, <2>2, <3>2, <3>3
  <2>5. QED
    BY <2>3, <2>4
<1> DEFINE st == [j \in 1 .. n + 1 |-> IF j = n + 1 THEN c + 1 ELSE at[ix[j] - 1] + 1]
           en == [j \in 0 .. n |-> at[ix[j]]]
<1>15. st[n + 1] = c + 1 /\ \A j \in 1 .. n : st[j] = at[ix[j] - 1] + 1
  BY <1>2
<1>16. \A j \in 0 .. n : en[j] = at[ix[j]]
  OBVIOUS
<1>17. DOMAIN st = 1 .. n + 1 /\ st = [j \in 1 .. n + 1 |-> st[j]] /\ DOMAIN en = 0 .. n /\ en = [j \in 0 .. n |-> en[j]]
  OBVIOUS
<1> HIDE DEF st, en
<1>18. \A j \in 0 .. n : at[ix[j]] \in Nat /\ at[ix[j + 1] - 1] \in Nat /\ at[ix[j]] =< at[ix[j + 1] - 1] /\ at[ix[j + 1] - 1] =< at[m]
  <2>1. SUFFICES ASSUME NEW j \in 0 .. n
                 PROVE  at[ix[j]] \in Nat /\ at[ix[j + 1] - 1] \in Nat /\ at[ix[j]] =< at[ix[j + 1] - 1] /\ at[ix[j + 1] - 1] =< at[m]
    OBVIOUS
  <2> DEFINE x == ix[j]
             y == ix[j + 1] - 1
  <2>2. x \in 0 .. m /\ y \in 0 .. m /\ x =< y
    BY <1>14
  <2> HIDE DEF x, y
  <2>3. y \in x .. m /\ m \in y .. m
    BY <1>1, <2>2
  <2>4. at[x] \in Nat /\ at[y] \in Nat /\ at[x] =< at[y] /\ at[y] =< at[m]
    BY <1>6, <1>9, <2>2, <2>3
  <2>5. QED
    BY <2>4 DEF x, y
<1>19. ASSUME NEW j \in 1 .. n PROVE st[j] \in 1 .. c
  <2>1. ix[j] \in 1 .. m /\ m # 0 /\ m \in 1 .. m /\ m - 1 \in 0 .. m /\ ix[j] - 1 \in 0 .. m /\ m - 1 \in (ix[j] - 1) .. m
    BY <1>1, <1>13
  <2>2. at[ix[j] - 1] =< at[m - 1] /\ at[ix[j] - 1] \in Nat /\ at[m - 1] \in Nat
    BY <1>6, <1>9, <2>1
  <2>3. at[m] = at[m - 1] + Len(W(m)) /\ Len(W(m)) \in Nat /\ Len(a) - c < Len(W(m)) /\ at[m] = Len(a)
    BY <1>3, <1>4, <1>6, <1>7, <2>1
  <2>4. at[m - 1] < c
    BY <1>1, <2>2, <2>3
  <2>5. st[j] = at[ix[j] - 1] + 1
    BY <1>15
  <2>6. QED
    BY <1>1, <2>2, <2>4, <2>5
<1>20. ASSUME NEW j \in 1 .. n
       PROVE  /\ B[j] = P[ix[j]] /\ B[j].kind \notin Spaces
              /\ en[j] = st[j] + Len(W(ix[j])) - 1
              /\ \A k \in 1 .. Len(W(ix[j])) : st[j] + k - 1 =< c => s[st[j] + k - 1] = W(ix[j])[k]
  <2> DEFINE i == ix[j]
  <2>1. i \in 1 .. m /\ pl[i] = j /\ pl[i - 1] = j - 1 /\ i - 1 \in 0 .. m
    BY <1>1, <1>13
  <2>2. st[j] = at[i - 1] + 1 /\ en[j] = at[i] /\ at[i - 1] \in Nat
    <3>1. j \in 0 .. n
      BY <1>2
    <3>2. QED
      BY <1>6, <1>15, <1>16, <2>1, <3>1
  <2> HIDE DEF i
  <2>3. P[i].kind \notin Spaces /\ B[j] = P[i]
    <3>1. pl[i] # pl[i - 1]
      BY <2>1
    <3>2. QED
      BY <1>8, <2>1, <3>1
  <2>4. at[i] = at[i - 1] + Len(W(i)) /\ Len(W(i)) \in Nat
    BY <1>4, <1>7, <2>1
  <2>5. en[j] = st[j] + Len(W(i)) - 1
    BY <2>2, <2>4
  <2>6. ASSUME NEW k \in 1 .. Len(W(i)), st[j] + k - 1 =< c PROVE s[st[j] + k - 1] = W(i)[k]
    <3>1. st[j] + k - 1 = at[i - 1] + k /\ at[i - 1] + k \in 1 .. c
      BY <1>1, <2>2, <2>4, <2>6
    <3>2. a[at[i - 1] + k] = W(i)[k]
      BY <1>7, <2>1
    <3>3. QED
      BY <1>1, <3>1, <3>2
  <2>7. QED
    BY <2>3, <2>5, <2>6 DEF i
<1>21. ASSUME NEW j \in 0 .. n, j < n \/ c = Len(a) PROVE en[j] < st[j + 1]
  <2>1. en[j] = at[ix[j]] /\ at[ix[j]] \in Nat /\ at[ix[j + 1] - 1] \in Nat /\ at[ix[j]] =< at[ix[j + 1] - 1]
    BY <1>16, <1>18
  <2>2. CASE j < n
    <3>1. j + 1 \in 1 .. n
      BY <1>2, <2>2
    <3>2. st[j + 1] = at[ix[j + 1] - 1] + 1
      BY <1>15, <3>1
    <3>3. QED
      BY <2>1, <3>2
  <2>3. CASE ~(j < n)
    <3>1. j = n /\ c = Len(a)
      BY <1>2, <1>21, <2>3
    <3>2. st[j + 1] = c + 1 /\ c = at[m] /\ at[ix[j]] =< at[m]
      BY <1>1, <1>6, <1>15, <1>18, <2>1, <3>1
    <3>3. QED
      BY <1>1, <2>1, <3>2
  <2>4. QED
    BY <2>2, <2>3
<1>22. ASSUME NEW j \in 0 .. n, NEW x \in en[j] + 1 .. st[j + 1] - 1 PROVE s[x] \in Spaces
  <2> DEFINE lo == ix[j]
             hi == ix[j + 1] - 1
  <2>1. /\ en[j] = at[lo] /\ at[lo] \in Nat /\ at[hi] \in Nat /\ at[hi] =< at[m] /\ lo \in 0 .. m /\ hi \in 0 .. m
        /\ pl[lo] = j /\ pl[hi] = j
    BY <1>14, <1>16, <1>18
  <2>2. st[j + 1] - 1 =< at[hi] /\ st[j + 1] - 1 =< c /\ st[j + 1] \in Nat
    <3>1. CASE j < n
      <4>1. j + 1 \in 1 .. n
        BY <1>2, <3>1
      <4>2. st[j + 1] = at[hi] + 1 /\ st[j + 1] \in 1 .. c
        BY <1>15, <1>19, <4>1
      <4>3. QED
        BY <1>1, <2>1, <4>2
    <3>2. CASE ~(j < n)
      <4>1. j = n
        BY <1>2, <3>2
      <4>2. st[j + 1] = c + 1 /\ ix[j + 1] = m + 1
        BY <1>12, <1>15, <4>1
      <4>3. hi = m
        BY <1>1, <4>2
      <4>4. QED
        BY <1>1, <1>6, <4>2, <4>3
    <3>3. QED
      BY <3>1, <3>2
  <2> HIDE DEF lo, hi
  <2>3. x \in 1 .. c /\ x > at[lo] /\ x =< at[hi] /\ x \in Nat
    BY <1>1, <2>1, <2>2
  <2> DEFINE T == {i \in 0 .. m : at[i] >= x}
  <2>4. T \in SUBSET Nat /\ hi \in T
    BY <1>1, <2>1, <2>3
  <2>5. PICK i \in T : \A y \in T : i =< y
    <3>1. T # {}
      BY <2>4
    <3> HIDE DEF T
    <3>2. QED
      BY <2>4, <3>1, LeastExists
  <2>6. i \in 0 .. m /\ at[i] >= x /\ i =< hi /\ at[i] \in Nat
    BY <1>6, <2>4, <2>5
  <2>7. ~(i =< lo)
    <3>1. SUFFICES ASSUME i =< lo PROVE FALSE
      OBVIOUS
    <3>2. lo \in i .. m
      BY <2>1, <2>6, <3>1
    <3>3. at[i] =< at[lo]
      BY <1>9, <2>6, <3>2
    <3>4. QED
      BY <2>1, <2>3, <2>6, <3>3
  <2>8. i \in 1 .. m /\ i - 1 \in 0 .. m /\ i - 1 \in lo .. m /\ hi \in i .. m /\ i - 1 \notin T
    <3>1. i \in 1 .. m /\ i - 1 \in 0 .. m /\ i - 1 \in lo .. m /\ hi \in i .. m
      BY <1>1, <2>1, <2>6, <2>7
    <3>2. i - 1 \notin T
      <4>1. ~(i =< i - 1)
        BY <2>6
      <4> HIDE DEF T
      <4>2. QED
        BY <2>5, <4>1
    <3>3. QED
      BY <3>1, <3>2
  <2>9. pl[i] =< j /\ j =< pl[i - 1] /\ pl[i] \in Nat /\ pl[i - 1] \in Nat
    BY <1>6, <1>9, <2>1, <2>6, <2>8
  <2>10. P[i].kind \in Spaces
    <3>1. pl[i] # pl[i - 1] + 1
      BY <2>9
    <3>2. QED
      BY <1>8, <2>8, <3>1
  <2>11. Len(W(i)) = 1 /\ W(i)[1] = P[i].kind
    <3>1. P[i].kind # "str"
      BY <2>10 DEF Spaces
    <3>2. QED
      BY <1>4, <2>8, <3>1
  <2>12. at[i] = at[i - 1] + 1 /\ a[at[i - 1] + 1] = P[i].kind /\ at[i - 1] \in Nat
    <3>1. at[i] = at[i - 1] + Len(W(i)) /\ \A k \in 1 .. Len(W(i)) : a[at[i - 1] + k] = W(i)[k]
      BY <1>7, <2>8
    <3>2. 1 \in 1 .. 1
      OBVIOUS
    <3>3. at[i - 1] \in Nat
      BY <1>6, <2>8
    <3>4. QED
      BY <2>11, <3>1, <3>2, <3>3, Zenon
  <2>13. x = at[i - 1] + 1
    BY <2>3, <2>6, <2>8, <2>12
  <2>14. QED
    BY <1>1, <2>3, <2>10, <2>12, <2>13
<1>23. c = Len(a) \/ en[n] > c
  <2>1. SUFFICES ASSUME c # Len(a) PROVE en[n] > c
    OBVIOUS
  <2>2. m # 0 /\ m \in 1 .. m /\ m - 1 \in 0 .. m
    BY <1>1, <1>6, <2>1
  <2>3. Len(W(m)) # 1 /\ Len(W(m)) \in Nat
    <3>1. Len(W(m)) \in Nat /\ Len(a) - c < Len(W(m))
      BY <1>3, <1>4, <2>2
    <3>2. \A x, y, l \in Nat : y \in 0 .. x /\ y # x /\ x - y < l => l # 1
      OBVIOUS
    <3>3. QED
      BY <1>1, <2>1, <3>1, <3>2, Zenon
  <2>4. P[m].kind \notin Spaces
    <3>1. P[m].kind = "str"
      BY <1>4, <2>2, <2>3
    <3>2. QED
      BY <3>1 DEF Spaces
  <2>5. n = pl[m - 1] + 1 /\ pl[m - 1] \in Nat
    BY <1>6, <1>8, <2>2, <2>4
  <2>6. n \in 1 .. n /\ n \in 0 .. n
    BY <2>5
  <2>7. ix[n] \in 1 .. m /\ pl[ix[n]] = n
    BY <1>13, <2>6
  <2>8. ~(ix[n] =< m - 1)
    <3>1. SUFFICES ASSUME ix[n] =< m - 1 PROVE FALSE
      OBVIOUS
    <3>2. ix[n] \in 0 .. m /\ m - 1 \in ix[n] .. m
      BY <1>1, <2>2, <2>7, <3>1
    <3>3. pl[ix[n]] =< pl[m - 1]
      BY <1>9, <3>2
    <3>4. QED
      BY <2>5, <2>7, <3>3
  <2>9. ix[n] = m
    BY <1>1, <2>7, <2>8
  <2>10. en[n] = Len(a)
    BY <1>6, <1>16, <2>6, <2>9
  <2>11. QED
    BY <1>1, <2>1, <2>10
<1>24. st \in [1 .. n + 1 -> Nat] /\ en \in [0 .. n -> Nat] /\ en[0] = 0
  <2>1. \A j \in 1 .. n + 1 : st[j] \in Nat
    <3>1. \A j \in 1 .. n : st[j] \in Nat
      BY <1>1, <1>19
    <3>2. st[n + 1] \in Nat /\ \A j \in 1 .. n + 1 : j \in 1 .. n \/ j = n + 1
      BY <1>1, <1>2, <1>15
    <3>3. QED
      BY <3>1, <3>2
  <2>2. \A j \in 0 .. n : en[j] \in Nat
    BY <1>16, <1>18
  <2>3. en[0] = 0
    <3>1. 0 \in 0 .. n
      BY <1>2
    <3>2. QED
      BY <1>6, <1>12, <1>16, <3>1
  <2>4. QED
    BY <1>17, <2>1, <2>2, <2>3
<1>25. Layout(b, st, en)
  <2>1. Len(s) = c
    BY <1>1
  <2>2. \A j \in 1 .. n :
               /\ B[j].kind \notin Spaces
               /\ st[j] \in 1 .. Len(s) /\ en[j] = st[j] + Len(Written(B[j])) - 1
               /\ \A k \in 1 .. Len(Written(B[j])) : st[j] + k - 1 =< Len(s) => s[st[j] + k - 1] = Written(B[j])[k]
    <3>1. SUFFICES ASSUME NEW j \in 1 .. n
                   PROVE  /\ B[j].kind \notin Spaces
                          /\ st[j] \in 1 .. c /\ en[j] = st[j] + Len(Written(B[j])) - 1
                          /\ \A k \in 1 .. Len(Written(B[j])) : st[j] + k - 1 =< c => s[st[j] + k - 1] = Written(B[j])[k]
      BY <2>1, Zenon
    <3>2. Written(B[j]) = W(ix[j])
      BY <1>20, Zenon DEF W
    <3>3. /\ B[j].kind \notin Spaces /\ st[j] \in 1 .. c /\ en[j] = st[j] + Len(W(ix[j])) - 1
          /\ \A k \in 1 .. Len(W(ix[j])) : st[j] + k - 1 =< c => s[st[j] + k - 1] = W(ix[j])[k]
      BY <1>19, <1>20
    <3>4. QED
      BY <3>2, <3>3
  <2>3. \A j \in 0 .. n : j < n \/ c = Len(a) => en[j] < st[j + 1]
    BY <1>21, Zenon
  <2>4. \A j \in 0 .. n : \A x \in en[j] + 1 .. st[j + 1] - 1 : s[x] \in Spaces
    BY <1>22, Zenon
  <2>5. c = Len(a) \/ en[n] > Len(s)
    BY <1>23, <2>1, Zenon
  <2>6. st[n + 1] = Len(s) + 1
    BY <1>15, <2>1, Zenon
  <2>7. QED
    BY <1>24, <2>2, <2>3, <2>4, <2>5, <2>6, Zenon DEF Layout, s, B, n, c, a
<1>26. QED
  BY <1>25, Zenon

\* What is used of a layout: st and en are where the pieces B begin and end in s.
Arranged(s, B, n, st, en, whole) ==
    /\ s \in Seq(Classes) /\ Len(s) \in Nat /\ n \in Nat
    /\ \A j \in 1 .. n : B[j] \in Pieces /\ B[j].kind \notin Spaces
    /\ en[0] = 0 /\ st[n + 1] = Len(s) + 1
    /\ \A j \in 1 .. n + 1 : st[j] \in 1 .. Len(s) + 1 /\ (st[j] =< Len(s) <=> j =< n)
    /\ \A j \in 0 .. n : en[j] \in Nat
    /\ \A j \in 1 .. n : /\ en[j] = st[j] + Len(Written(B[j])) - 1
                         /\ \A k \in 1 .. Len(Written(B[j])) : st[j] + k - 1 =< Len(s) => s[st[j] + k - 1] = Written(B[j])[k]
    /\ \A j \in 0 .. n : j < n \/ en[j] =< Len(s) => en[j] =< Len(s) /\ en[j] < st[j + 1]
    /\ \A j \in 0 .. n : \A x \in en[j] + 1 .. st[j + 1] - 1 : s[x] \in Spaces
    /\ en[n] =< Len(s) <=> whole

\* What Layout says, with the types of what it is about.
LEMMA LayoutIs ==
    ASSUME NEW b, Arrives(b), NEW st, NEW en, Layout(b, st, en)
    PROVE  Arranged(Chars(b), Bare(b), Len(Bare(b)), st, en, b.cut = Len(All(b)))
<1> DEFINE s == Chars(b)
           B == Bare(b)
           n == Len(B)
           whole == b.cut = Len(All(b))
<1>1. s \in Seq(Classes)
  BY BodyIs
<1>2. B \in Seq(Pieces) /\ n \in Nat
  BY PicksAre
<1>3. \A j \in 1 .. n : B[j] \in Pieces
  BY <1>2
<1>4. Len(s) \in Nat
  <2> HIDE DEF s
  <2>1. QED
    BY <1>1
<1>5. /\ st \in [1 .. n + 1 -> Nat] /\ en \in [0 .. n -> Nat] /\ en[0] = 0 /\ st[n + 1] = Len(s) + 1
      /\ \A j \in 1 .. n :
               /\ B[j].kind \notin Spaces
               /\ st[j] \in 1 .. Len(s) /\ en[j] = st[j] + Len(Written(B[j])) - 1
               /\ \A k \in 1 .. Len(Written(B[j])) : st[j] + k - 1 =< Len(s) => s[st[j] + k - 1] = Written(B[j])[k]
      /\ \A j \in 0 .. n : j < n \/ whole => en[j] < st[j + 1]
      /\ \A j \in 0 .. n : \A x \in en[j] + 1 .. st[j + 1] - 1 : s[x] \in Spaces
      /\ whole \/ en[n] > Len(s)
  BY Zenon DEF Layout
<1> HIDE DEF s, B, n, whole
<1>6. \A j \in 1 .. n + 1 : st[j] \in 1 .. Len(s) + 1 /\ (st[j] =< Len(s) <=> j =< n)
  <2>1. SUFFICES ASSUME NEW j \in 1 .. n + 1 PROVE st[j] \in 1 .. Len(s) + 1 /\ (st[j] =< Len(s) <=> j =< n)
    OBVIOUS
  <2>2. CASE j = n + 1
    <3>1. st[j] = Len(s) + 1 /\ ~(j =< n)
      BY <1>2, <1>5, <2>2
    <3>2. QED
      BY <1>4, <3>1
  <2>3. CASE j # n + 1
    <3>1. j \in 1 .. n
      BY <1>2, <2>3
    <3>2. st[j] \in 1 .. Len(s)
      BY <1>5, <3>1
    <3>3. QED
      BY <1>2, <1>4, <3>1, <3>2
  <2>4. QED
    BY <2>2, <2>3
<1>7. \A j \in 0 .. n : en[j] \in Nat
  BY <1>5
<1>8. \A j \in 0 .. n : j < n \/ en[j] =< Len(s) => en[j] =< Len(s) /\ en[j] < st[j + 1]
  <2>1. SUFFICES ASSUME NEW j \in 0 .. n, j < n \/ en[j] =< Len(s) PROVE en[j] =< Len(s) /\ en[j] < st[j + 1]
    OBVIOUS
  <2>2. j < n \/ whole
    <3>1. SUFFICES ASSUME ~(j < n) PROVE whole
      OBVIOUS
    <3>2. j = n
      BY <1>2, <3>1
    <3>3. en[n] =< Len(s) /\ en[n] \in Nat
      BY <1>7, <2>1, <3>1, <3>2
    <3>4. QED
      BY <1>4, <1>5, <3>3
  <2>3. en[j] < st[j + 1] /\ j + 1 \in 1 .. n + 1
    BY <1>2, <1>5, <2>2
  <2>4. st[j + 1] \in 1 .. Len(s) + 1 /\ en[j] \in Nat
    BY <1>6, <1>7, <2>3
  <2>5. QED
    BY <1>4, <2>3, <2>4
<1>9. en[n] =< Len(s) <=> whole
  <2>1. en[n] \in Nat /\ n \in 0 .. n
    BY <1>2, <1>7
  <2>2. whole => en[n] < Len(s) + 1
    BY <1>5, <2>1
  <2>3. QED
    BY <1>4, <1>5, <2>1, <2>2
<1>10. QED
  BY <1>1, <1>2, <1>3, <1>4, <1>5, <1>6, <1>7, <1>8, <1>9, Zenon DEF Arranged, s, B, n, whole

\* From the end of a piece, skip_spaces goes to the beginning of the next one.
LEMMA SkipTo ==
    ASSUME NEW b, Arrives(b), NEW st, NEW en, Layout(b, st, en), NEW j \in 0 .. Len(Bare(b)), NEW p \in en[j] + 1 .. st[j + 1]
    PROVE  SkipSpaces(Chars(b), p) = st[j + 1]
<1> DEFINE s == Chars(b)
           B == Bare(b)
           n == Len(B)
           q == st[j + 1]
<1>1. /\ Len(s) \in Nat /\ n \in Nat
      /\ \A i \in 1 .. n : B[i] \in Pieces /\ B[i].kind \notin Spaces
      /\ \A i \in 1 .. n + 1 : st[i] \in 1 .. Len(s) + 1 /\ (st[i] =< Len(s) <=> i =< n)
      /\ \A i \in 0 .. n : en[i] \in Nat
      /\ \A i \in 1 .. n : \A k \in 1 .. Len(Written(B[i])) : st[i] + k - 1 =< Len(s) => s[st[i] + k - 1] = Written(B[i])[k]
      /\ \A i \in 0 .. n : \A x \in en[i] + 1 .. st[i + 1] - 1 : s[x] \in Spaces
  <2>1. Arranged(s, B, n, st, en, b.cut = Len(All(b)))
    BY LayoutIs, Zenon
  <2>2. QED
    BY <2>1, Zenon DEF Arranged
<1>2. j \in 0 .. n
  OBVIOUS
<1> HIDE DEF s, B, n
<1>3. j + 1 \in 1 .. n + 1
  BY <1>1, <1>2
<1>4. q \in 1 .. Len(s) + 1 /\ (q =< Len(s) <=> j + 1 =< n) /\ en[j] \in Nat
  BY <1>1, <1>2, <1>3
<1>5. p \in Nat /\ q \in p .. Len(s) + 1
  BY <1>1, <1>4
<1>6. q =< Len(s) => s[q] \notin Spaces
  <2>1. SUFFICES ASSUME q =< Len(s) PROVE s[q] \notin Spaces
    OBVIOUS
  <2> DEFINE i == j + 1
  <2>2. i \in 1 .. n
    BY <1>1, <1>3, <1>4, <2>1
  <2>3. B[i] \in Pieces /\ B[i].kind \notin Spaces
    BY <1>1, <2>2
  <2> DEFINE w == Written(B[i])
  <2>4. Len(w) \in Nat \ {0} /\ (w[1] = "quote" \/ w[1] = B[i].kind)
    BY <2>3, WrittenIs, Zenon
  <2> HIDE DEF w
  <2>5. 1 \in 1 .. Len(w) /\ q + 1 - 1 = q
    BY <1>4, <2>4
  <2>6. s[q] = w[1]
    BY <1>1, <2>1, <2>2, <2>5 DEF w
  <2>7. "quote" \notin Spaces
    BY DEF Spaces
  <2>8. QED
    BY <2>3, <2>4, <2>6, <2>7
<1>7. \A x \in p .. q - 1 : s[x] \in Spaces
  <2>1. \A x \in p .. q - 1 : x \in en[j] + 1 .. q - 1
    BY <1>4, <1>5
  <2>2. QED
    BY <1>1, <1>2, <2>1
<1> HIDE DEF q
<1>8. q > Len(s) \/ s[q] \notin Spaces
  BY <1>1, <1>5, <1>6
<1>9. SkipSpaces(s, p) = q
  BY <1>1, <1>5, <1>7, <1>8, SkipIs
<1>10. QED
  BY <1>9 DEF s, q

\* The character where a piece begins tells a mark.
LEMMA MarkAt ==
    ASSUME NEW b, Arrives(b), NEW st, NEW en, Layout(b, st, en), NEW j \in 1 .. Len(Bare(b)) + 1,
           NEW c \in Classes \ {"quote"}
    PROVE  /\ st[j] =< Len(Chars(b)) /\ Chars(b)[st[j]] = c <=> j =< Len(Bare(b)) /\ Bare(b)[j].kind = c
           /\ j =< Len(Bare(b)) /\ Bare(b)[j].kind = c => en[j] = st[j]
<1> DEFINE s == Chars(b)
           B == Bare(b)
           n == Len(B)
           q == st[j]
           w == Written(B[j])
<1>1. /\ Len(s) \in Nat /\ n \in Nat
      /\ \A i \in 1 .. n : B[i] \in Pieces
      /\ \A i \in 1 .. n + 1 : st[i] \in 1 .. Len(s) + 1 /\ (st[i] =< Len(s) <=> i =< n)
      /\ \A i \in 1 .. n : /\ en[i] = st[i] + Len(Written(B[i])) - 1
                           /\ \A k \in 1 .. Len(Written(B[i])) : st[i] + k - 1 =< Len(s) => s[st[i] + k - 1] = Written(B[i])[k]
  <2>1. Arranged(s, B, n, st, en, b.cut = Len(All(b)))
    BY LayoutIs, Zenon
  <2>2. QED
    BY <2>1, Zenon DEF Arranged
<1>2. j \in 1 .. n + 1
  OBVIOUS
<1> HIDE DEF s, B, n, w
<1>3. q =< Len(s) <=> j =< n
  BY <1>1, <1>2
<1>4. ASSUME j =< n
      PROVE  s[q] = w[1] /\ (w[1] = c <=> B[j].kind = c) /\ (B[j].kind = c => en[j] = q)
  <2>1. j \in 1 .. n /\ q =< Len(s) /\ q \in Nat
    BY <1>1, <1>2, <1>3, <1>4
  <2>2. B[j] \in Pieces
    BY <1>1, <2>1
  <2>3. /\ Len(w) \in Nat \ {0}
        /\ B[j].kind = "str" => w[1] = "quote"
        /\ B[j].kind # "str" => Len(w) = 1 /\ w[1] = B[j].kind
    BY <2>2, WrittenIs, Zenon DEF w
  <2>4. "str" \notin Classes
    BY DEF Classes
  <2>5. w[1] = c <=> B[j].kind = c
    BY <2>3, <2>4
  <2>6. s[q] = w[1]
    <3>1. Len(w) \in Nat \ {0}
      BY <2>2, WrittenIs, Zenon DEF w
    <3>2. 1 \in 1 .. Len(w) /\ q + 1 - 1 = q
      BY <2>1, <3>1
    <3>3. QED
      BY <1>1, <2>1, <3>2 DEF w
  <2>7. B[j].kind = c => en[j] = q
    <3>1. B[j].kind = c => Len(w) = 1
      BY <2>3, <2>4
    <3>2. en[j] = q + Len(w) - 1
      BY <1>1, <2>1 DEF w
    <3>3. q + 1 - 1 = q
      BY <2>1
    <3>4. QED
      BY <3>1, <3>2, <3>3, Zenon
  <2>8. QED
    BY <2>5, <2>6, <2>7
<1>5. QED
  BY <1>3, <1>4, Zenon DEF s, B, n

\* parse_quoted at the beginning of a piece, or at the end of the body.
LEMMA StringAt ==
    ASSUME NEW b, Arrives(b), NEW st, NEW en, Layout(b, st, en), NEW j \in 1 .. Len(Bare(b)) + 1, NEW cap \in Nat,
           NEW s, s = Chars(b), NEW B, B = Bare(b)
    PROVE  ParseQuoted(s, st[j], cap) =
               IF /\ j =< Len(B) /\ B[j].kind = "str" /\ en[j] =< Len(s)
                  /\ "bad" \notin ToSet(Meaning(B[j])) /\ Len(B[j].units) < cap
               THEN [next |-> en[j] + 1, text |-> Meaning(B[j])] ELSE NoString
<1> DEFINE n == Len(B)
           q == st[j]
           w == Written(B[j])
<1>1. /\ s \in Seq(Classes) /\ Len(s) \in Nat /\ n \in Nat
      /\ \A i \in 1 .. n : B[i] \in Pieces
      /\ \A i \in 1 .. n + 1 : st[i] \in 1 .. Len(s) + 1 /\ (st[i] =< Len(s) <=> i =< n)
      /\ \A i \in 1 .. n : /\ en[i] = st[i] + Len(Written(B[i])) - 1
                           /\ \A k \in 1 .. Len(Written(B[i])) : st[i] + k - 1 =< Len(s) => s[st[i] + k - 1] = Written(B[i])[k]
  <2>1. Arranged(s, B, n, st, en, b.cut = Len(All(b)))
    BY LayoutIs, Zenon
  <2>2. QED
    BY <2>1, Zenon DEF Arranged
<1>2. j \in 1 .. n + 1
  OBVIOUS
<1> HIDE DEF n, w
<1>3. q \in 1 .. Len(s) + 1 /\ (q =< Len(s) <=> j =< n)
  BY <1>1, <1>2
<1>4. CASE ~(j =< n)
  <2>1. q > Len(s)
    BY <1>1, <1>3, <1>4
  <2>2. ParseQuoted(s, q, cap) = NoString
    BY <2>1, Zenon DEF ParseQuoted
  <2>3. QED
    BY <1>4, <2>2, Zenon DEF n
<1>5. CASE j =< n
  <2>1. j \in 1 .. n /\ q \in 1 .. Len(s) /\ q \in Nat
    BY <1>1, <1>2, <1>3, <1>5
  <2>2. B[j] \in Pieces
    BY <1>1, <2>1
  <2>3. /\ Len(w) \in Nat \ {0} /\ en[j] = q + Len(w) - 1
        /\ \A k \in 1 .. Len(w) : q + k - 1 =< Len(s) => s[q + k - 1] = w[k]
    <3>1. Len(w) \in Nat \ {0}
      BY <2>2, WrittenIs, Zenon DEF w
    <3>2. QED
      BY <1>1, <2>1, <3>1 DEF w
  <2>4. s[q] = w[1]
    <3>1. 1 \in 1 .. Len(w) /\ q + 1 - 1 = q /\ q =< Len(s)
      BY <2>1, <2>3
    <3>2. QED
      BY <2>3, <3>1
  <2>5. CASE B[j].kind # "str"
    <3>1. w[1] # "quote"
      <4>1. w[1] = B[j].kind /\ B[j].kind \in Classes \ {"quote"}
        BY <2>2, <2>5, WrittenIs, Zenon DEF w
      <4>2. QED
        BY <4>1
    <3>2. ParseQuoted(s, q, cap) = NoString
      BY <2>4, <3>1, Zenon DEF ParseQuoted
    <3>3. QED
      BY <2>5, <3>2, Zenon
  <2>6. CASE B[j].kind = "str"
    <3> DEFINE units == B[j].units
               e == FlattenSeq(Raws(units))
               m == Len(e)
    <3>1. units \in Seq(TextUnits) /\ w = <<"quote">> \o e \o <<"quote">>
      BY <2>2, <2>6, WrittenIs, Zenon DEF w
    <3>2. e \in Seq(Classes)
      BY <3>1, RawsAre
    <3> HIDE DEF e, units
    <3>3. Len(w) = m + 2 /\ w[m + 2] = "quote" /\ w[1] = "quote" /\ \A k \in 1 .. m : w[k + 1] = e[k]
      <4> DEFINE x == <<"quote">> \o e \o <<"quote">>
      <4>1. Len(x) = m + 2 /\ x[m + 2] = "quote" /\ x[1] = "quote" /\ \A k \in 1 .. m : x[k + 1] = e[k]
        BY <3>2, Quoted
      <4> HIDE DEF x, m
      <4>2. w = x
        BY <3>1, Zenon DEF x
      <4>3. QED
        BY <4>1, <4>2, Zenon
    <3>4. m \in Nat
      BY <3>2
    <3> HIDE DEF m
    <3>5. QuotedAt(s, q, e)
      <4>1. q + m + 1 =< Len(s) => s[q + m + 1] = "quote"
        <5>1. m + 2 \in 1 .. Len(w) /\ q + (m + 2) - 1 = q + m + 1
          <6>1. \A l \in Nat : l = m + 2 => m + 2 \in 1 .. l /\ q + (m + 2) - 1 = q + m + 1
            BY <2>1, <3>4
          <6>2. QED
            BY <2>3, <3>3, <6>1
        <5>2. QED
          BY <2>3, <3>3, <5>1
      <4>2. ASSUME NEW k \in 1 .. m, q + k =< Len(s) PROVE s[q + k] = e[k]
        <5>1. k + 1 \in 1 .. Len(w) /\ q + (k + 1) - 1 = q + k
          BY <2>1, <3>3, <3>4
        <5>2. QED
          BY <2>3, <3>3, <4>2, <5>1
      <4>3. s[q] = "quote"
        BY <2>4, <3>3
      <4>4. QED
        BY <4>1, <4>2, <4>3, Zenon DEF QuotedAt, m
    <3>6. ParseQuoted(s, q, cap) =
              IF q + Len(e) + 1 =< Len(s) /\ "bad" \notin ToSet(Means(units)) /\ Len(units) < cap
              THEN [next |-> q + Len(e) + 2, text |-> Means(units)] ELSE NoString
      <4>1. q \in 1 .. Len(s) /\ e = FlattenSeq(Raws(units)) /\ s \in Seq(Classes)
        BY <1>1, <2>1 DEF e
      <4> HIDE DEF q
      <4>2. QED
        BY <3>1, <3>5, <4>1, StringIs, Zenon
    <3>7. en[j] = q + m + 1 /\ en[j] + 1 = q + m + 2
      BY <2>1, <2>3, <3>3, <3>4
    <3>8. Meaning(B[j]) = Means(units)
      BY Zenon DEF Meaning, Means, units
    <3>9. ParseQuoted(s, q, cap) =
              IF en[j] =< Len(s) /\ "bad" \notin ToSet(Meaning(B[j])) /\ Len(units) < cap
              THEN [next |-> en[j] + 1, text |-> Meaning(B[j])] ELSE NoString
      BY <3>6, <3>7, <3>8, Zenon DEF m
    <3>10. QED
      BY <1>5, <2>6, <3>9, Zenon DEF n, units
  <2>7. QED
    BY <2>5, <2>6
<1>6. QED
  BY <1>4, <1>5

-----------------------------------------------------------------------------
(* What json_get_string makes of a body *)

\* The four places of a pair.
LEMMA Four ==
    ASSUME NEW j \in Nat
    PROVE  /\ j % 4 \in 0 .. 3
           /\ j % 4 = 0 => (j + 1) % 4 = 1
           /\ j % 4 = 1 => (j + 1) % 4 = 2 /\ (j + 2) % 4 = 3 /\ (j + 3) % 4 = 0 /\ (j + 4) % 4 = 1
  OBVIOUS

\* What may stand at a place, and how long it may be.
LEMMA ExpectedIs ==
    ASSUME NEW i \in Nat
    PROVE  /\ Expected(i) \in {"lbrace", "str", "colon", "comma"}
           /\ Expected(1) = "lbrace"
           /\ i % 4 = 2 => Expected(i) = "str" /\ Limit(i) = NameCap
           /\ i % 4 = 3 => Expected(i) = "colon"
           /\ i % 4 = 0 => Expected(i) = "str" /\ Limit(i) = ValueCap
           /\ i % 4 = 1 /\ i # 1 => Expected(i) = "comma"
<1>1. i % 4 \in {1, 2, 3, 0}
  OBVIOUS
<1>2. 1 % 4 = 1
  OBVIOUS
<1> DEFINE r == i % 4
<1>3. i = 1 => r = 1
  BY <1>2
<1>4. Expected(i) = IF i = 1 THEN "lbrace" ELSE IF r \in {0, 2} THEN "str" ELSE IF r = 3 THEN "colon" ELSE "comma"
  BY Zenon DEF Expected
<1>5. Limit(i) = IF r = 2 THEN NameCap ELSE ValueCap
  BY Zenon DEF Limit
<1>6. Expected(1) = "lbrace"
  BY Zenon DEF Expected
<1> HIDE DEF r
<1>7. r \in {1, 2, 3, 0}
  BY <1>1 DEF r
<1>8. /\ Expected(i) \in {"lbrace", "str", "colon", "comma"}
      /\ r = 2 => Expected(i) = "str" /\ Limit(i) = NameCap
      /\ r = 3 => Expected(i) = "colon"
      /\ r = 0 => Expected(i) = "str" /\ Limit(i) = ValueCap
      /\ r = 1 /\ i # 1 => Expected(i) = "comma"
  <2>1. CASE i = 1
    BY <1>3, <1>4, <2>1
  <2>2. CASE i # 1 /\ r = 1
    BY <1>4, <2>2
  <2>3. CASE i # 1 /\ r = 2
    BY <1>4, <1>5, <2>3
  <2>4. CASE i # 1 /\ r = 3
    BY <1>4, <2>4
  <2>5. CASE i # 1 /\ r = 0
    BY <1>4, <1>5, <2>5
  <2>6. QED
    BY <1>7, <2>1, <2>2, <2>3, <2>4, <2>5
<1>9. QED
  BY <1>6, <1>8, Zenon DEF r

\* The first j pieces are those of an object, up to a comma or the opening brace,
\* or up to a value that the closing brace follows.
Begun(B, n, j) ==
    /\ \A i \in 1 .. j : InPlace(B[i], i)
    /\ j % 4 = 1 \/ (j % 4 = 0 /\ j < n /\ B[j + 1].kind = "rbrace")

\* How a well-formed object goes on.
LEMMA GoesOn ==
    ASSUME NEW b, WellFormed(b), NEW B, B = Bare(b), NEW n \in Nat, n = Len(B), NEW j \in 1 .. n, Begun(B, n, j)
    PROVE  /\ j < n
           /\ B[j + 1].kind = "rbrace" => j + 1 = n
           /\ B[j + 1].kind # "rbrace" => /\ j + 4 =< n /\ InPlace(B[j + 1], j + 1) /\ InPlace(B[j + 2], j + 2)
                                     /\ InPlace(B[j + 3], j + 3) /\ B[j + 4].kind \in {"comma", "rbrace"}
<1>1. n >= 2 /\ n % 4 \in {1, 2} /\ B[n].kind = "rbrace" /\ \A i \in 1 .. n - 1 : InPlace(B[i], i)
  BY Zenon DEF WellFormed
<1>2. ASSUME NEW i \in Nat, InPlace(B[i], i) PROVE B[i].kind = Expected(i) /\ B[i].kind # "rbrace"
  <2>1. B[i].kind = Expected(i)
    BY <1>2 DEF InPlace
  <2>2. Expected(i) \in {"lbrace", "str", "colon", "comma"}
    BY ExpectedIs
  <2>3. QED
    BY <2>1, <2>2
<1>3. j \in Nat /\ InPlace(B[j], j)
  <2>1. j \in Nat /\ j \in 1 .. j
    OBVIOUS
  <2>2. QED
    BY <2>1, Zenon DEF Begun
<1>4. j < n
  <2>1. j # n
    BY <1>1, <1>2, <1>3
  <2>2. QED
    BY <2>1
<1>5. B[j + 1].kind = "rbrace" => j + 1 = n
  <2>1. SUFFICES ASSUME B[j + 1].kind = "rbrace", j + 1 # n PROVE FALSE
    OBVIOUS
  <2>2. j + 1 \in 1 .. n - 1 /\ j + 1 \in Nat
    BY <1>3, <1>4, <2>1
  <2>3. InPlace(B[j + 1], j + 1)
    BY <1>1, <2>2
  <2>4. QED
    BY <1>2, <2>1, <2>2, <2>3
<1>6. ASSUME B[j + 1].kind # "rbrace"
      PROVE  /\ j + 4 =< n /\ InPlace(B[j + 1], j + 1) /\ InPlace(B[j + 2], j + 2)
             /\ InPlace(B[j + 3], j + 3) /\ B[j + 4].kind \in {"comma", "rbrace"}
  <2>1. j % 4 = 1 /\ j + 1 # n
    BY <1>1, <1>6 DEF Begun
  <2>2. (j + 1) % 4 = 2 /\ (j + 2) % 4 = 3 /\ (j + 3) % 4 = 0 /\ (j + 4) % 4 = 1
    BY <1>3, <2>1, Four
  <2>3. n # j + 2 /\ n # j + 3
    BY <1>1, <2>2
  <2>4. j + 4 =< n
    BY <1>3, <1>4, <2>1, <2>3
  <2>5. j + 1 \in 1 .. n - 1 /\ j + 2 \in 1 .. n - 1 /\ j + 3 \in 1 .. n - 1
    BY <1>3, <2>4
  <2>6. B[j + 4].kind \in {"comma", "rbrace"}
    <3>1. CASE j + 4 = n
      BY <1>1, <3>1
    <3>2. CASE j + 4 # n
      <4>1. j + 4 \in 1 .. n - 1 /\ j + 4 \in Nat /\ j + 4 # 1
        BY <1>3, <2>4, <3>2
      <4>2. InPlace(B[j + 4], j + 4) /\ Expected(j + 4) = "comma"
        BY <1>1, <2>2, <4>1, ExpectedIs
      <4>3. QED
        BY <1>2, <4>1, <4>2
    <3>3. QED
      BY <3>1, <3>2
  <2>7. QED
    BY <1>1, <2>4, <2>5, <2>6
<1>7. QED
  BY <1>4, <1>5, <1>6

\* What the steps of the parser find in a body that is laid out so.
Reads(s, B, n, st, en) ==
    /\ \A i \in 0 .. n : \A x \in en[i] + 1 .. st[i + 1] : SkipSpaces(s, x) = st[i + 1]
    /\ \A i \in 1 .. n + 1 : \A c \in {"lbrace", "colon", "comma", "rbrace"} :
           /\ st[i] =< Len(s) /\ s[st[i]] = c <=> i =< n /\ B[i].kind = c
           /\ i =< n /\ B[i].kind = c => en[i] = st[i]
    /\ \A i \in 1 .. n + 1 : \A cap \in Nat :
           ParseQuoted(s, st[i], cap) =
               IF /\ i =< n /\ B[i].kind = "str" /\ en[i] =< Len(s)
                  /\ "bad" \notin ToSet(Meaning(B[i])) /\ Len(B[i].units) < cap
               THEN [next |-> en[i] + 1, text |-> Meaning(B[i])] ELSE NoString

\* The three lemmas on a layout, taken together.
LEMMA ReadsSo ==
    ASSUME NEW b, Arrives(b), NEW st, NEW en, Layout(b, st, en)
    PROVE  Reads(Chars(b), Bare(b), Len(Bare(b)), st, en)
<1>1. \A i \in 0 .. Len(Bare(b)) : \A x \in en[i] + 1 .. st[i + 1] : SkipSpaces(Chars(b), x) = st[i + 1]
  <2>1. SUFFICES ASSUME NEW i \in 0 .. Len(Bare(b)), NEW x \in en[i] + 1 .. st[i + 1]
                 PROVE  SkipSpaces(Chars(b), x) = st[i + 1]
    BY Zenon
  <2>2. QED
    BY SkipTo
<1>2. {"lbrace", "colon", "comma", "rbrace"} \subseteq Classes \ {"quote"}
  BY DEF Classes
<1>3. ASSUME NEW i \in 1 .. Len(Bare(b)) + 1, NEW c \in {"lbrace", "colon", "comma", "rbrace"}
      PROVE  /\ st[i] =< Len(Chars(b)) /\ Chars(b)[st[i]] = c <=> i =< Len(Bare(b)) /\ Bare(b)[i].kind = c
             /\ i =< Len(Bare(b)) /\ Bare(b)[i].kind = c => en[i] = st[i]
  <2>1. c \in Classes \ {"quote"}
    BY <1>2
  <2>2. QED
    BY <2>1, MarkAt
<1>4. ASSUME NEW i \in 1 .. Len(Bare(b)) + 1, NEW cap \in Nat
      PROVE  ParseQuoted(Chars(b), st[i], cap) =
                 IF /\ i =< Len(Bare(b)) /\ Bare(b)[i].kind = "str" /\ en[i] =< Len(Chars(b))
                    /\ "bad" \notin ToSet(Meaning(Bare(b)[i])) /\ Len(Bare(b)[i].units) < cap
                 THEN [next |-> en[i] + 1, text |-> Meaning(Bare(b)[i])] ELSE NoString
  BY StringAt, Zenon
<1>5. QED
  BY <1>1, <1>3, <1>4, Zenon DEF Reads

\* What Pair reads behind j pieces: nothing of a well-formed object is refused,
\* and what is taken is a name, a colon and a value, and a comma if there is one.
LEMMA PairReads ==
    ASSUME NEW b, Arrives(b), NEW st, NEW en, Layout(b, st, en),
           NEW s, s = Chars(b), NEW B, B = Bare(b), NEW n, n = Len(B), NEW j \in 1 .. n, Begun(B, n, j),
           NEW at \in en[j] + 1 .. st[j + 1], NEW p, p = SkipSpaces(s, at), p =< Len(s), s[p] # "rbrace",
           NEW name, name = ParseQuoted(s, p, NameCap),
           NEW colon, colon = SkipSpaces(s, name.next),
           NEW value, value = ParseQuoted(s, SkipSpaces(s, colon + 1), ValueCap),
           NEW after, after = SkipSpaces(s, value.next)
    PROVE  /\ j % 4 = 1
           /\ name = NoString \/ ~(colon =< Len(s) /\ s[colon] = "colon") \/ value = NoString => ~WellFormed(b)
           /\ name # NoString /\ colon =< Len(s) /\ s[colon] = "colon" /\ value # NoString =>
                  /\ j + 3 =< n /\ B[j + 1].kind = "str" /\ name.text = Meaning(B[j + 1])
                  /\ value.text = Meaning(B[j + 3]) /\ value.text \in Seq(Classes)
                  /\ ~(after =< Len(s) /\ s[after] \in {"comma", "rbrace"}) => ~WellFormed(b)
                  /\ after =< Len(s) /\ s[after] = "comma" =>
                         j + 4 =< n /\ Begun(B, n, j + 4) /\ after + 1 \in en[j + 4] + 1 .. st[j + 5]
                  /\ after =< Len(s) /\ s[after] = "rbrace" =>
                         j + 4 =< n /\ Begun(B, n, j + 3) /\ after \in en[j + 3] + 1 .. st[j + 4]
<1> DEFINE whole == b.cut = Len(All(b))
<1>0. Reads(s, B, n, st, en)
  BY ReadsSo, Zenon
<1>1. /\ Len(s) \in Nat /\ n \in Nat
      /\ \A i \in 1 .. n : B[i] \in Pieces
      /\ \A i \in 1 .. n + 1 : st[i] \in 1 .. Len(s) + 1 /\ (st[i] =< Len(s) <=> i =< n)
      /\ \A i \in 0 .. n : en[i] \in Nat
      /\ \A i \in 0 .. n : i < n \/ en[i] =< Len(s) => en[i] =< Len(s) /\ en[i] < st[i + 1]
  <2>1. Arranged(s, B, n, st, en, whole)
    BY LayoutIs, Zenon
  <2>2. QED
    BY <2>1, Zenon DEF Arranged
<1>2. ASSUME NEW i \in 0 .. n, NEW x \in en[i] + 1 .. st[i + 1] PROVE SkipSpaces(s, x) = st[i + 1]
  BY <1>0, Zenon DEF Reads
<1>3. ASSUME NEW i \in 1 .. n + 1, NEW c \in {"colon", "comma", "rbrace"}
      PROVE  /\ st[i] =< Len(s) /\ s[st[i]] = c <=> i =< n /\ B[i].kind = c
             /\ i =< n /\ B[i].kind = c => en[i] = st[i]
  BY <1>0, Zenon DEF Reads
<1>4. ASSUME NEW i \in 1 .. n + 1, NEW cap \in Nat
      PROVE  ParseQuoted(s, st[i], cap) =
                 IF /\ i =< n /\ B[i].kind = "str" /\ en[i] =< Len(s)
                    /\ "bad" \notin ToSet(Meaning(B[i])) /\ Len(B[i].units) < cap
                 THEN [next |-> en[i] + 1, text |-> Meaning(B[i])] ELSE NoString
  BY <1>0, Zenon DEF Reads
<1>5. NameCap \in Nat /\ ValueCap \in Nat
  BY SizesAssumption
<1> HIDE DEF whole
<1>6. j \in Nat /\ j \in 0 .. n /\ j + 1 \in 1 .. n + 1
  BY <1>1
<1>7. p = st[j + 1]
  BY <1>2, <1>6
<1>8. j + 1 =< n /\ B[j + 1].kind # "rbrace"
  <2>1. j + 1 =< n
    BY <1>1, <1>6, <1>7
  <2>2. QED
    BY <1>3, <1>6, <1>7, <2>1, Zenon
<1>9. j % 4 = 1
  BY <1>8 DEF Begun
<1>10. (j + 1) % 4 = 2 /\ (j + 2) % 4 = 3 /\ (j + 3) % 4 = 0 /\ (j + 4) % 4 = 1
  BY <1>6, <1>9, Four
<1>11. /\ Expected(j + 1) = "str" /\ Limit(j + 1) = NameCap /\ Expected(j + 2) = "colon"
       /\ Expected(j + 3) = "str" /\ Limit(j + 3) = ValueCap /\ Expected(j + 4) = "comma"
  <2>1. j + 1 \in Nat /\ j + 2 \in Nat /\ j + 3 \in Nat /\ j + 4 \in Nat /\ j + 4 # 1
    BY <1>6
  <2>2. QED
    BY <1>10, <2>1, ExpectedIs, Zenon
<1>12. WellFormed(b) => /\ j + 4 =< n /\ InPlace(B[j + 1], j + 1) /\ InPlace(B[j + 2], j + 2)
                        /\ InPlace(B[j + 3], j + 3) /\ B[j + 4].kind \in {"comma", "rbrace"}
  BY <1>1, <1>8, GoesOn
<1>13. /\ InPlace(B[j + 1], j + 1) <=> B[j + 1].kind = "str" /\ "bad" \notin ToSet(Meaning(B[j + 1])) /\ Len(B[j + 1].units) < NameCap
       /\ InPlace(B[j + 3], j + 3) <=> B[j + 3].kind = "str" /\ "bad" \notin ToSet(Meaning(B[j + 3])) /\ Len(B[j + 3].units) < ValueCap
       /\ B[j + 2].kind = "colon" <=> InPlace(B[j + 2], j + 2)
       /\ B[j + 4].kind = "comma" <=> InPlace(B[j + 4], j + 4)
  <2>1. "colon" # "str" /\ "comma" # "str"
    OBVIOUS
  <2>2. QED
    BY <1>11, <2>1, Zenon DEF InPlace
<1>14. name = NoString => ~WellFormed(b)
  <2>1. SUFFICES ASSUME WellFormed(b) PROVE name # NoString
    OBVIOUS
  <2>2. j + 4 =< n /\ InPlace(B[j + 1], j + 1)
    BY <1>12, <2>1
  <2>3. j + 1 \in 0 .. n /\ j + 1 < n
    BY <1>1, <1>6, <2>2
  <2>4. en[j + 1] =< Len(s) /\ en[j + 1] \in Nat
    BY <1>1, <2>3
  <2>5. name = [next |-> en[j + 1] + 1, text |-> Meaning(B[j + 1])]
    BY <1>4, <1>5, <1>6, <1>7, <1>8, <1>13, <2>2, <2>4, Zenon
  <2>6. en[j + 1] + 1 # 0
    BY <2>4
  <2>7. QED
    BY <2>5, <2>6 DEF NoString
<1>15. CASE name = NoString
  BY <1>9, <1>14, <1>15
<1>16. CASE name # NoString
  <2>1. /\ InPlace(B[j + 1], j + 1) /\ en[j + 1] =< Len(s)
        /\ name = [next |-> en[j + 1] + 1, text |-> Meaning(B[j + 1])]
    <3>1. ParseQuoted(s, st[j + 1], NameCap) # NoString
      BY <1>7, <1>16, Zenon
    <3>2. QED
      BY <1>4, <1>5, <1>6, <1>7, <1>13, <3>1, Zenon
  <2>2. name.next = en[j + 1] + 1 /\ name.text = Meaning(B[j + 1])
    BY <2>1
  <2>3. j + 1 \in 0 .. n /\ (j + 1) + 1 = j + 2 /\ j + 2 \in 1 .. n + 1
    BY <1>1, <1>6, <1>8
  <2>4. en[j + 1] < st[j + 2] /\ en[j + 1] \in Nat /\ st[j + 2] \in 1 .. Len(s) + 1
    BY <1>1, <2>1, <2>3
  <2>5. en[j + 1] + 1 \in en[j + 1] + 1 .. st[j + 2]
    BY <1>1, <2>4
  <2>6. colon = st[j + 2]
    BY <1>2, <2>2, <2>3, <2>5
  <2>7. colon =< Len(s) /\ s[colon] = "colon" <=> j + 2 =< n /\ B[j + 2].kind = "colon"
    BY <1>3, <2>3, <2>6, Zenon
  <2>8. CASE ~(colon =< Len(s) /\ s[colon] = "colon")
    <3>1. ~WellFormed(b)
      <4>1. SUFFICES ASSUME WellFormed(b) PROVE j + 2 =< n /\ B[j + 2].kind = "colon"
        BY <2>7, <2>8
      <4>2. j + 4 =< n /\ B[j + 2].kind = "colon"
        BY <1>12, <1>13, <4>1
      <4>3. QED
        BY <1>1, <1>6, <4>2
    <3>2. QED
      BY <1>9, <2>8, <3>1
  <2>9. CASE colon =< Len(s) /\ s[colon] = "colon"
    <3>1. j + 2 =< n /\ B[j + 2].kind = "colon" /\ en[j + 2] = colon /\ InPlace(B[j + 2], j + 2)
      BY <1>3, <1>13, <2>3, <2>6, <2>7, <2>9, Zenon
    <3>2. j + 2 \in 0 .. n /\ (j + 2) + 1 = j + 3 /\ j + 3 \in 1 .. n + 1
      BY <1>1, <1>6, <3>1
    <3>3. en[j + 2] < st[j + 3] /\ en[j + 2] \in Nat /\ st[j + 3] \in 1 .. Len(s) + 1
      BY <1>1, <2>9, <3>1, <3>2
    <3>4. colon + 1 \in en[j + 2] + 1 .. st[j + 3]
      BY <1>1, <3>1, <3>3
    <3>5. SkipSpaces(s, colon + 1) = st[j + 3]
      BY <1>2, <3>2, <3>4
    <3>6. value = ParseQuoted(s, st[j + 3], ValueCap)
      BY <3>5, Zenon
    <3>7. value = NoString => ~WellFormed(b)
      <4>1. SUFFICES ASSUME WellFormed(b) PROVE value # NoString
        OBVIOUS
      <4>2. j + 4 =< n /\ InPlace(B[j + 3], j + 3)
        BY <1>12, <4>1
      <4>3. j + 3 \in 0 .. n /\ j + 3 < n /\ j + 3 =< n
        BY <1>1, <1>6, <4>2
      <4>4. en[j + 3] =< Len(s) /\ en[j + 3] \in Nat
        BY <1>1, <4>3
      <4>5. value = [next |-> en[j + 3] + 1, text |-> Meaning(B[j + 3])]
        BY <1>4, <1>5, <1>13, <3>2, <3>6, <4>2, <4>3, <4>4, Zenon
      <4>6. en[j + 3] + 1 # 0
        BY <4>4
      <4>7. QED
        BY <4>5, <4>6 DEF NoString
    <3>8. CASE value = NoString
      BY <1>9, <3>7, <3>8
    <3>9. CASE value # NoString
      <4>1. /\ j + 3 =< n /\ InPlace(B[j + 3], j + 3) /\ en[j + 3] =< Len(s)
            /\ value = [next |-> en[j + 3] + 1, text |-> Meaning(B[j + 3])]
        <5>1. ParseQuoted(s, st[j + 3], ValueCap) # NoString
          BY <3>6, <3>9, Zenon
        <5>2. QED
          BY <1>4, <1>5, <1>13, <3>2, <3>6, <5>1, Zenon
      <4>2. value.next = en[j + 3] + 1 /\ value.text = Meaning(B[j + 3])
        BY <4>1
      <4>3. value.text \in Seq(Classes)
        <5>1. B[j + 3] \in Pieces /\ B[j + 3].kind = "str" /\ "bad" \notin ToSet(Meaning(B[j + 3]))
          <6>1. j + 3 \in 1 .. n
            BY <1>1, <1>6, <4>1
          <6>2. QED
            BY <1>1, <1>13, <4>1, <6>1, Zenon
        <5>2. B[j + 3].units \in Seq(TextUnits)
          BY <5>1, WrittenIs, Zenon
        <5>3. Meaning(B[j + 3]) = Means(B[j + 3].units)
          BY Zenon DEF Meaning, Means
        <5>4. QED
          BY <4>2, <5>1, <5>2, <5>3, MeansAre, Zenon
      <4>4. j + 3 \in 0 .. n /\ (j + 3) + 1 = j + 4 /\ j + 4 \in 1 .. n + 1
        BY <1>1, <1>6, <4>1
      <4>5. en[j + 3] < st[j + 4] /\ en[j + 3] \in Nat /\ st[j + 4] \in 1 .. Len(s) + 1
        BY <1>1, <4>1, <4>4
      <4>6. en[j + 3] + 1 \in en[j + 3] + 1 .. st[j + 4] /\ st[j + 4] \in en[j + 3] + 1 .. st[j + 4]
        BY <1>1, <4>5
      <4>7. after = st[j + 4]
        BY <1>2, <4>2, <4>4, <4>6
      <4>8. ~(after =< Len(s) /\ s[after] \in {"comma", "rbrace"}) => ~WellFormed(b)
        <5>1. SUFFICES ASSUME WellFormed(b) PROVE after =< Len(s) /\ s[after] \in {"comma", "rbrace"}
          OBVIOUS
        <5>2. j + 4 =< n /\ B[j + 4].kind \in {"comma", "rbrace"}
          BY <1>12, <5>1
        <5>3. QED
          BY <1>3, <4>4, <4>7, <5>2, Zenon
      <4>9. \A i \in 1 .. j + 3 : InPlace(B[i], i)
        <5>1. \A i \in 1 .. j + 3 : i \in 1 .. j \/ i = j + 1 \/ i = j + 2 \/ i = j + 3
          BY <1>6
        <5>2. \A i \in 1 .. j : InPlace(B[i], i)
          BY DEF Begun
        <5>3. QED
          BY <2>1, <3>1, <4>1, <5>1, <5>2, Zenon
      <4>10. ASSUME after =< Len(s), s[after] = "comma"
             PROVE  j + 4 =< n /\ Begun(B, n, j + 4) /\ after + 1 \in en[j + 4] + 1 .. st[j + 5]
        <5>1. j + 4 =< n /\ B[j + 4].kind = "comma" /\ en[j + 4] = after
          BY <1>3, <4>4, <4>7, <4>10, Zenon
        <5>2. \A i \in 1 .. j + 4 : i \in 1 .. j + 3 \/ i = j + 4
          BY <1>6
        <5>3. Begun(B, n, j + 4)
          BY <1>10, <1>13, <4>9, <5>1, <5>2, Zenon DEF Begun
        <5>4. j + 4 \in 0 .. n /\ (j + 4) + 1 = j + 5 /\ j + 5 \in 1 .. n + 1
          BY <1>1, <1>6, <5>1
        <5>5. en[j + 4] < st[j + 5] /\ en[j + 4] \in Nat /\ st[j + 5] \in 1 .. Len(s) + 1
          BY <1>1, <4>10, <5>1, <5>4
        <5>6. QED
          BY <1>1, <5>1, <5>3, <5>5
      <4>11. ASSUME after =< Len(s), s[after] = "rbrace"
             PROVE  j + 4 =< n /\ Begun(B, n, j + 3) /\ after \in en[j + 3] + 1 .. st[j + 4]
        <5>1. j + 4 =< n /\ B[j + 4].kind = "rbrace"
          BY <1>3, <4>4, <4>7, <4>11, Zenon
        <5>2. j + 3 < n
          BY <1>1, <1>6, <5>1
        <5>3. Begun(B, n, j + 3)
          BY <1>10, <4>4, <4>9, <5>1, <5>2, Zenon DEF Begun
        <5>4. QED
          BY <4>6, <4>7, <5>1, <5>3
      <4>12. B[j + 1].kind = "str"
        BY <1>13, <2>1, Zenon
      <4>13. QED
        BY <1>9, <1>16, <2>2, <2>9, <3>9, <4>1, <4>2, <4>3, <4>8, <4>10, <4>11, <4>12, Zenon
    <3>10. QED
      BY <3>8, <3>9
  <2>10. QED
    BY <2>8, <2>9
<1>17. QED
  BY <1>15, <1>16

-----------------------------------------------------------------------------
(* json_get_string finds what the body means *)

\* The names that are the field's, in the whole body and in its first k pieces.
Own(b, f) == {i \in DOMAIN Bare(b) : i % 4 = 2 /\ Bare(b)[i].kind = "str" /\ CString(Meaning(Bare(b)[i])) = f.name}
OwnUpTo(b, f, k) == {i \in Own(b, f) : i =< k}

\* The field's only value among these names is o, and fits.
Only(b, f, own, o) == \E i \in own : own = {i} /\ o = ValueAt(b, i) /\ Len(ValueAt(b, i)) < f.cap

\* A loop that has read k pieces knows whether the field was among them, and its value.
Collected(b, f, k, fnd, o) == IF fnd THEN Only(b, f, OwnUpTo(b, f, k), o) ELSE OwnUpTo(b, f, k) = {}

\* Between two turns the parser stands behind a piece, and the pieces before it
\* are the first ones of an object.
Behind(b, f, p, fnd, o) ==
    \E st, en : Layout(b, st, en) /\ \E j \in 1 .. Len(Bare(b)) :
        Begun(Bare(b), Len(Bare(b)), j) /\ p \in en[j] + 1 .. st[j + 1] /\ Collected(b, f, j, fnd, o)

\* ParsesAsSpecified of a body, a field, a text and an answer.
Specified(b, f, o, r) ==
    /\ r = "OK" <=> r # "none" /\ WellFormed(b) /\ Only(b, f, Own(b, f), o)
    /\ r = "MISSING_FIELD" <=> r # "none" /\ WellFormed(b) /\ Own(b, f) = {}
    /\ r = "PAYLOAD_TOO_LARGE" => \E i \in Own(b, f) : Len(ValueAt(b, i)) >= f.cap

\* An object begins with its brace.
LEMMA Opens ==
    ASSUME NEW b, Arrives(b), NEW f, NEW o, NEW s, s = Chars(b), NEW p, p = SkipSpaces(s, 1)
    PROVE  /\ ~(p =< Len(s) /\ s[p] = "lbrace") => ~WellFormed(b)
           /\ p =< Len(s) /\ s[p] = "lbrace" => Behind(b, f, p + 1, FALSE, o)
<1>1. PICK st, en : Layout(b, st, en)
  BY LayoutExists, Zenon
<1> DEFINE B == Bare(b)
           n == Len(B)
<1>2. Arranged(s, B, n, st, en, b.cut = Len(All(b))) /\ Reads(s, B, n, st, en)
  BY <1>1, LayoutIs, ReadsSo, Zenon
<1>3. /\ Len(s) \in Nat /\ n \in Nat /\ en[0] = 0
      /\ \A i \in 1 .. n + 1 : st[i] \in 1 .. Len(s) + 1 /\ (st[i] =< Len(s) <=> i =< n)
      /\ \A i \in 0 .. n : en[i] \in Nat
      /\ \A i \in 0 .. n : i < n \/ en[i] =< Len(s) => en[i] =< Len(s) /\ en[i] < st[i + 1]
  BY <1>2, Zenon DEF Arranged
<1>4. \A i \in 0 .. n : \A x \in en[i] + 1 .. st[i + 1] : SkipSpaces(s, x) = st[i + 1]
  BY <1>2, Zenon DEF Reads
<1>5. \A i \in 1 .. n + 1 : /\ st[i] =< Len(s) /\ s[st[i]] = "lbrace" <=> i =< n /\ B[i].kind = "lbrace"
                            /\ i =< n /\ B[i].kind = "lbrace" => en[i] = st[i]
  BY <1>2, Zenon DEF Reads
<1> HIDE DEF B, n
<1>6. 0 \in 0 .. n /\ 1 \in 1 .. n + 1 /\ 0 + 1 = 1
  BY <1>3
<1>7. st[1] \in 1 .. Len(s) + 1 /\ 1 \in en[0] + 1 .. st[0 + 1]
  BY <1>3, <1>6
<1>8. p = st[1]
  BY <1>4, <1>6, <1>7
<1>9. p =< Len(s) /\ s[p] = "lbrace" <=> 1 =< n /\ B[1].kind = "lbrace"
  BY <1>5, <1>6, <1>8, Zenon
<1>10. Expected(1) = "lbrace" /\ Expected(1) # "str" /\ 1 % 4 = 1
  <2>1. Expected(1) = "lbrace"
    BY ExpectedIs
  <2>2. QED
    BY <2>1
<1>11. WellFormed(b) => 1 =< n /\ B[1].kind = "lbrace"
  <2>1. SUFFICES ASSUME WellFormed(b) PROVE 1 =< n /\ B[1].kind = "lbrace"
    OBVIOUS
  <2>2. n >= 2 /\ \A i \in 1 .. n - 1 : InPlace(B[i], i)
    BY <2>1, Zenon DEF WellFormed, B, n
  <2>3. 1 \in 1 .. n - 1 /\ 1 =< n
    BY <1>3, <2>2
  <2>4. QED
    BY <1>10, <2>2, <2>3 DEF InPlace
<1>12. ASSUME p =< Len(s), s[p] = "lbrace" PROVE Behind(b, f, p + 1, FALSE, o)
  <2>1. 1 \in 1 .. n /\ B[1].kind = "lbrace" /\ en[1] = st[1] /\ 1 \in 0 .. n
    BY <1>3, <1>5, <1>6, <1>8, <1>9, <1>12
  <2>2. \A i \in 1 .. 1 : i = 1
    OBVIOUS
  <2>3. Begun(B, n, 1)
    <3>1. InPlace(B[1], 1)
      BY <1>10, <2>1, Zenon DEF InPlace
    <3>2. QED
      BY <1>10, <2>2, <3>1, Zenon DEF Begun
  <2>4. p + 1 \in en[1] + 1 .. st[1 + 1]
    <3>1. 1 + 1 \in 1 .. n + 1
      BY <1>3, <2>1
    <3>2. en[1] < st[1 + 1] /\ en[1] \in Nat /\ st[1 + 1] \in 1 .. Len(s) + 1
      BY <1>3, <1>8, <1>12, <2>1, <3>1
    <3>3. QED
      BY <1>3, <1>8, <2>1, <3>2
  <2>5. OwnUpTo(b, f, 1) = {}
    <3>1. \A i \in 1 .. n : i % 4 = 2 /\ i =< 1 => FALSE
      BY <1>3
    <3>2. DOMAIN Bare(b) = 1 .. n
      BY PicksAre DEF n, B
    <3>3. QED
      BY <3>1, <3>2, Zenon DEF OwnUpTo, Own
  <2>6. QED
    BY <1>1, <2>1, <2>3, <2>4, <2>5, Zenon DEF Behind, Collected, B, n
<1>13. QED
  BY <1>9, <1>11, <1>12

\* What the end of the body, or a closing brace, tells.
LEMMA Closes ==
    ASSUME NEW b, Arrives(b), NEW f, NEW o, NEW fnd \in BOOLEAN, NEW at, Behind(b, f, at, fnd, o),
           NEW s, s = Chars(b), NEW p, p = SkipSpaces(s, at)
    PROVE  /\ p > Len(s) => ~WellFormed(b)
           /\ p =< Len(s) /\ s[p] = "rbrace" =>
                  IF SkipSpaces(s, p + 1) =< Len(s) THEN ~WellFormed(b)
                  ELSE WellFormed(b) /\ IF fnd THEN Only(b, f, Own(b, f), o) ELSE Own(b, f) = {}
<1> DEFINE B == Bare(b)
           n == Len(B)
<1>1. PICK st, en : Layout(b, st, en) /\ \E j \in 1 .. Len(Bare(b)) :
          Begun(Bare(b), Len(Bare(b)), j) /\ at \in en[j] + 1 .. st[j + 1] /\ Collected(b, f, j, fnd, o)
  BY Zenon DEF Behind
<1>2. PICK j \in 1 .. n : Begun(B, n, j) /\ at \in en[j] + 1 .. st[j + 1] /\ Collected(b, f, j, fnd, o)
  BY <1>1, Zenon
<1>3. Arranged(s, B, n, st, en, b.cut = Len(All(b))) /\ Reads(s, B, n, st, en)
  BY <1>1, LayoutIs, ReadsSo, Zenon
<1>4. /\ Len(s) \in Nat /\ n \in Nat
      /\ \A i \in 1 .. n + 1 : st[i] \in 1 .. Len(s) + 1 /\ (st[i] =< Len(s) <=> i =< n)
      /\ \A i \in 0 .. n : en[i] \in Nat
      /\ \A i \in 0 .. n : i < n \/ en[i] =< Len(s) => en[i] =< Len(s) /\ en[i] < st[i + 1]
      /\ en[n] =< Len(s) <=> b.cut = Len(All(b))
  BY <1>3, Zenon DEF Arranged
<1>5. \A i \in 0 .. n : \A x \in en[i] + 1 .. st[i + 1] : SkipSpaces(s, x) = st[i + 1]
  BY <1>3, Zenon DEF Reads
<1>6. \A i \in 1 .. n + 1 : /\ st[i] =< Len(s) /\ s[st[i]] = "rbrace" <=> i =< n /\ B[i].kind = "rbrace"
                            /\ i =< n /\ B[i].kind = "rbrace" => en[i] = st[i]
  BY <1>3, Zenon DEF Reads
<1>7. WellFormed(b) => j < n /\ (B[j + 1].kind = "rbrace" => j + 1 = n)
  BY <1>2, <1>4, GoesOn, Zenon
<1>8. DOMAIN Bare(b) = 1 .. n
  BY PicksAre
<1> HIDE DEF B, n
<1>9. j \in Nat /\ j \in 0 .. n /\ j + 1 \in 1 .. n + 1
  BY <1>4
<1>10. p = st[j + 1]
  BY <1>2, <1>5, <1>9
<1>11. p \in Nat /\ (p =< Len(s) <=> j + 1 =< n)
  BY <1>4, <1>9, <1>10
<1>12. p > Len(s) => ~WellFormed(b)
  BY <1>4, <1>7, <1>9, <1>11
<1>13. ASSUME p =< Len(s), s[p] = "rbrace"
       PROVE  IF SkipSpaces(s, p + 1) =< Len(s) THEN ~WellFormed(b)
              ELSE WellFormed(b) /\ IF fnd THEN Only(b, f, Own(b, f), o) ELSE Own(b, f) = {}
  <2>1. j + 1 =< n /\ B[j + 1].kind = "rbrace" /\ en[j + 1] = p
    BY <1>6, <1>9, <1>10, <1>13, Zenon
  <2>2. j + 1 \in 0 .. n /\ (j + 1) + 1 = j + 2 /\ j + 2 \in 1 .. n + 1
    BY <1>4, <1>9, <2>1
  <2>3. en[j + 1] < st[j + 2] /\ st[j + 2] \in 1 .. Len(s) + 1 /\ (st[j + 2] =< Len(s) <=> j + 2 =< n)
    BY <1>4, <1>13, <2>1, <2>2
  <2>4. p + 1 \in en[j + 1] + 1 .. st[j + 2]
    BY <1>4, <1>11, <2>1, <2>3
  <2>5. SkipSpaces(s, p + 1) = st[j + 2]
    BY <1>5, <2>2, <2>4
  <2>6. CASE j + 2 =< n
    <3>1. j + 1 # n
      BY <1>4, <1>9, <2>6
    <3>2. ~WellFormed(b)
      BY <1>7, <2>1, <3>1
    <3>3. SkipSpaces(s, p + 1) =< Len(s)
      BY <2>3, <2>5, <2>6
    <3>4. QED
      BY <3>2, <3>3
  <2>7. CASE ~(j + 2 =< n)
    <3>1. j + 1 = n /\ n - 1 = j
      BY <1>4, <1>9, <2>1, <2>7
    <3>2. ~(SkipSpaces(s, p + 1) =< Len(s))
      BY <2>3, <2>5, <2>7
    <3>3. b.cut = Len(All(b))
      BY <1>4, <1>13, <2>1, <3>1
    <3>4. n >= 2 /\ n % 4 \in {1, 2}
      <4>1. j % 4 = 1 \/ j % 4 = 0
        BY <1>2 DEF Begun
      <4>2. (j + 1) % 4 \in {1, 2} /\ j + 1 >= 2
        BY <1>9, <4>1, Four
      <4>3. QED
        BY <3>1, <4>2
    <3>5. \A i \in 1 .. n - 1 : InPlace(B[i], i)
      BY <1>2, <3>1, Zenon DEF Begun
    <3>6. WellFormed(b)
      BY <2>1, <3>1, <3>3, <3>4, <3>5, Zenon DEF WellFormed, B, n
    <3>7. OwnUpTo(b, f, j) = Own(b, f)
      <4>1. \A i \in 1 .. n : i =< j \/ i = n
        BY <1>9, <3>1
      <4>2. Bare(b)[n].kind # "str"
        BY <2>1, <3>1 DEF B
      <4>3. \A i \in Own(b, f) : i \in 1 .. n /\ Bare(b)[i].kind = "str"
        BY <1>8, Zenon DEF Own
      <4>4. \A i \in Own(b, f) : i =< j
        BY <4>1, <4>2, <4>3, Zenon
      <4>5. QED
        BY <4>4, Zenon DEF OwnUpTo
    <3>8. IF fnd THEN Only(b, f, Own(b, f), o) ELSE Own(b, f) = {}
      BY <1>2, <3>7, Zenon DEF Collected
    <3>9. QED
      BY <3>2, <3>6, <3>8
  <2>8. QED
    BY <2>6, <2>7
<1>14. QED
  BY <1>12, <1>13

\* A pair adds its name to the names read so far, if it is the field's.
LEMMA OwnGrows ==
    ASSUME NEW b, NEW f, DOMAIN Bare(b) \subseteq Nat, NEW j \in Nat, j % 4 = 1, NEW k, k = j + 3 \/ k = j + 4
    PROVE  /\ j + 1 \notin OwnUpTo(b, f, j)
           /\ OwnUpTo(b, f, k) = IF j + 1 \in Own(b, f) THEN OwnUpTo(b, f, j) \cup {j + 1} ELSE OwnUpTo(b, f, j)
<1>1. (j + 2) % 4 = 3 /\ (j + 3) % 4 = 0 /\ (j + 4) % 4 = 1
  BY Four
<1>2. \A i \in Nat : i % 4 = 2 => (i =< k <=> i =< j \/ i = j + 1)
  <2>1. \A i \in Nat : i = j + 2 \/ i = j + 3 \/ i = j + 4 => i % 4 # 2
    BY <1>1
  <2>2. \A i \in Nat : i =< k => i =< j \/ i = j + 1 \/ i = j + 2 \/ i = j + 3 \/ i = j + 4
    OBVIOUS
  <2>3. \A i \in Nat : i =< j \/ i = j + 1 => i =< k
    OBVIOUS
  <2>4. QED
    BY <2>1, <2>2, <2>3
<1>3. \A i \in Own(b, f) : i \in Nat /\ i % 4 = 2
  BY Zenon DEF Own
<1>4. \A i \in Own(b, f) : i =< k <=> i =< j \/ i = j + 1
  BY <1>2, <1>3
<1>5. ~(j + 1 =< j)
  OBVIOUS
<1> DEFINE X == Own(b, f)
           old == {i \in X : i =< j}
           new == {i \in X : i =< k}
<1>6. j + 1 \notin old
  BY <1>5
<1>7. \A i : i \in new <=> i \in old \/ (i \in X /\ i = j + 1)
  BY <1>4, Zenon
<1> HIDE DEF X, old, new
<1>8. new = IF j + 1 \in X THEN old \cup {j + 1} ELSE old
  BY <1>7
<1>9. QED
  BY <1>6, <1>8, Zenon DEF OwnUpTo, X, old, new

\* A turn of the loop on a pair: what it refuses is no such object, or has the
\* field twice or with too long a text, and what it takes leaves the parser behind
\* the next pieces.
Turned(b, f, at, fnd, o) ==
    LET s == Chars(b)
        p == SkipSpaces(s, at)
        name == ParseQuoted(s, p, NameCap)
        colon == SkipSpaces(s, name.next)
        value == ParseQuoted(s, SkipSpaces(s, colon + 1), ValueCap)
        after == SkipSpaces(s, value.next)
        mine == CString(name.text) = f.name
        text == CString(value.text)
    IN  p =< Len(s) /\ s[p] # "rbrace" =>
            IF name = NoString \/ ~(colon =< Len(s) /\ s[colon] = "colon") \/ value = NoString THEN ~WellFormed(b)
            ELSE IF mine /\ fnd THEN Own(b, f) # {} /\ \A i : Own(b, f) # {i}
            ELSE IF mine /\ Len(text) + 1 > f.cap
                 THEN \E i \in Own(b, f) : Len(ValueAt(b, i)) >= f.cap /\ ~(Len(ValueAt(b, i)) < f.cap)
            ELSE IF ~(after =< Len(s) /\ s[after] \in {"comma", "rbrace"}) THEN ~WellFormed(b)
            ELSE Behind(b, f, IF s[after] = "comma" THEN after + 1 ELSE after, fnd \/ mine, IF mine THEN text ELSE o)

\* The loop's turns on a pair are such.
LEMMA PairTakes ==
    ASSUME NEW b, Arrives(b), NEW f, f.cap \in Nat, NEW o, NEW fnd \in BOOLEAN, NEW at, Behind(b, f, at, fnd, o)
    PROVE  Turned(b, f, at, fnd, o)
<1> DEFINE s == Chars(b)
           p == SkipSpaces(s, at)
           name == ParseQuoted(s, p, NameCap)
           colon == SkipSpaces(s, name.next)
           value == ParseQuoted(s, SkipSpaces(s, colon + 1), ValueCap)
           after == SkipSpaces(s, value.next)
           mine == CString(name.text) = f.name
           text == CString(value.text)
<1>0. SUFFICES ASSUME p =< Len(s), s[p] # "rbrace"
               PROVE  IF name = NoString \/ ~(colon =< Len(s) /\ s[colon] = "colon") \/ value = NoString THEN ~WellFormed(b)
                      ELSE IF mine /\ fnd THEN Own(b, f) # {} /\ \A i : Own(b, f) # {i}
                      ELSE IF mine /\ Len(text) + 1 > f.cap
                           THEN \E i \in Own(b, f) : Len(ValueAt(b, i)) >= f.cap /\ ~(Len(ValueAt(b, i)) < f.cap)
                      ELSE IF ~(after =< Len(s) /\ s[after] \in {"comma", "rbrace"}) THEN ~WellFormed(b)
                      ELSE Behind(b, f, IF s[after] = "comma" THEN after + 1 ELSE after, fnd \/ mine, IF mine THEN text ELSE o)
  BY Zenon DEF Turned
<1>8. /\ s = Chars(b) /\ p = SkipSpaces(s, at) /\ name = ParseQuoted(s, p, NameCap)
      /\ colon = SkipSpaces(s, name.next) /\ value = ParseQuoted(s, SkipSpaces(s, colon + 1), ValueCap)
      /\ after = SkipSpaces(s, value.next) /\ text = CString(value.text) /\ (mine <=> CString(name.text) = f.name)
      /\ mine \in BOOLEAN
  OBVIOUS
<1> HIDE DEF s, p, name, colon, value, after, mine, text
<1> DEFINE B == Bare(b)
           n == Len(B)
<1>1. PICK st, en : Layout(b, st, en) /\ \E j \in 1 .. Len(Bare(b)) :
          Begun(Bare(b), Len(Bare(b)), j) /\ at \in en[j] + 1 .. st[j + 1] /\ Collected(b, f, j, fnd, o)
  BY Zenon DEF Behind
<1>2. PICK j \in 1 .. n : Begun(B, n, j) /\ at \in en[j] + 1 .. st[j + 1] /\ Collected(b, f, j, fnd, o)
  BY <1>1, Zenon
<1>3. /\ j % 4 = 1
      /\ name = NoString \/ ~(colon =< Len(s) /\ s[colon] = "colon") \/ value = NoString => ~WellFormed(b)
      /\ name # NoString /\ colon =< Len(s) /\ s[colon] = "colon" /\ value # NoString =>
             /\ j + 3 =< n /\ B[j + 1].kind = "str" /\ name.text = Meaning(B[j + 1])
             /\ value.text = Meaning(B[j + 3]) /\ value.text \in Seq(Classes)
             /\ ~(after =< Len(s) /\ s[after] \in {"comma", "rbrace"}) => ~WellFormed(b)
             /\ after =< Len(s) /\ s[after] = "comma" =>
                    j + 4 =< n /\ Begun(B, n, j + 4) /\ after + 1 \in en[j + 4] + 1 .. st[j + 5]
             /\ after =< Len(s) /\ s[after] = "rbrace" =>
                    j + 4 =< n /\ Begun(B, n, j + 3) /\ after \in en[j + 3] + 1 .. st[j + 4]
  <2>1. B = Bare(b) /\ n = Len(B)
    OBVIOUS
  <2>2. Layout(b, st, en)
    BY <1>1
  <2> HIDE DEF B, n
  <2>3. QED
    BY <1>0, <1>2, <1>8, <2>1, <2>2, PairReads
<1>4. n \in Nat /\ DOMAIN Bare(b) = 1 .. n
  BY PicksAre
<1> HIDE DEF B, n
<1>5. CASE name = NoString \/ ~(colon =< Len(s) /\ s[colon] = "colon") \/ value = NoString
  BY <1>3, <1>5
<1>6. CASE ~(name = NoString \/ ~(colon =< Len(s) /\ s[colon] = "colon") \/ value = NoString)
  <2>1. /\ j + 3 =< n /\ B[j + 1].kind = "str" /\ name.text = Meaning(B[j + 1])
        /\ value.text = Meaning(B[j + 3]) /\ value.text \in Seq(Classes)
        /\ ~(after =< Len(s) /\ s[after] \in {"comma", "rbrace"}) => ~WellFormed(b)
        /\ after =< Len(s) /\ s[after] = "comma" =>
               j + 4 =< n /\ Begun(B, n, j + 4) /\ after + 1 \in en[j + 4] + 1 .. st[j + 5]
        /\ after =< Len(s) /\ s[after] = "rbrace" =>
               j + 4 =< n /\ Begun(B, n, j + 3) /\ after \in en[j + 3] + 1 .. st[j + 4]
    BY <1>3, <1>6, Zenon
  <2>2. j \in Nat /\ j + 1 \in 1 .. n /\ j + 3 \in 1 .. n /\ (j + 1) + 2 = j + 3 /\ (j + 1) % 4 = 2
    <3>1. j + 3 =< n /\ j % 4 = 1
      BY <1>3, <2>1, Zenon
    <3>2. QED
      BY <1>4, <3>1, Four
  <2>3. mine <=> j + 1 \in Own(b, f)
    BY <1>4, <1>8, <2>1, <2>2, Zenon DEF Own, B
  <2>4. text = ValueAt(b, j + 1)
    <3>1. ValueAt(b, j + 1) = CString(Meaning(B[j + 3]))
      BY <2>2, Zenon DEF ValueAt, B
    <3>2. QED
      BY <1>8, <2>1, <3>1, Zenon
  <2>5. Len(text) \in Nat
    <3>1. text \in Seq(Classes)
      BY <1>8, <2>1, CStringIs, Zenon
    <3>2. QED
      BY <3>1
  <2>6. DOMAIN Bare(b) \subseteq Nat
    BY <1>4
  <2>7. j + 1 \notin OwnUpTo(b, f, j)
    BY <1>3, <2>2, <2>6, OwnGrows
  <2>8. ASSUME NEW k, k = j + 3 \/ k = j + 4
        PROVE  OwnUpTo(b, f, k) = IF mine THEN OwnUpTo(b, f, j) \cup {j + 1} ELSE OwnUpTo(b, f, j)
    BY <1>3, <2>2, <2>3, <2>6, <2>8, OwnGrows
  <2>9. CASE mine /\ fnd
    <3>1. PICK i \in OwnUpTo(b, f, j) : TRUE
      BY <1>2, <2>9, Zenon DEF Collected, Only
    <3>2. i # j + 1 /\ i \in Own(b, f) /\ j + 1 \in Own(b, f)
      BY <2>3, <2>7, <2>9, Zenon DEF OwnUpTo
    <3>3. Own(b, f) # {} /\ \A x : Own(b, f) # {x}
      BY <3>2
    <3>4. QED
      BY <1>6, <2>9, <3>3
  <2>10. CASE mine /\ ~fnd /\ Len(text) + 1 > f.cap
    <3>1. Len(text) >= f.cap /\ ~(Len(text) < f.cap)
      BY <2>5, <2>10
    <3>2. \E i \in Own(b, f) : Len(ValueAt(b, i)) >= f.cap /\ ~(Len(ValueAt(b, i)) < f.cap)
      BY <2>3, <2>4, <2>10, <3>1, Zenon
    <3>3. QED
      BY <1>6, <2>10, <3>2
  <2>11. CASE ~(mine /\ fnd) /\ ~(mine /\ Len(text) + 1 > f.cap)
    <3>1. CASE ~(after =< Len(s) /\ s[after] \in {"comma", "rbrace"})
      BY <1>6, <2>1, <2>11, <3>1
    <3>2. CASE after =< Len(s) /\ s[after] \in {"comma", "rbrace"}
      <4>1. ASSUME NEW k, k = j + 3 \/ k = j + 4
            PROVE  Collected(b, f, k, fnd \/ mine, IF mine THEN text ELSE o)
        <5>1. CASE mine
          <6>1. ~fnd /\ OwnUpTo(b, f, j) = {}
            BY <1>2, <2>11, <5>1, Zenon DEF Collected
          <6>2. OwnUpTo(b, f, k) = {j + 1}
            BY <2>8, <4>1, <5>1, <6>1
          <6>3. Len(text) < f.cap
            BY <2>5, <2>11, <5>1
          <6>4. Only(b, f, OwnUpTo(b, f, k), text)
            BY <2>4, <6>2, <6>3 DEF Only
          <6>5. QED
            BY <5>1, <6>4, Zenon DEF Collected
        <5>2. CASE ~mine
          <6>1. OwnUpTo(b, f, k) = OwnUpTo(b, f, j)
            BY <2>8, <4>1, <5>2
          <6>2. QED
            BY <1>2, <5>2, <6>1, Zenon DEF Collected
        <5>3. QED
          BY <5>1, <5>2
      <4>2. CASE s[after] = "comma"
        <5>1. j + 4 \in 1 .. n /\ Begun(B, n, j + 4) /\ after + 1 \in en[j + 4] + 1 .. st[(j + 4) + 1]
          <6>1. j + 4 =< n /\ Begun(B, n, j + 4) /\ after + 1 \in en[j + 4] + 1 .. st[j + 5]
            BY <2>1, <3>2, <4>2
          <6>2. j + 4 \in 1 .. n /\ (j + 4) + 1 = j + 5
            BY <1>4, <2>2, <6>1
          <6>3. QED
            BY <6>1, <6>2
        <5>2. Collected(b, f, j + 4, fnd \/ mine, IF mine THEN text ELSE o)
          BY <4>1, Zenon
        <5>3. Behind(b, f, after + 1, fnd \/ mine, IF mine THEN text ELSE o)
          BY <1>1, <5>1, <5>2, Zenon DEF Behind, B, n
        <5>4. QED
          BY <1>6, <2>11, <3>2, <4>2, <5>3, Zenon
      <4>3. CASE s[after] = "rbrace"
        <5>1. j + 3 \in 1 .. n /\ Begun(B, n, j + 3) /\ after \in en[j + 3] + 1 .. st[(j + 3) + 1]
          <6>1. Begun(B, n, j + 3) /\ after \in en[j + 3] + 1 .. st[j + 4]
            BY <2>1, <3>2, <4>3
          <6>2. (j + 3) + 1 = j + 4
            BY <2>2
          <6>3. QED
            BY <2>2, <6>1, <6>2
        <5>2. Collected(b, f, j + 3, fnd \/ mine, IF mine THEN text ELSE o)
          BY <4>1, Zenon
        <5>3. Behind(b, f, after, fnd \/ mine, IF mine THEN text ELSE o)
          BY <1>1, <5>1, <5>2, Zenon DEF Behind, B, n
        <5>4. s[after] # "comma"
          BY <4>3
        <5>5. QED
          BY <1>6, <2>11, <3>2, <5>3, <5>4, Zenon
      <4>4. QED
        BY <3>2, <4>2, <4>3
    <3>3. QED
      BY <3>1, <3>2
  <2>12. QED
    BY <2>9, <2>10, <2>11
<1>7. QED
  BY <1>5, <1>6

\* What json_get_string's answers must say: an answer of BAD_REQUEST, where there
\* is no such object or the field is there twice, and one of PAYLOAD_TOO_LARGE.
LEMMA Refusals ==
    ASSUME NEW b, NEW f, NEW o
    PROVE  /\ Specified(b, f, o, "none")
           /\ ~WellFormed(b) => Specified(b, f, o, "BAD_REQUEST")
           /\ Own(b, f) # {} /\ (\A i : Own(b, f) # {i}) => Specified(b, f, o, "BAD_REQUEST")
           /\ (\E i \in Own(b, f) : Len(ValueAt(b, i)) >= f.cap /\ ~(Len(ValueAt(b, i)) < f.cap)) =>
                  Specified(b, f, o, "PAYLOAD_TOO_LARGE")
<1>1. /\ "none" # "OK" /\ "none" # "MISSING_FIELD" /\ "none" # "PAYLOAD_TOO_LARGE"
      /\ "BAD_REQUEST" # "OK" /\ "BAD_REQUEST" # "MISSING_FIELD" /\ "BAD_REQUEST" # "PAYLOAD_TOO_LARGE"
      /\ "PAYLOAD_TOO_LARGE" # "OK" /\ "PAYLOAD_TOO_LARGE" # "MISSING_FIELD"
  OBVIOUS
<1>2. Specified(b, f, o, "none")
  BY <1>1, Zenon DEF Specified
<1>3. ~WellFormed(b) => Specified(b, f, o, "BAD_REQUEST")
  BY <1>1, Zenon DEF Specified
<1>4. Own(b, f) # {} /\ (\A i : Own(b, f) # {i}) => Specified(b, f, o, "BAD_REQUEST")
  BY <1>1, Zenon DEF Specified, Only
<1>5. ASSUME NEW i \in Own(b, f), Len(ValueAt(b, i)) >= f.cap, ~(Len(ValueAt(b, i)) < f.cap)
      PROVE  Specified(b, f, o, "PAYLOAD_TOO_LARGE")
  <2>1. ~Only(b, f, Own(b, f), o)
    <3>1. SUFFICES ASSUME NEW x \in Own(b, f), Own(b, f) = {x}, Len(ValueAt(b, x)) < f.cap PROVE FALSE
      BY Zenon DEF Only
    <3>2. x = i
      BY <3>1, Zenon
    <3>3. QED
      BY <1>5, <3>1, <3>2, Zenon
  <2>2. Own(b, f) # {}
    BY Zenon
  <2>3. QED
    BY <1>1, <1>5, <2>1, <2>2, Zenon DEF Specified
<1>6. QED
  BY <1>2, <1>3, <1>4, <1>5, Zenon

\* And its answers at the end of an object.
LEMMA Answers ==
    ASSUME NEW b, NEW f, NEW o, WellFormed(b)
    PROVE  /\ Only(b, f, Own(b, f), o) => Specified(b, f, o, "OK")
           /\ Own(b, f) = {} => Specified(b, f, o, "MISSING_FIELD")
<1>1. "OK" # "none" /\ "OK" # "MISSING_FIELD" /\ "OK" # "PAYLOAD_TOO_LARGE" /\ "MISSING_FIELD" # "none" /\ "MISSING_FIELD" # "PAYLOAD_TOO_LARGE"
  OBVIOUS
<1>2. ASSUME Only(b, f, Own(b, f), o) PROVE Specified(b, f, o, "OK")
  <2>1. Own(b, f) # {}
    BY <1>2, Zenon DEF Only
  <2>2. QED
    BY <1>1, <1>2, <2>1, Zenon DEF Specified
<1>3. ASSUME Own(b, f) = {} PROVE Specified(b, f, o, "MISSING_FIELD")
  <2>1. ~Only(b, f, Own(b, f), o)
    BY <1>3, Zenon DEF Only
  <2>2. QED
    BY <1>1, <1>3, <2>1, Zenon DEF Specified
<1>4. QED
  BY <1>2, <1>3

\* The state of the loop agrees with what was read of the body.
ParseInv ==
    /\ Specified(body, field, out, result) /\ found \in BOOLEAN
    /\ stage \in {"open", "turn"} => result = "none"
    /\ stage = "open" => ~found /\ ptr = 1
    /\ stage = "turn" => Behind(body, field, ptr, found, out)

\* A turn on a pair keeps ParseInv.
LEMMA ParseInvPair ==
    ASSUME CodecInv, ParseInv, Pair
    PROVE  ParseInv'
<1> DEFINE s == Chars(body)
           p == SkipSpaces(s, ptr)
           name == ParseQuoted(s, p, NameCap)
           colon == SkipSpaces(s, name.next)
           value == ParseQuoted(s, SkipSpaces(s, colon + 1), ValueCap)
           after == SkipSpaces(s, value.next)
           mine == CString(name.text) = field.name
           text == CString(value.text)
           bad == name = NoString \/ ~(colon =< Len(s) /\ s[colon] = "colon") \/ value = NoString
           goes == after =< Len(s) /\ s[after] \in {"comma", "rbrace"}
<1>1. /\ stage = "turn" /\ p =< Len(s) /\ s[p] # "rbrace" /\ body' = body /\ field' = field
      /\ IF bad \/ (mine /\ found) THEN Return("BAD_REQUEST")
         ELSE IF mine /\ Len(text) + 1 > field.cap THEN Return("PAYLOAD_TOO_LARGE")
         ELSE IF ~goes THEN Return("BAD_REQUEST")
         ELSE /\ ptr' = IF s[after] = "comma" THEN after + 1 ELSE after
              /\ found' = (found \/ mine) /\ out' = IF mine THEN text ELSE out
              /\ stage' = stage /\ result' = result
  <2>1. \A x : x \in {"colon"} <=> x = "colon"
    OBVIOUS
  <2>2. QED
    BY <2>1, Zenon DEF Pair, ValueBuffer
<1>2. /\ Behind(body, field, ptr, found, out) /\ result = "none" /\ found \in BOOLEAN
  BY <1>1 DEF ParseInv
<1>3. Arrives(body) /\ field.cap \in Nat
  <2>1. body \in Bodies /\ field \in Fields
    BY DEF CodecInv
  <2>2. QED
    BY <2>1, BodiesAssumption, SizesAssumption
<1>4. IF bad THEN ~WellFormed(body)
      ELSE IF mine /\ found THEN Own(body, field) # {} /\ \A i : Own(body, field) # {i}
      ELSE IF mine /\ Len(text) + 1 > field.cap
           THEN \E i \in Own(body, field) : Len(ValueAt(body, i)) >= field.cap /\ ~(Len(ValueAt(body, i)) < field.cap)
      ELSE IF ~goes THEN ~WellFormed(body)
      ELSE Behind(body, field, IF s[after] = "comma" THEN after + 1 ELSE after, found \/ mine, IF mine THEN text ELSE out)
  <2>1. Turned(body, field, ptr, found, out)
    BY <1>2, <1>3, PairTakes, Zenon
  <2>2. QED
    BY <1>1, <2>1, Zenon DEF Turned
<1> HIDE DEF s, p, name, colon, value, after, mine, text, bad, goes
<1>5. CASE bad \/ (mine /\ found) \/ (mine /\ Len(text) + 1 > field.cap) \/ ~goes
  <2>1. Specified(body, field, out, result') /\ result' # "OK" /\ stage' = "done" /\ found' = found /\ out' = out
    <3>1. \/ Return("BAD_REQUEST") /\ Specified(body, field, out, "BAD_REQUEST")
          \/ Return("PAYLOAD_TOO_LARGE") /\ Specified(body, field, out, "PAYLOAD_TOO_LARGE")
      BY <1>1, <1>4, <1>5, Refusals, Zenon
    <3>2. QED
      BY <3>1 DEF Return
  <2>2. QED
    BY <1>1, <1>2, <2>1 DEF ParseInv
<1>6. CASE ~(bad \/ (mine /\ found) \/ (mine /\ Len(text) + 1 > field.cap) \/ ~goes)
  <2>1. /\ Behind(body, field, ptr', found', out') /\ found' \in BOOLEAN
        /\ stage' = "turn" /\ result' = "none"
    BY <1>1, <1>2, <1>4, <1>6, Zenon
  <2>2. Specified(body, field, out', result')
    BY <2>1, Refusals, Zenon
  <2>3. QED
    BY <1>1, <2>1, <2>2 DEF ParseInv
<1>7. QED
  BY <1>5, <1>6

\* Every step keeps ParseInv.
LEMMA ParseInvNext == CodecInv /\ ParseInv /\ [CodecNext]_codecVars => ParseInv'
<1> SUFFICES ASSUME CodecInv, ParseInv, [CodecNext]_codecVars
             PROVE  ParseInv'
  OBVIOUS
<1> DEFINE s == Chars(body)
<1>1. Arrives(body)
  BY BodiesAssumption DEF CodecInv
<1>2. found \in BOOLEAN
  BY DEF ParseInv
<1>3. CASE OpenObject
  <2> DEFINE p == SkipSpaces(s, 1)
             opens == p =< Len(s) /\ s[p] = "lbrace"
  <2>1. /\ stage = "open" /\ body' = body /\ field' = field
        /\ \/ ~opens /\ Return("BAD_REQUEST")
           \/ opens /\ ptr' = p + 1 /\ stage' = "turn" /\ UNCHANGED <<found, out, result>>
    BY <1>3, Zenon DEF OpenObject
  <2>2. ~found /\ result = "none"
    BY <2>1 DEF ParseInv
  <2>3. (~opens => ~WellFormed(body)) /\ (opens => Behind(body, field, p + 1, FALSE, out))
    BY <1>1, Opens, Zenon
  <2> HIDE DEF s, p, opens
  <2>4. CASE ~opens /\ Return("BAD_REQUEST")
    <3>1. Specified(body, field, out, "BAD_REQUEST")
      BY <2>3, <2>4, Refusals, Zenon
    <3>2. result' = "BAD_REQUEST" /\ stage' = "done" /\ found' = found /\ out' = out
      BY <2>4 DEF Return
    <3>3. QED
      BY <1>2, <2>1, <3>1, <3>2 DEF ParseInv
  <2>5. CASE opens /\ ptr' = p + 1 /\ stage' = "turn" /\ UNCHANGED <<found, out, result>>
    <3>1. found = FALSE
      BY <1>2, <2>2
    <3>2. Behind(body, field, ptr', found', out')
      BY <2>3, <2>5, <3>1
    <3>3. Specified(body, field, out, "none")
      BY Refusals, Zenon
    <3>4. QED
      BY <1>2, <2>1, <2>2, <2>5, <3>2, <3>3 DEF ParseInv
  <2>6. QED
    BY <2>1, <2>4, <2>5
<1>4. CASE Pair
  BY <1>4, ParseInvPair
<1>5. CASE CloseObject
  <2> DEFINE p == SkipSpaces(s, ptr)
             more == SkipSpaces(s, p + 1) =< Len(s)
             answer == IF more THEN "BAD_REQUEST" ELSE IF found THEN "OK" ELSE "MISSING_FIELD"
  <2>1. /\ stage = "turn" /\ body' = body /\ field' = field
        /\ \/ p > Len(s) /\ Return("BAD_REQUEST")
           \/ p =< Len(s) /\ s[p] = "rbrace" /\ Return(answer)
    BY <1>5, Zenon DEF CloseObject
  <2>2. Behind(body, field, ptr, found, out)
    BY <2>1 DEF ParseInv
  <2>3. /\ p > Len(s) => ~WellFormed(body)
        /\ p =< Len(s) /\ s[p] = "rbrace" =>
               IF more THEN ~WellFormed(body)
               ELSE WellFormed(body) /\ IF found THEN Only(body, field, Own(body, field), out) ELSE Own(body, field) = {}
    BY <1>1, <1>2, <2>2, Closes, Zenon
  <2> HIDE DEF s, p, more
  <2>4. CASE p > Len(s) /\ Return("BAD_REQUEST")
    <3>1. Specified(body, field, out, "BAD_REQUEST")
      BY <2>3, <2>4, Refusals, Zenon
    <3>2. result' = "BAD_REQUEST" /\ stage' = "done" /\ found' = found /\ out' = out
      BY <2>4 DEF Return
    <3>3. QED
      BY <1>2, <2>1, <3>1, <3>2 DEF ParseInv
  <2>5. CASE p =< Len(s) /\ s[p] = "rbrace" /\ Return(answer)
    <3>1. Specified(body, field, out, answer)
      BY <2>3, <2>5, Refusals, Answers, Zenon
    <3> HIDE DEF answer
    <3>2. result' = answer /\ stage' \in {"store", "done"} /\ found' = found /\ out' = out
      BY <2>5 DEF Return
    <3>3. QED
      BY <1>2, <2>1, <3>1, <3>2 DEF ParseInv
  <2>6. QED
    BY <2>1, <2>4, <2>5
<1>6. CASE Store \/ Encode
  <2>1. /\ body' = body /\ field' = field /\ out' = out /\ result' = result /\ found' = found
        /\ stage' \in {"encode", "done"}
    BY <1>6 DEF Store, Encode
  <2>2. QED
    BY <2>1 DEF ParseInv
<1>7. CASE UNCHANGED codecVars
  BY <1>7 DEF codecVars, ParseInv
<1>8. QED
  BY <1>3, <1>4, <1>5, <1>6, <1>7 DEF CodecNext

\* json_get_string finds the field exactly in a well-formed object that has it
\* once and within the buffers, misses it exactly in one that has it not, and
\* calls a text too large only if it is, whatever the body, the place where it is
\* cut, the spaces between its pieces, the field and the buffers.
THEOREM ParsesAsSpecifiedHolds == CodecSpec => []ParsesAsSpecified
<1>1. CodecInit => ParseInv
  <2> SUFFICES ASSUME CodecInit
               PROVE  ParseInv
    OBVIOUS
  <2>1. stage = "open" /\ ptr = 1 /\ found = FALSE /\ result = "none"
    BY DEF CodecInit
  <2>2. Specified(body, field, out, "none")
    BY Refusals, Zenon
  <2>3. QED
    BY <2>1, <2>2 DEF ParseInv
<1>2. ParseInv => ParsesAsSpecified
  <2>1. Own(body, field) = Mine(body)
    BY Zenon DEF Own, Mine
  <2>2. QED
    BY <2>1, Zenon DEF ParseInv, Specified, Only, ParsesAsSpecified
<1>3. QED
  BY <1>1, <1>2, CodecInvHolds, ParseInvNext, PTL DEF CodecSpec
=============================================================================
