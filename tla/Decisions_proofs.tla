-------------------------- MODULE Decisions_proofs --------------------------
(***************************************************************************)
(* The answers of Decisions, for every input of the types the constants    *)
(* are assumed to have: corpora, manifests, results and policies of any    *)
(* length.  FlattenSeq, FoldLeft and the sums are recursive functions, so  *)
(* what they compute is shown by induction first; then one section for     *)
(* each decision, and the four theorems.                                   *)
(***************************************************************************)
EXTENDS Decisions, WellFoundedInduction, FiniteSetTheorems, SequenceTheorems, TLAPS

-----------------------------------------------------------------------------
(* Induction on the natural numbers.                                       *)

\* The order of the natural numbers, as a relation.
Below == {ss \in Nat \X Nat : ss[1] < ss[2]}
LEMMA BelowWF == IsWellFoundedOn(Below, Nat)
<1>1. Below = OpToRel(<, Nat)
  BY DEF OpToRel, Below
<1>2. QED BY <1>1, NatLessThanWellFounded DEF OpToRel, Below

\* Induction on the natural numbers, for a set: a set that has 0 and with n also n + 1.
LEMMA Induction ==
  ASSUME NEW S, 0 \in S, \A n \in Nat : n \in S => n + 1 \in S
  PROVE  Nat \subseteq S
<1> DEFINE T == Nat \ S
<1> SUFFICES ASSUME T # {} PROVE FALSE
  OBVIOUS
<1>1. PICK x \in T : \A y \in T : <<y, x>> \notin Below
  <2>1. T \subseteq Nat
    OBVIOUS
  <2> HIDE DEF T
  <2> QED BY <2>1, BelowWF, WFMin
<1>2. x # 0 /\ x - 1 \in Nat /\ x - 1 \in T
  OBVIOUS
<1>3. <<x - 1, x>> \in Below
  BY <1>2 DEF Below
<1> QED BY <1>1, <1>2, <1>3

-----------------------------------------------------------------------------
(* Concatenating sequences.                                                *)

\* Chained(g, ss, n): g[i] is the concatenation of the first i sequences of ss.
Chained(g, ss, n) ==
  g = [i \in 1 .. n |-> IF i = 1 THEN ss[i] ELSE g[i - 1] \o ss[i]]

\* There is a chain, for any number of sequences.
LEMMA ChainExists ==
  ASSUME NEW ss
  PROVE  \A n \in Nat : \E g : Chained(g, ss, n)
<1> DEFINE P(n) == \E g : Chained(g, ss, n)
           T == {n \in Nat : P(n)}
<1>1. 0 \in T
  <2>1. Chained(<<>>, ss, 0)
    BY DEF Chained
  <2> QED BY <2>1
<1>2. ASSUME NEW n \in T PROVE n + 1 \in T
  <2>1. PICK g : Chained(g, ss, n)
    BY <1>2
  <2> DEFINE v == IF n = 0 THEN ss[1] ELSE g[n] \o ss[n + 1]
             h == [i \in 1 .. n + 1 |-> IF i <= n THEN g[i] ELSE v]
  <2>2. ASSUME NEW i \in 1 .. n + 1
        PROVE  h[i] = IF i = 1 THEN ss[i] ELSE h[i - 1] \o ss[i]
    <3>1. CASE i <= n
      <4>1. i \in 1 .. n /\ (i # 1 => i - 1 \in 1 .. n)
        BY <1>2, <3>1
      <4>2. g[i] = IF i = 1 THEN ss[i] ELSE g[i - 1] \o ss[i]
        BY <2>1, <4>1 DEF Chained
      <4> QED BY <4>1, <4>2, <3>1
    <3>2. CASE i = n + 1
      <4>1. i \in Nat /\ ~(i <= n) /\ h[i] = v
        BY <1>2, <3>2
      <4>2. CASE n = 0
        BY <4>1, <4>2, <3>2
      <4>3. CASE n # 0
        <5>1. i # 1 /\ i - 1 = n /\ n \in 1 .. n + 1
          BY <1>2, <3>2, <4>3
        <5>2. h[n] = g[n]
          BY <5>1, <1>2
        <5> QED BY <4>1, <4>3, <5>1, <5>2, <3>2
      <4> QED BY <4>2, <4>3
    <3> QED BY <3>1, <3>2, <1>2
  <2>3. h = [i \in 1 .. n + 1 |-> IF i = 1 THEN ss[i] ELSE h[i - 1] \o ss[i]]
    <3> HIDE DEF v
    <3>1. h = [i \in 1 .. n + 1 |-> h[i]]
      OBVIOUS
    <3> HIDE DEF h
    <3> QED BY <2>2, <3>1
  <2>4. Chained(h, ss, n + 1)
    BY <2>3 DEF Chained
  <2> QED BY <2>4, <1>2
<1>3. Nat \subseteq T
  <2> HIDE DEF T
  <2> QED BY <1>1, <1>2, Induction DEF T
<1> QED BY <1>3

Flattened(ss) == CHOOSE g : Chained(g, ss, Len(ss))

\* FlattenSeq returns the last link of the chain.
LEMMA FlattenIsChain ==
  ASSUME NEW ss, Len(ss) \in Nat \ {0}
  PROVE  FlattenSeq(ss) = Flattened(ss)[Len(ss)] /\ Chained(Flattened(ss), ss, Len(ss))
<1>1. \E g : Chained(g, ss, Len(ss))
  BY ChainExists
<1>2. Chained(Flattened(ss), ss, Len(ss))
  BY <1>1 DEF Flattened
<1>3. FlattenSeq(ss) = Flattened(ss)[Len(ss)]
  BY DEF FlattenSeq, Flattened, Chained
<1> QED BY <1>2, <1>3

\* Where the i-th sequence of ss begins in the chain g.
Offset(g, i) == IF i = 1 THEN 0 ELSE Len(g[i - 1])

\* flat is made of the first n sequences of ss, one after the other.
Shaped(flat, g, ss, n) ==
  /\ \A i \in 1 .. n : Offset(g, i) \in Nat /\ Offset(g, i) + Len(ss[i]) <= Len(flat)
  /\ \A i \in 1 .. n : \A j \in 1 .. Len(ss[i]) : flat[Offset(g, i) + j] = ss[i][j]
  /\ \A k \in 1 .. Len(flat) : \E i \in 1 .. n : \E j \in 1 .. Len(ss[i]) : k = Offset(g, i) + j

\* What a link of the chain is made of.
LEMMA ChainShape ==
  ASSUME NEW S, NEW ss \in Seq(Seq(S)), NEW g, Chained(g, ss, Len(ss))
  PROVE  \A n \in 1 .. Len(ss) : g[n] \in Seq(S) /\ Shaped(g[n], g, ss, n)
<1> DEFINE P(n) == g[n] \in Seq(S) /\ Shaped(g[n], g, ss, n)
           T == {n \in Nat : n \in 1 .. Len(ss) => P(n)}
<1>g. \A i \in 1 .. Len(ss) : g[i] = IF i = 1 THEN ss[i] ELSE g[i - 1] \o ss[i]
  BY DEF Chained
<1>s. \A i \in 1 .. Len(ss) : ss[i] \in Seq(S) /\ Len(ss[i]) \in Nat
  OBVIOUS
<1>0. 0 \in T
  OBVIOUS
<1>1. ASSUME NEW n \in T PROVE n + 1 \in T
  <2> SUFFICES ASSUME n + 1 \in 1 .. Len(ss) PROVE P(n + 1)
    BY <1>1
  <2>n. n \in Nat
    BY <1>1
  <2>1. CASE n = 0
    <3>1. g[1] = ss[1] /\ Offset(g, 1) = 0
      BY <1>g, <2>1 DEF Offset
    <3>2. ss[1] \in Seq(S) /\ 1 \in 1 .. Len(ss)
      BY <1>s, <2>1
    <3>3. Shaped(g[1], g, ss, 1)
      BY <3>1, <3>2 DEF Shaped
    <3> QED BY <3>1, <3>2, <3>3, <2>1
  <2>2. CASE n # 0
    <3>1. g[n] \in Seq(S) /\ Shaped(g[n], g, ss, n) /\ n \in 1 .. Len(ss)
      BY <1>1, <2>2, <2>n
    <3>2. g[n + 1] = g[n] \o ss[n + 1] /\ Offset(g, n + 1) = Len(g[n])
      <4>1. n + 1 # 1 /\ (n + 1) - 1 = n
        BY <2>2, <2>n
      <4> QED BY <1>g, <4>1 DEF Offset
    <3>3. ss[n + 1] \in Seq(S)
      BY <1>s
    <3> DEFINE a == g[n]
               b == ss[n + 1]
               c == g[n + 1]
    <3>4. /\ c \in Seq(S) /\ Len(c) = Len(a) + Len(b) /\ Len(a) \in Nat /\ Len(b) \in Nat
          /\ \A k \in 1 .. Len(a) : c[k] = a[k]
          /\ \A k \in 1 .. Len(b) : c[Len(a) + k] = b[k]
      <4>1. \A x, y \in Seq(S) : x \o y \in Seq(S) /\ Len(x \o y) = Len(x) + Len(y)
             /\ Len(x) \in Nat /\ Len(y) \in Nat
             /\ (\A k \in 1 .. Len(x) : (x \o y)[k] = x[k])
             /\ (\A k \in 1 .. Len(y) : (x \o y)[Len(x) + k] = y[k])
        OBVIOUS
      <4>2. a \in Seq(S) /\ b \in Seq(S) /\ c = a \o b
        BY <3>1, <3>2, <3>3
      <4> HIDE DEF a, b, c
      <4> QED BY <4>1, <4>2
    <3>5. \A i \in 1 .. n : /\ Offset(g, i) \in Nat /\ Offset(g, i) + Len(ss[i]) <= Len(a)
                            /\ \A j \in 1 .. Len(ss[i]) : a[Offset(g, i) + j] = ss[i][j]
      BY <3>1 DEF Shaped
    <3>6. \A k \in 1 .. Len(a) : \E i \in 1 .. n : \E j \in 1 .. Len(ss[i]) : k = Offset(g, i) + j
      BY <3>1 DEF Shaped
    <3>7. Offset(g, n + 1) = Len(a)
      BY <3>2
    <3>8. \A i \in 1 .. n + 1 : i \in 1 .. n \/ i = n + 1
      BY <2>n
    <3>9. Len(ss[n + 1]) = Len(b) /\ ss[n + 1] = b /\ c = g[n + 1]
      OBVIOUS
    <3> HIDE DEF a, b, c
    <3>10. \A i \in 1 .. n + 1 : Offset(g, i) \in Nat /\ Offset(g, i) + Len(ss[i]) <= Len(c)
      <4> TAKE i \in 1 .. n + 1
      <4>1. CASE i \in 1 .. n
        <5>1. Len(ss[i]) \in Nat
          BY <1>s, <2>n, <4>1
        <5> QED BY <4>1, <3>4, <3>5, <5>1
      <4>2. CASE i = n + 1
        BY <4>2, <3>4, <3>7, <3>9
      <4> QED BY <3>8, <4>1, <4>2
    <3>11. ASSUME NEW i \in 1 .. n + 1, NEW j \in 1 .. Len(ss[i])
           PROVE  c[Offset(g, i) + j] = ss[i][j]
      <4>1. CASE i \in 1 .. n
        <5>1. Len(ss[i]) \in Nat
          BY <1>s, <2>n, <4>1
        <5>2. /\ Offset(g, i) \in Nat /\ Offset(g, i) + Len(ss[i]) <= Len(a)
              /\ a[Offset(g, i) + j] = ss[i][j]
          BY <4>1, <3>5
        <5>3. Offset(g, i) + j \in 1 .. Len(a)
          <6>1. \A x, l, m \in Nat : \A e \in 1 .. l : x + l <= m => x + e \in 1 .. m
            OBVIOUS
          <6> QED BY <5>1, <5>2, <3>4, <6>1
        <5> QED BY <5>2, <5>3, <3>4
      <4>2. CASE i = n + 1
        BY <4>2, <3>4, <3>7, <3>9
      <4> QED BY <3>8, <4>1, <4>2
    <3>12. ASSUME NEW k \in 1 .. Len(c)
           PROVE  \E i \in 1 .. n + 1 : \E j \in 1 .. Len(ss[i]) : k = Offset(g, i) + j
      <4>1. CASE k <= Len(a)
        <5>1. k \in 1 .. Len(a)
          BY <4>1, <3>4
        <5>2. PICK i \in 1 .. n : \E j \in 1 .. Len(ss[i]) : k = Offset(g, i) + j
          BY <5>1, <3>6
        <5>3. i \in 1 .. n + 1
          BY <2>n
        <5> QED BY <5>2, <5>3
      <4>2. CASE k > Len(a)
        <5>1. k - Len(a) \in 1 .. Len(b) /\ k = Len(a) + (k - Len(a))
          BY <4>2, <3>4
        <5>2. n + 1 \in 1 .. n + 1
          BY <2>n
        <5> QED BY <5>1, <5>2, <3>7, <3>9
      <4> QED BY <4>1, <4>2, <3>4
    <3>13. Shaped(c, g, ss, n + 1)
      BY <3>10, <3>11, <3>12 DEF Shaped
    <3> QED BY <3>13, <3>4, <3>9
  <2> QED BY <2>1, <2>2
<1>2. \A n \in Nat : n \in T => n + 1 \in T
  BY <1>1
<1>3. Nat \subseteq T
  <2> HIDE DEF T
  <2> QED BY <1>0, <1>2, Induction
<1>4. \A n \in 1 .. Len(ss) : n \in Nat
  OBVIOUS
<1> QED BY <1>3, <1>4

\* What FlattenSeq returns.
LEMMA FlattenShape ==
  ASSUME NEW S, NEW ss \in Seq(Seq(S))
  PROVE  /\ FlattenSeq(ss) \in Seq(S)
         /\ \E g : Shaped(FlattenSeq(ss), g, ss, Len(ss))
<1>1. CASE Len(ss) = 0
  <2>1. FlattenSeq(ss) = ss /\ ss = <<>>
    BY <1>1 DEF FlattenSeq
  <2>2. <<>> \in Seq(S) /\ Len(<<>>) = 0
    OBVIOUS
  <2>3. Shaped(<<>>, <<>>, ss, Len(ss))
    BY <1>1, <2>2 DEF Shaped
  <2> QED BY <2>1, <2>2, <2>3
<1>2. CASE Len(ss) # 0
  <2>1. Len(ss) \in Nat \ {0} /\ Len(ss) \in 1 .. Len(ss)
    BY <1>2
  <2>2. FlattenSeq(ss) = Flattened(ss)[Len(ss)] /\ Chained(Flattened(ss), ss, Len(ss))
    BY <2>1, FlattenIsChain
  <2>3. LET f == Flattened(ss)[Len(ss)] IN f \in Seq(S) /\ Shaped(f, Flattened(ss), ss, Len(ss))
    BY <2>1, <2>2, ChainShape
  <2> QED BY <2>2, <2>3
<1> QED BY <1>1, <1>2

\* Sequences of one length m, one after the other.
EvenTo(flat, ss, m, n) ==
  /\ Len(flat) = m * n
  /\ \A k \in 1 .. m * n : flat[k] = ss[((k - 1) \div m) + 1][((k - 1) % m) + 1]

\* The places of n + 1 sequences of length m: those of the first n, then those of the last.
LEMMA EvenPlaces ==
  ASSUME NEW m \in Nat, NEW n \in Nat
  PROVE  /\ m * n \in Nat /\ m * (n + 1) = m * n + m
         /\ \A k \in 1 .. m : ((m * n + k - 1) \div m) + 1 = n + 1
                              /\ ((m * n + k - 1) % m) + 1 = k
<1>1. m * n \in Nat /\ m * (n + 1) = m * n + m
  OBVIOUS
<1>2. ASSUME NEW k \in 1 .. m
      PROVE  ((m * n + k - 1) \div m) + 1 = n + 1 /\ ((m * n + k - 1) % m) + 1 = k
  <2>1. \A q, r, l \in Nat : r < l => (q * l + r) \div l = q /\ (q * l + r) % l = r
    BY SMT
  <2>2. k - 1 \in Nat /\ k - 1 < m
    OBVIOUS
  <2>3. (n * m + (k - 1)) \div m = n /\ (n * m + (k - 1)) % m = k - 1
    BY <2>1, <2>2
  <2>4. n * m + (k - 1) = m * n + k - 1
    OBVIOUS
  <2> QED BY <2>3, <2>4
<1> QED BY <1>1, <1>2

\* What a link of the chain is made of when the sequences have one length.
LEMMA EvenChain ==
  ASSUME NEW S, NEW ss \in Seq(Seq(S)), NEW m \in Nat, \A i \in 1 .. Len(ss) : Len(ss[i]) = m,
         NEW g, Chained(g, ss, Len(ss))
  PROVE  \A n \in 1 .. Len(ss) : g[n] \in Seq(S) /\ EvenTo(g[n], ss, m, n)
<1> DEFINE P(n) == g[n] \in Seq(S) /\ EvenTo(g[n], ss, m, n)
           T == {n \in Nat : n \in 1 .. Len(ss) => P(n)}
<1>g. \A i \in 1 .. Len(ss) : g[i] = IF i = 1 THEN ss[i] ELSE g[i - 1] \o ss[i]
  BY DEF Chained
<1>s. \A i \in 1 .. Len(ss) : ss[i] \in Seq(S) /\ Len(ss[i]) = m
  OBVIOUS
<1>0. 0 \in T
  OBVIOUS
<1>1. ASSUME NEW n \in T PROVE n + 1 \in T
  <2> SUFFICES ASSUME n + 1 \in 1 .. Len(ss) PROVE P(n + 1)
    BY <1>1
  <2>n. n \in Nat
    BY <1>1
  <2>b. ss[n + 1] \in Seq(S) /\ Len(ss[n + 1]) = m
    BY <1>s
  <2>p. /\ m * n \in Nat /\ m * (n + 1) = m * n + m
        /\ \A k \in 1 .. m : ((m * n + k - 1) \div m) + 1 = n + 1
                              /\ ((m * n + k - 1) % m) + 1 = k
    BY <2>n, EvenPlaces
  <2>1. CASE n = 0
    <3>1. g[1] = ss[1]
      BY <1>g, <2>1
    <3>2. m * n = 0 /\ m * 1 = m
      BY <2>1
    <3>3. \A k \in 1 .. m : ((k - 1) \div m) + 1 = 1 /\ ((k - 1) % m) + 1 = k
      <4> TAKE k \in 1 .. m
      <4>1. m * n + k - 1 = k - 1 /\ n + 1 = 1
        BY <3>2, <2>1
      <4>2. ((m * n + k - 1) \div m) + 1 = n + 1 /\ ((m * n + k - 1) % m) + 1 = k
        BY <2>p
      <4> QED BY <4>1, <4>2, Zenon
    <3>4. EvenTo(g[1], ss, m, 1)
      BY <3>1, <3>2, <3>3, <2>b, <2>1 DEF EvenTo
    <3> QED BY <3>1, <3>4, <2>b, <2>1
  <2>2. CASE n # 0
    <3>1. g[n] \in Seq(S) /\ EvenTo(g[n], ss, m, n)
      BY <1>1, <2>2, <2>n
    <3>2. g[n + 1] = g[n] \o ss[n + 1]
      <4>1. n + 1 # 1 /\ (n + 1) - 1 = n
        BY <2>2, <2>n
      <4> QED BY <1>g, <4>1
    <3> DEFINE a == g[n]
               b == ss[n + 1]
               c == g[n + 1]
    <3>4. /\ c \in Seq(S) /\ Len(c) = m * n + m
          /\ \A k \in 1 .. m * n : c[k] = a[k]
          /\ \A k \in 1 .. m : c[m * n + k] = b[k]
      <4>1. \A x, y \in Seq(S) : x \o y \in Seq(S) /\ Len(x \o y) = Len(x) + Len(y)
             /\ (\A k \in 1 .. Len(x) : (x \o y)[k] = x[k])
             /\ (\A k \in 1 .. Len(y) : (x \o y)[Len(x) + k] = y[k])
        OBVIOUS
      <4>2. a \in Seq(S) /\ b \in Seq(S) /\ c = a \o b /\ Len(b) = m
        BY <3>1, <3>2, <2>b
      <4>3. Len(a) = m * n
        BY <3>1 DEF EvenTo
      <4> HIDE DEF a, b, c
      <4>4. /\ c \in Seq(S) /\ Len(c) = Len(a) + Len(b)
            /\ \A k \in 1 .. Len(a) : c[k] = a[k]
            /\ \A k \in 1 .. Len(b) : c[Len(a) + k] = b[k]
        BY <4>1, <4>2
      <4>5. Len(b) = m
        BY <4>2
      <4> QED BY <4>3, <4>4, <4>5, Zenon
    <3>5. \A k \in 1 .. m * n : a[k] = ss[((k - 1) \div m) + 1][((k - 1) % m) + 1]
      BY <3>1 DEF EvenTo
    <3>6. ASSUME NEW k \in 1 .. m * (n + 1)
          PROVE  c[k] = ss[((k - 1) \div m) + 1][((k - 1) % m) + 1]
      <4>1. CASE k <= m * n
        <5>1. k \in 1 .. m * n
          BY <4>1, <2>p
        <5> HIDE DEF a, b, c
        <5> QED BY <5>1, <3>4, <3>5
      <4>2. CASE k > m * n
        <5>1. PICK j \in 1 .. m : k = m * n + j
          <6>1. \A x, y \in Nat : \A z \in 1 .. x + y : z > x => z - x \in 1 .. y /\ z = x + (z - x)
            OBVIOUS
          <6>2. k - m * n \in 1 .. m /\ k = m * n + (k - m * n)
            BY <6>1, <2>p, <4>2
          <6> QED BY <6>2
        <5>2. c[k] = b[j]
          <6> HIDE DEF a, b, c
          <6> QED BY <5>1, <3>4
        <5>3. k - 1 = m * n + j - 1
          BY <5>1, <2>p
        <5>4. ((k - 1) \div m) + 1 = n + 1 /\ ((k - 1) % m) + 1 = j
          BY <5>3, <2>p
        <5> QED BY <5>2, <5>4
      <4> QED BY <4>1, <4>2, <2>p
    <3>7. Len(c) = m * (n + 1)
      BY <3>4, <2>p
    <3>8. EvenTo(c, ss, m, n + 1)
      BY <3>6, <3>7 DEF EvenTo
    <3> QED BY <3>4, <3>8
  <2> QED BY <2>1, <2>2
<1>2. \A n \in Nat : n \in T => n + 1 \in T
  BY <1>1
<1>3. Nat \subseteq T
  <2> HIDE DEF T
  <2> QED BY <1>0, <1>2, Induction
<1>4. \A n \in 1 .. Len(ss) : n \in Nat
  OBVIOUS
<1> QED BY <1>3, <1>4

\* What FlattenSeq returns for sequences of one length.
LEMMA FlattenEven ==
  ASSUME NEW S, NEW ss \in Seq(Seq(S)), NEW m \in Nat, \A i \in 1 .. Len(ss) : Len(ss[i]) = m
  PROVE  FlattenSeq(ss) \in Seq(S) /\ EvenTo(FlattenSeq(ss), ss, m, Len(ss))
<1>1. CASE Len(ss) = 0
  <2>1. FlattenSeq(ss) = ss /\ ss = <<>>
    BY <1>1 DEF FlattenSeq
  <2>2. <<>> \in Seq(S) /\ Len(<<>>) = 0 /\ m * 0 = 0
    OBVIOUS
  <2>3. EvenTo(<<>>, ss, m, 0)
    BY <2>2 DEF EvenTo
  <2> QED BY <2>1, <2>2, <2>3, <1>1
<1>2. CASE Len(ss) # 0
  <2>1. Len(ss) \in Nat \ {0} /\ Len(ss) \in 1 .. Len(ss)
    BY <1>2
  <2>2. FlattenSeq(ss) = Flattened(ss)[Len(ss)] /\ Chained(Flattened(ss), ss, Len(ss))
    BY <2>1, FlattenIsChain
  <2>3. LET f == Flattened(ss)[Len(ss)] IN f \in Seq(S) /\ EvenTo(f, ss, m, Len(ss))
    BY <2>1, <2>2, EvenChain
  <2> QED BY <2>2, <2>3
<1> QED BY <1>1, <1>2

-----------------------------------------------------------------------------
(* Folding.  The three folds of the decisions go on in the same way.       *)

Start(fold) ==
  CASE fold = "pack" -> Nothing [] fold = "route" -> Begin [] OTHER -> EmptyDisk
Advance(fold, a, b, s, x) ==
  CASE fold = "pack" -> Pack(s, x, a)
    [] fold = "route" -> Attempt(a, b, s, x)
    [] OTHER -> MakeCase(s, x)

\* g is the fold over each set of places of seq, the last place first.
Folding(g, fold, a, b, seq, n) ==
  g = [s \in SUBSET (1 .. n) |->
         IF s = {} THEN Start(fold) ELSE Advance(fold, a, b, g[s \ {Max(s)}], seq[Max(s)])]

\* The largest of a set of places that has the last place.
LEMMA MaxOfFinite ==
  ASSUME NEW n \in Nat, NEW s \in SUBSET (1 .. n + 1), n + 1 \in s
  PROVE  Max(s) = n + 1
<1>1. n + 1 \in s /\ \A y \in s : n + 1 >= y
  OBVIOUS
<1>2. \A x \in s : (\A y \in s : x >= y) => x = n + 1
  OBVIOUS
<1> QED BY <1>1, <1>2 DEF Max

\* There is such a fold, for any number of places.
LEMMA FoldingExists ==
  ASSUME NEW fold, NEW a, NEW b, NEW seq
  PROVE  \A n \in Nat : \E g : Folding(g, fold, a, b, seq, n)
<1> DEFINE T == {n \in Nat : \E g : Folding(g, fold, a, b, seq, n)}
<1>1. 0 \in T
  <2> DEFINE g == [s \in SUBSET (1 .. 0) |-> Start(fold)]
  <2>1. Folding(g, fold, a, b, seq, 0)
    BY DEF Folding
  <2> QED BY <2>1
<1>2. ASSUME NEW n \in T PROVE n + 1 \in T
  <2>n. n \in Nat
    BY <1>2
  <2>1. PICK g : Folding(g, fold, a, b, seq, n)
    BY <1>2
  <2> DEFINE v(s) == Advance(fold, a, b, g[s \ {n + 1}], seq[n + 1])
             h == [s \in SUBSET (1 .. n + 1) |-> IF n + 1 \in s THEN v(s) ELSE g[s]]
             w(s) == IF s = {} THEN Start(fold)
                     ELSE Advance(fold, a, b, h[s \ {Max(s)}], seq[Max(s)])
  <2>2. ASSUME NEW s \in SUBSET (1 .. n + 1)
        PROVE  h[s] = w(s)
    <3>1. CASE n + 1 \in s
      <4>1. Max(s) = n + 1
        BY <3>1, MaxOfFinite, <2>n
      <4>2. s \ {n + 1} \in SUBSET (1 .. n + 1) /\ n + 1 \notin s \ {n + 1} /\ s # {}
        BY <3>1
      <4>3. h[s \ {n + 1}] = g[s \ {n + 1}]
        BY <4>2
      <4>4. h[s] = v(s)
        BY <3>1
      <4> HIDE DEF h
      <4> QED BY <4>1, <4>2, <4>3, <4>4
    <3>2. CASE n + 1 \notin s
      <4>1. s \in SUBSET (1 .. n)
        BY <3>2, <2>n
      <4>2. h[s] = g[s]
        BY <3>2
      <4>3. g[s] = IF s = {} THEN Start(fold)
                   ELSE Advance(fold, a, b, g[s \ {Max(s)}], seq[Max(s)])
        BY <2>1, <4>1 DEF Folding
      <4>4. h[s \ {Max(s)}] = g[s \ {Max(s)}]
        BY <3>2
      <4> HIDE DEF h
      <4> QED BY <4>2, <4>3, <4>4
    <3> QED BY <3>1, <3>2
  <2>3. h = [s \in SUBSET (1 .. n + 1) |-> w(s)]
    <3>1. h = [s \in SUBSET (1 .. n + 1) |-> h[s]]
      OBVIOUS
    <3> HIDE DEF h, w
    <3> QED BY <2>2, <3>1
  <2>4. Folding(h, fold, a, b, seq, n + 1)
    BY <2>3 DEF Folding
  <2> QED BY <2>4, <2>n
<1>3. Nat \subseteq T
  <2> HIDE DEF T
  <2> QED BY <1>1, <1>2, Induction DEF T
<1> QED BY <1>3

\* r[k] is the state after the first k places.
IsRun(r, fold, a, b, seq, n) ==
  /\ r[0] = Start(fold)
  /\ \A k \in 1 .. n : r[k] = Advance(fold, a, b, r[k - 1], seq[k])
StatesOf(g, n) == [k \in 0 .. n |-> g[1 .. k]]

\* The fold goes through the places in order.
LEMMA FoldingIsRun ==
  ASSUME NEW fold, NEW a, NEW b, NEW seq, NEW n \in Nat, NEW g, Folding(g, fold, a, b, seq, n)
  PROVE  IsRun(StatesOf(g, n), fold, a, b, seq, n) /\ StatesOf(g, n)[n] = g[1 .. n]
<1>1. g[1 .. 0] = Start(fold)
  <2>1. 1 .. 0 = {}
    OBVIOUS
  <2> QED BY <2>1 DEF Folding
<1>2. ASSUME NEW k \in 1 .. n
      PROVE  g[1 .. k] = Advance(fold, a, b, g[1 .. k - 1], seq[k])
  <2>1. 1 .. k \in SUBSET (1 .. n) /\ 1 .. k # {}
    <3>1. \A x \in 1 .. k : x \in 1 .. n
      OBVIOUS
    <3>2. k \in 1 .. k
      OBVIOUS
    <3> QED BY <3>1, <3>2
  <2>2. Max(1 .. k) = k
    <3>1. k - 1 \in Nat /\ (k - 1) + 1 = k /\ k \in 1 .. k
      OBVIOUS
    <3>2. ASSUME NEW m \in Nat, m + 1 = k PROVE Max(1 .. k) = k
      BY <3>1, <3>2, MaxOfFinite
    <3> QED BY <3>1, <3>2
  <2>3. (1 .. k) \ {k} = 1 .. k - 1
    OBVIOUS
  <2>4. g[1 .. k] = Advance(fold, a, b, g[(1 .. k) \ {Max(1 .. k)}], seq[Max(1 .. k)])
    BY <2>1 DEF Folding
  <2> QED BY <2>2, <2>3, <2>4
<1>3. \A k \in 0 .. n : StatesOf(g, n)[k] = g[1 .. k]
  BY DEF StatesOf
<1>4. 0 \in 0 .. n /\ n \in 0 .. n /\ \A k \in 1 .. n : k \in 0 .. n /\ k - 1 \in 0 .. n
  OBVIOUS
<1> QED BY <1>1, <1>2, <1>3, <1>4 DEF IsRun

\* The three folds.
Packing(g, seq, budget, n) ==
  g = [s \in SUBSET (1 .. n) |->
         IF s = {} THEN Nothing ELSE Pack(g[s \ {Max(s)}], seq[Max(s)], budget)]
Routing(g, policy, outcome, seq, n) ==
  g = [s \in SUBSET (1 .. n) |->
         IF s = {} THEN Begin ELSE Attempt(policy, outcome, g[s \ {Max(s)}], seq[Max(s)])]
Making(g, seq, n) ==
  g = [s \in SUBSET (1 .. n) |->
         IF s = {} THEN EmptyDisk ELSE MakeCase(g[s \ {Max(s)}], seq[Max(s)])]

LEMMA FoldKinds ==
  /\ Start("pack") = Nothing /\ Start("route") = Begin /\ Start("make") = EmptyDisk
  /\ \A a, b, s, x : /\ Advance("pack", a, b, s, x) = Pack(s, x, a)
                     /\ Advance("route", a, b, s, x) = Attempt(a, b, s, x)
                     /\ Advance("make", a, b, s, x) = MakeCase(s, x)
BY DEF Start, Advance

PackAll(seq, budget) ==
  FoldLeft(LAMBDA packed, candidate : Pack(packed, candidate, budget), Nothing, seq)
RouteAll(policy, outcome, seq) ==
  FoldLeft(LAMBDA s, call : Attempt(policy, outcome, s, call), Begin, seq)

\* r[k] is the state after k of them.
PacksBy(r, seq, budget, n) ==
  /\ r[0] = Nothing
  /\ \A k \in 1 .. n : r[k] = Pack(r[k - 1], seq[k], budget)
RoutesBy(r, policy, outcome, seq, n) ==
  /\ r[0] = Begin
  /\ \A k \in 1 .. n : r[k] = Attempt(policy, outcome, r[k - 1], seq[k])
MakesBy(r, seq, n) ==
  /\ r[0] = EmptyDisk
  /\ \A k \in 1 .. n : r[k] = MakeCase(r[k - 1], seq[k])

\* Packing goes through the candidates in order.
LEMMA PackRuns ==
  ASSUME NEW n \in Nat, NEW seq, DOMAIN seq = 1 .. n, NEW budget
  PROVE  \E r : PackAll(seq, budget) = r[n] /\ PacksBy(r, seq, budget, n)
<1> DEFINE g == CHOOSE g : Packing(g, seq, budget, n)
<1>0. Start("pack") = Nothing /\ \A s, x : Advance("pack", budget, 0, s, x) = Pack(s, x, budget)
  BY FoldKinds
<1>1. \A h : Folding(h, "pack", budget, 0, seq, n) <=> Packing(h, seq, budget, n)
  BY <1>0, Zenon DEF Folding, Packing
<1>2. \E h : Folding(h, "pack", budget, 0, seq, n)
  BY FoldingExists
<1>3. Packing(g, seq, budget, n)
  BY <1>1, <1>2
<1>4. PackAll(seq, budget) = g[1 .. n]
  BY DEF PackAll, FoldLeft, MapThenFoldSet, Packing
<1> HIDE DEF g
<1>5. LET r == StatesOf(g, n) IN IsRun(r, "pack", budget, 0, seq, n) /\ r[n] = g[1 .. n]
  BY <1>1, <1>3, FoldingIsRun
<1> QED BY <1>4, <1>5, FoldKinds DEF IsRun, PacksBy

\* Routing goes through the calls in order.
LEMMA RouteRuns ==
  ASSUME NEW n \in Nat, NEW seq, DOMAIN seq = 1 .. n, NEW policy, NEW outcome
  PROVE  \E r : RouteAll(policy, outcome, seq) = r[n] /\ RoutesBy(r, policy, outcome, seq, n)
<1> DEFINE g == CHOOSE g : Routing(g, policy, outcome, seq, n)
<1>0. /\ Start("route") = Begin
      /\ \A s, x : Advance("route", policy, outcome, s, x) = Attempt(policy, outcome, s, x)
  BY FoldKinds
<1>1. \A h : Folding(h, "route", policy, outcome, seq, n) <=> Routing(h, policy, outcome, seq, n)
  BY <1>0, Zenon DEF Folding, Routing
<1>2. \E h : Folding(h, "route", policy, outcome, seq, n)
  BY FoldingExists
<1>3. Routing(g, policy, outcome, seq, n)
  BY <1>1, <1>2
<1>4. RouteAll(policy, outcome, seq) = g[1 .. n]
  BY DEF RouteAll, FoldLeft, MapThenFoldSet, Routing
<1> HIDE DEF g
<1>5. LET r == StatesOf(g, n)
      IN  IsRun(r, "route", policy, outcome, seq, n) /\ r[n] = g[1 .. n]
  BY <1>1, <1>3, FoldingIsRun
<1> QED BY <1>4, <1>5, FoldKinds DEF IsRun, RoutesBy

\* The manifest is made call by call.
LEMMA MakeRuns ==
  ASSUME NEW n \in Nat, NEW seq, DOMAIN seq = 1 .. n
  PROVE  \E r : Disk(seq) = r[n] /\ MakesBy(r, seq, n)
<1> DEFINE g == CHOOSE g : Making(g, seq, n)
<1>0. Start("make") = EmptyDisk /\ \A s, x : Advance("make", 0, 0, s, x) = MakeCase(s, x)
  BY FoldKinds
<1>1. \A h : Folding(h, "make", 0, 0, seq, n) <=> Making(h, seq, n)
  BY <1>0, Zenon DEF Folding, Making
<1>2. \E h : Folding(h, "make", 0, 0, seq, n)
  BY FoldingExists
<1>3. Making(g, seq, n)
  BY <1>1, <1>2
<1>4. Disk(seq) = g[1 .. n]
  BY DEF Disk, FoldLeft, MapThenFoldSet, Making
<1> HIDE DEF g
<1>5. LET r == StatesOf(g, n) IN IsRun(r, "make", 0, 0, seq, n) /\ r[n] = g[1 .. n]
  BY <1>1, <1>3, FoldingIsRun
<1> QED BY <1>4, <1>5, FoldKinds DEF IsRun, MakesBy

-----------------------------------------------------------------------------
(* The model router.                                                       *)

CallType == [provider : Nat, attempt : Nat]
CallOf(n, k) == [provider |-> Provider(n, k), attempt |-> ((k - 1) % n) + 1]

\* The places of the k-th of n * p calls.
LEMMA PlaceOfCall ==
  ASSUME NEW n \in Nat \ {0}, NEW p \in Nat, NEW k \in 1 .. n * p
  PROVE  Provider(n, k) \in 1 .. p /\ ((k - 1) % n) + 1 \in 1 .. n /\ (k = 1 => Provider(n, k) = 1)
<1> DEFINE q == (k - 1) \div n
           r == (k - 1) % n
<1>0. n * p \in Nat
  OBVIOUS
<1>1. k - 1 \in Nat /\ k - 1 < n * p
  BY <1>0
<1>2. \A x \in Nat : x = n * (x \div n) + (x % n) /\ x % n \in 0 .. n - 1 /\ x \div n \in Nat
  BY SMT
<1>3. k - 1 = n * q + r /\ r \in 0 .. n - 1 /\ q \in Nat
  BY <1>1, <1>2
<1>4. q < p
  <2>1. \A x, y \in Nat : x >= y => n * x >= n * y
    BY SMT
  <2>2. q >= p => n * q >= n * p
    BY <1>3, <2>1
  <2>3. n * q \in Nat
    BY <1>3
  <2>4. k - 1 >= n * q
    <3> HIDE DEF q, r
    <3> QED BY <1>1, <1>3, <2>3
  <2> HIDE DEF q, r
  <2> QED BY <1>0, <1>1, <1>3, <2>2, <2>3, <2>4
<1>5. k = 1 => q = 0
  <2>1. \A l \in Nat \ {0} : 0 \div l = 0
    BY SMT
  <2> QED BY <2>1
<1>6. Provider(n, k) = q + 1 /\ ((k - 1) % n) + 1 = r + 1
  BY DEF Provider
<1> HIDE DEF q, r
<1> QED BY <1>3, <1>4, <1>5, <1>6

\* The calls: every provider as often as the policy says, in the order of the policy.
LEMMA CallsAre ==
  ASSUME NEW policy, policy.providers \in Seq(STRING), policy.retry_count \in Int
  PROVE  LET n == Attempts(policy)
             p == Len(policy.providers)
         IN  \E m \in Nat : /\ Calls(policy) \in Seq(CallType) /\ Len(Calls(policy)) = m
                            /\ 1 .. m = 1 .. n * p
                            /\ \A k \in 1 .. m : /\ Calls(policy)[k] = CallOf(n, k)
                                                 /\ Provider(n, k) \in 1 .. p
                                                 /\ ((k - 1) % n) + 1 \in 1 .. n
                                                 /\ k = 1 => Provider(n, k) = 1
<1> DEFINE n == Attempts(policy)
           p == Len(policy.providers)
           m == IF n > 0 THEN n ELSE 0
           row(i) == [a \in 1 .. n |-> [provider |-> i, attempt |-> a]]
           ss == [i \in 1 .. p |-> row(i)]
<1>1. n \in Int /\ m \in Nat /\ p \in Nat /\ DOMAIN policy.providers = 1 .. p /\ 1 .. n = 1 .. m
  BY DEF Attempts
<1>2. \A i \in 1 .. p : row(i) \in Seq(CallType) /\ Len(row(i)) = m
  <2> TAKE i \in 1 .. p
  <2>1. \A a \in 1 .. n : [provider |-> i, attempt |-> a] \in CallType
    <3>1. i \in Nat
      BY <1>1
    <3>2. \A a \in 1 .. n : a \in Nat
      BY <1>1
    <3> QED BY <3>1, <3>2 DEF CallType
  <2>2. row(i) = [a \in 1 .. m |-> [provider |-> i, attempt |-> a]]
    BY <1>1
  <2>3. row(i) \in [1 .. m -> CallType]
    BY <2>1, <2>2, <1>1
  <2> HIDE DEF row, m
  <2> QED BY <2>3, <1>1
<1>3. ss \in Seq(Seq(CallType)) /\ Len(ss) = p /\ \A i \in 1 .. Len(ss) : Len(ss[i]) = m
  <2> HIDE DEF row, m, p
  <2> QED BY <1>1, <1>2
<1>4. Calls(policy) = FlattenSeq(ss)
  BY <1>1 DEF Calls
<1>5. Calls(policy) \in Seq(CallType) /\ EvenTo(Calls(policy), ss, m, p)
  <2> HIDE DEF ss, m, p
  <2> QED BY <1>1, <1>3, <1>4, FlattenEven
<1>6. m * p \in Nat /\ Len(Calls(policy)) = m * p
  <2> HIDE DEF ss, m, p
  <2> QED BY <1>1, <1>5 DEF EvenTo
<1>7. 1 .. m * p = 1 .. n * p
  <2>1. CASE n > 0
    BY <2>1
  <2>2. CASE ~(n > 0)
    <3>1. m * p = 0 /\ 1 .. 0 = {}
      BY <2>2, <1>1
    <3>2. \A x \in Int, y \in Nat : ~(x > 0) => x * y \in Int /\ x * y <= 0
      BY SMT
    <3>3. n * p \in Int /\ n * p <= 0
      <4> HIDE DEF n, p
      <4> QED BY <2>2, <1>1, <3>2
    <3>4. 1 .. n * p = {}
      <4> HIDE DEF n, p
      <4> QED BY <3>3
    <3> QED BY <3>1, <3>4
  <2> QED BY <2>1, <2>2
<1>8. ASSUME NEW k \in 1 .. m * p
      PROVE  /\ Calls(policy)[k] = CallOf(n, k) /\ Provider(n, k) \in 1 .. p
             /\ ((k - 1) % n) + 1 \in 1 .. n /\ (k = 1 => Provider(n, k) = 1)
  <2>1. n > 0
    <3>1. CASE ~(n > 0)
      <4>1. m * p = 0 /\ 1 .. 0 = {}
        BY <3>1, <1>1
      <4> QED BY <4>1
    <3> QED BY <3>1
  <2>2. m = n /\ n \in Nat \ {0}
    BY <2>1, <1>1
  <2>3. /\ Provider(n, k) \in 1 .. p /\ ((k - 1) % n) + 1 \in 1 .. n
        /\ (k = 1 => Provider(n, k) = 1)
    <3> HIDE DEF n, p, m
    <3> QED BY <2>2, <1>1, PlaceOfCall
  <2>4. Calls(policy)[k] = ss[Provider(n, k)][((k - 1) % n) + 1]
    <3> HIDE DEF n, p, m, ss
    <3> QED BY <2>2, <1>5 DEF EvenTo, Provider
  <2>5. \A i \in 1 .. p : \A a \in 1 .. n : ss[i][a] = [provider |-> i, attempt |-> a]
    OBVIOUS
  <2> HIDE DEF n, p, m, ss
  <2> QED BY <2>3, <2>4, <2>5 DEF CallOf
<1> HIDE DEF n, p, m, ss
<1>9. \E l \in Nat : /\ Calls(policy) \in Seq(CallType) /\ Len(Calls(policy)) = l
                     /\ 1 .. l = 1 .. n * p
                     /\ \A k \in 1 .. l : /\ Calls(policy)[k] = CallOf(n, k)
                                          /\ Provider(n, k) \in 1 .. p
                                          /\ ((k - 1) % n) + 1 \in 1 .. n
                                          /\ k = 1 => Provider(n, k) = 1
  BY <1>5, <1>6, <1>7, <1>8
<1> QED BY <1>9 DEF n, p

Answers == {"answer", "timeout", "error"}
RouteState ==
  [attempted : Seq(Nat), from : Nat, error : Answers \cup {"none"},
   end : {"running", "answered", "raised"}, by : Nat]

\* t is the state after an attempt of a provider in state s.
Attempted(t, s, policy, provider, result) ==
  /\ t \in RouteState
  /\ s.end # "running" => t = s
  /\ s.end = "running" => t.attempted = Append(s.attempted, provider)
  /\ (s.end = "running" /\ result = "answer") =>
       t.end = "answered" /\ t.by = provider /\ t.error = s.error
  /\ (s.end = "running" /\ result # "answer") =>
       /\ t.end = (IF Fatal(policy, result) THEN "raised" ELSE "running")
       /\ t.error = result

\* One attempt: nothing once the loops have ended, else one provider more.
LEMMA AttemptIs ==
  ASSUME NEW policy, NEW outcome, NEW s \in RouteState, NEW call \in CallType,
         outcome[call.provider][call.attempt] \in Answers
  PROVE  Attempted(Attempt(policy, outcome, s, call), s, policy, call.provider,
                   outcome[call.provider][call.attempt])
<1> DEFINE result == outcome[call.provider][call.attempt]
           tried == [s EXCEPT !.attempted = Append(@, call.provider)]
           got == [tried EXCEPT !.end = "answered", !.by = call.provider]
           end == IF Fatal(policy, result) THEN "raised" ELSE "running"
           lost == [tried EXCEPT !.from = call.provider, !.error = result, !.end = end]
           t == Attempt(policy, outcome, s, call)
<1>1. call.provider \in Nat /\ s.attempted \in Seq(Nat) /\ end \in {"running", "raised"}
  BY DEF CallType, RouteState
<1>2. Append(s.attempted, call.provider) \in Seq(Nat)
  BY <1>1
<1>3. tried \in RouteState /\ tried.attempted = Append(s.attempted, call.provider)
      /\ tried.error = s.error
  BY <1>2 DEF RouteState
<1>4. got \in RouteState /\ got.attempted = tried.attempted /\ got.error = tried.error
      /\ got.end = "answered" /\ got.by = call.provider
  <2> HIDE DEF tried
  <2> QED BY <1>1, <1>3 DEF RouteState
<1>5. lost \in RouteState /\ lost.attempted = tried.attempted /\ lost.error = result
      /\ lost.end = end
  <2> HIDE DEF tried, end, result
  <2>1. result \in Answers
    BY DEF result
  <2> QED BY <1>1, <1>3, <2>1 DEF RouteState
<1>6. t = IF s.end # "running" THEN s ELSE IF result = "answer" THEN got ELSE lost
  BY DEF Attempt
<1> HIDE DEF t, got, lost, tried, result
<1>7. s.end # "running" => Attempted(t, s, policy, call.provider, result)
  BY <1>6 DEF Attempted
<1>8. (s.end = "running" /\ result = "answer") => Attempted(t, s, policy, call.provider, result)
  BY <1>3, <1>4, <1>6 DEF Attempted
<1>9. (s.end = "running" /\ result # "answer") => Attempted(t, s, policy, call.provider, result)
  BY <1>3, <1>5, <1>6 DEF Attempted
<1>10. Attempted(t, s, policy, call.provider, result)
  BY <1>7, <1>8, <1>9
<1> QED BY <1>10 DEF t, result

\* How the loops stand after k calls: every call of them failed and was passed over; and where
\* one was not, they have ended with the first such call.
IsStop(policy, outcome, n, k) ==
  \/ ResultOf(outcome, n, k) = "answer"
  \/ Fatal(policy, ResultOf(outcome, n, k))
Going(s, outcome, n, k) ==
  /\ s.end = "running" /\ Len(s.attempted) = k
  /\ k > 0 => s.error = ResultOf(outcome, n, k)
Ended(s, policy, outcome, n, j) ==
  /\ Len(s.attempted) = j /\ s.attempted[j] = Provider(n, j)
  /\ s.end = (IF Fatal(policy, ResultOf(outcome, n, j)) THEN "raised" ELSE "answered")
  /\ ~Fatal(policy, ResultOf(outcome, n, j)) =>
       s.by = Provider(n, j) /\ (j > 1 => s.error = ResultOf(outcome, n, j - 1))
NoneUpTo(policy, outcome, n, k) == \A i \in 1 .. k : ~IsStop(policy, outcome, n, i)
After(s, policy, outcome, n, k) ==
  /\ s \in RouteState
  /\ NoneUpTo(policy, outcome, n, k) => Going(s, outcome, n, k)
  /\ \A j \in 1 .. k : (IsStop(policy, outcome, n, j) /\ NoneUpTo(policy, outcome, n, j - 1)) =>
                         Ended(s, policy, outcome, n, j)

\* What appending adds to a list of providers.
LEMMA Appended ==
  ASSUME NEW q \in Seq(Nat), NEW x \in Nat
  PROVE  Len(Append(q, x)) = Len(q) + 1 /\ Append(q, x)[Len(q) + 1] = x
OBVIOUS

\* One call more.
LEMMA OneCallMore ==
  ASSUME NEW policy, NEW outcome, NEW n, NEW k \in Nat, NEW s,
         After(s, policy, outcome, n, k),
         CallOf(n, k + 1) \in CallType, ResultOf(outcome, n, k + 1) \in Answers
  PROVE  After(Attempt(policy, outcome, s, CallOf(n, k + 1)), policy, outcome, n, k + 1)
<1> DEFINE call == CallOf(n, k + 1)
           result == ResultOf(outcome, n, k + 1)
           t == Attempt(policy, outcome, s, call)
<1>1. result = outcome[call.provider][call.attempt] /\ call.provider = Provider(n, k + 1)
  BY DEF CallOf, ResultOf
<1>2. s \in RouteState
  BY DEF After
<1>3. /\ t \in RouteState
      /\ s.end # "running" => t = s
      /\ s.end = "running" => t.attempted = Append(s.attempted, call.provider)
      /\ (s.end = "running" /\ result = "answer") =>
           t.end = "answered" /\ t.by = call.provider /\ t.error = s.error
      /\ (s.end = "running" /\ result # "answer") =>
           /\ t.end = (IF Fatal(policy, result) THEN "raised" ELSE "running")
           /\ t.error = result
  <2> HIDE DEF t, call, result
  <2>1. outcome[call.provider][call.attempt] \in Answers /\ call \in CallType
    BY <1>1 DEF call, result
  <2>2. Attempted(Attempt(policy, outcome, s, call), s, policy, call.provider,
                  outcome[call.provider][call.attempt])
    BY <1>2, <2>1, AttemptIs
  <2>3. Attempted(t, s, policy, call.provider, result)
    BY <1>1, <2>2 DEF t
  <2> QED BY <2>3 DEF Attempted
<1>4. call.provider \in Nat
  <2> HIDE DEF call
  <2>1. call \in CallType
    BY DEF call
  <2> QED BY <2>1 DEF CallType
<1>5. s.attempted \in Seq(Nat)
  BY <1>2 DEF RouteState
<1>6. NoneUpTo(policy, outcome, n, k + 1) <=>
        NoneUpTo(policy, outcome, n, k) /\ ~IsStop(policy, outcome, n, k + 1)
  <2>1. 1 .. k + 1 = (1 .. k) \cup {k + 1}
    OBVIOUS
  <2> QED BY <2>1 DEF NoneUpTo
<1>7. NoneUpTo(policy, outcome, n, k) =>
        /\ s.end = "running" /\ Len(t.attempted) = k + 1
        /\ t.attempted[k + 1] = call.provider
        /\ k > 0 => s.error = ResultOf(outcome, n, k)
  <2> SUFFICES ASSUME NoneUpTo(policy, outcome, n, k)
      PROVE /\ s.end = "running" /\ Len(t.attempted) = k + 1
            /\ t.attempted[k + 1] = call.provider
            /\ k > 0 => s.error = ResultOf(outcome, n, k)
    OBVIOUS
  <2>1. Going(s, outcome, n, k)
    BY DEF After
  <2>2. s.end = "running" /\ Len(s.attempted) = k /\ (k > 0 => s.error = ResultOf(outcome, n, k))
    BY <2>1 DEF Going
  <2> HIDE DEF t, call
  <2>3. t.attempted = Append(s.attempted, call.provider)
    BY <1>3, <2>2
  <2>4. Len(t.attempted) = k + 1 /\ t.attempted[k + 1] = call.provider
    BY <1>4, <1>5, <2>2, <2>3, Appended
  <2> QED BY <2>2, <2>4
<1>8. NoneUpTo(policy, outcome, n, k + 1) => Going(t, outcome, n, k + 1)
  <2> SUFFICES ASSUME NoneUpTo(policy, outcome, n, k + 1) PROVE Going(t, outcome, n, k + 1)
    OBVIOUS
  <2>1. NoneUpTo(policy, outcome, n, k) /\ result # "answer" /\ ~Fatal(policy, result)
    BY <1>6 DEF IsStop
  <2> HIDE DEF t, call
  <2>2. t.end = "running" /\ t.error = result /\ Len(t.attempted) = k + 1
    BY <1>3, <1>7, <2>1
  <2> QED BY <2>2 DEF Going
<1>9. ASSUME NEW j \in 1 .. k + 1, IsStop(policy, outcome, n, j),
             NoneUpTo(policy, outcome, n, j - 1)
      PROVE  Ended(t, policy, outcome, n, j)
  <2>1. CASE j = k + 1
    <3>1. NoneUpTo(policy, outcome, n, k)
      <4>1. j - 1 = k
        BY <2>1
      <4> QED BY <1>9, <4>1
    <3>2. result = "answer" \/ Fatal(policy, result)
      BY <1>9, <2>1 DEF IsStop
    <3>3. Fatal(policy, result) => result # "answer"
      BY DEF Fatal
    <3>4. Len(t.attempted) = k + 1 /\ t.attempted[k + 1] = Provider(n, k + 1)
      <4> HIDE DEF t, call
      <4> QED BY <1>1, <1>7, <3>1
    <3>5. t.end = (IF Fatal(policy, result) THEN "raised" ELSE "answered")
      <4> HIDE DEF t, call, result
      <4> QED BY <1>3, <1>7, <3>1, <3>2, <3>3
    <3>6. ~Fatal(policy, result) =>
            t.by = Provider(n, k + 1) /\ (k + 1 > 1 => t.error = ResultOf(outcome, n, (k + 1) - 1))
      <4>1. (k + 1) - 1 = k /\ (k + 1 > 1 => k > 0)
        OBVIOUS
      <4> HIDE DEF t, call, result
      <4>2. ~Fatal(policy, result) => t.by = Provider(n, k + 1) /\ t.error = s.error
        BY <1>1, <1>3, <1>7, <3>1, <3>2
      <4> QED BY <1>7, <3>1, <4>1, <4>2
    <3> HIDE DEF t
    <3>7. Ended(t, policy, outcome, n, k + 1)
      BY <3>4, <3>5, <3>6 DEF Ended
    <3> QED BY <3>7, <2>1
  <2>2. CASE j # k + 1
    <3>1. j \in 1 .. k
      BY <2>2
    <3>2. Ended(s, policy, outcome, n, j)
      BY <1>9, <3>1 DEF After
    <3>3. s.end # "running"
      BY <3>2 DEF Ended
    <3> QED BY <1>3, <3>2, <3>3
  <2> QED BY <2>1, <2>2
<1> HIDE DEF t
<1>10. After(t, policy, outcome, n, k + 1)
  BY <1>3, <1>8, <1>9 DEF After
<1> QED BY <1>10 DEF t

\* Route, without the loops.
RouteAnswer(s) ==
  CASE s.end = "answered" ->
         [end |-> "answered", by |-> s.by, attempted |-> s.attempted, was_fallback |-> s.by > 1,
          fallback_from |-> IF s.by > 1 THEN s.from ELSE 0,
          fallback_error |-> IF s.by > 1 THEN s.error ELSE "none"]
    [] s.end = "raised" -> [end |-> "raised", error |-> s.error, attempted |-> s.attempted]
    [] OTHER -> [end |-> "routing_error", error |-> s.error, attempted |-> s.attempted]
LEMMA RouteIs ==
  ASSUME NEW policy, NEW outcome
  PROVE  Route(policy, outcome) = RouteAnswer(RouteAll(policy, outcome, Calls(policy)))
BY Zenon DEF Route, RouteAnswer, RouteAll

\* What the answer shows of the last state.
LEMMA RouteAnswerIs ==
  ASSUME NEW s \in RouteState
  PROVE  LET answer == RouteAnswer(s)
         IN  /\ answer.attempted = s.attempted
             /\ answer.end = (IF s.end = "running" THEN "routing_error" ELSE s.end)
             /\ s.end = "answered" => /\ answer.by = s.by
                                      /\ answer.was_fallback = (s.by > 1)
                                      /\ s.by > 1 => answer.fallback_error = s.error
<1>1. s.end \in {"running", "answered", "raised"}
  BY DEF RouteState
<1>2. CASE s.end = "running"
  BY <1>2 DEF RouteAnswer
<1>3. CASE s.end = "answered"
  BY <1>3 DEF RouteAnswer
<1>4. CASE s.end = "raised"
  BY <1>4 DEF RouteAnswer
<1> QED BY <1>1, <1>2, <1>3, <1>4

\* The result of every call is one of the three.
LEMMA ResultsAre ==
  ASSUME NEW policy, policy.providers \in Seq(STRING), NEW outcome \in Outcomes(policy),
         NEW k, Provider(Attempts(policy), k) \in 1 .. Len(policy.providers),
         ((k - 1) % Attempts(policy)) + 1 \in 1 .. Attempts(policy)
  PROVE  ResultOf(outcome, Attempts(policy), k) \in Answers
<1>1. DOMAIN policy.providers = 1 .. Len(policy.providers)
  OBVIOUS
<1>2. outcome \in [1 .. Len(policy.providers) -> [1 .. Attempts(policy) -> Answers]]
  BY <1>1, Zenon DEF Outcomes, Attempts, Answers
<1> QED BY <1>2 DEF ResultOf

\* The last state of the loops.
LEMMA RoutedAll ==
  ASSUME NEW policy, policy.providers \in Seq(STRING), policy.retry_count \in Int,
         NEW outcome \in Outcomes(policy)
  PROVE  \E m \in Nat :
           /\ 1 .. m = 1 .. Attempts(policy) * Len(policy.providers)
           /\ m > 0 => Provider(Attempts(policy), 1) = 1
           /\ After(RouteAll(policy, outcome, Calls(policy)), policy, outcome, Attempts(policy), m)
<1> DEFINE n == Attempts(policy)
           calls == Calls(policy)
<1>1. PICK m \in Nat : /\ calls \in Seq(CallType) /\ Len(calls) = m
                       /\ 1 .. m = 1 .. n * Len(policy.providers)
                       /\ \A k \in 1 .. m : /\ calls[k] = CallOf(n, k)
                                            /\ Provider(n, k) \in 1 .. Len(policy.providers)
                                            /\ ((k - 1) % n) + 1 \in 1 .. n
                                            /\ k = 1 => Provider(n, k) = 1
  <2> HIDE DEF n, calls
  <2> QED BY CallsAre DEF n, calls
<1> HIDE DEF calls
<1>2. DOMAIN calls = 1 .. m
  BY <1>1
<1>3. PICK r : RouteAll(policy, outcome, calls) = r[m] /\ RoutesBy(r, policy, outcome, calls, m)
  <2> HIDE DEF n
  <2> QED BY <1>2, RouteRuns
<1>4. \A k \in 1 .. m : CallOf(n, k) \in CallType /\ ResultOf(outcome, n, k) \in Answers
  <2> TAKE k \in 1 .. m
  <2>1. calls[k] \in CallType
    BY <1>1, <1>2
  <2>2. ResultOf(outcome, n, k) \in Answers
    BY <1>1, ResultsAre
  <2> QED BY <1>1, <2>1, <2>2
<1> HIDE DEF n
<1> DEFINE T == {k \in Nat : k <= m => After(r[k], policy, outcome, n, k)}
<1>5. 0 \in T
  <2>1. Begin \in RouteState
    BY DEF Begin, RouteState
  <2>2. Going(Begin, outcome, n, 0)
    BY DEF Begin, Going
  <2>3. 1 .. 0 = {}
    OBVIOUS
  <2>4. After(Begin, policy, outcome, n, 0)
    BY <2>1, <2>2, <2>3 DEF After
  <2> QED BY <1>3, <2>4 DEF RoutesBy
<1>6. ASSUME NEW k \in Nat, k \in T PROVE k + 1 \in T
  <2> SUFFICES ASSUME k + 1 <= m PROVE After(r[k + 1], policy, outcome, n, k + 1)
    OBVIOUS
  <2>1. After(r[k], policy, outcome, n, k)
    BY <1>6
  <2>2. k + 1 \in 1 .. m /\ (k + 1) - 1 = k
    OBVIOUS
  <2>3. r[k + 1] = Attempt(policy, outcome, r[k], CallOf(n, k + 1))
    BY <1>1, <1>3, <2>2 DEF RoutesBy
  <2>4. CallOf(n, k + 1) \in CallType /\ ResultOf(outcome, n, k + 1) \in Answers
    BY <1>4, <2>2
  <2> HIDE DEF T
  <2> QED BY <2>1, <2>3, <2>4, OneCallMore
<1>7. m \in T
  <2> HIDE DEF T
  <2> QED BY <1>5, <1>6, Induction
<1>8. After(r[m], policy, outcome, n, m)
  BY <1>7
<1>9. m > 0 => Provider(n, 1) = 1
  <2>1. m > 0 => 1 \in 1 .. m
    OBVIOUS
  <2> QED BY <1>1, <2>1
<1> HIDE DEF T
<1> QED BY <1>1, <1>3, <1>8, <1>9 DEF n, calls

\* The first answer wins, for any policy and whatever its calls come to.
LEMMA AnswersFirst ==
  ASSUME NEW policy, policy.providers \in Seq(STRING), policy.retry_count \in Int,
         NEW outcome \in Outcomes(policy)
  PROVE  FirstAnswer(policy, outcome)
<1> DEFINE n == Attempts(policy)
           all == 1 .. n * Len(policy.providers)
           fatal == {k \in all : Fatal(policy, ResultOf(outcome, n, k))}
           stops == {k \in all : ResultOf(outcome, n, k) = "answer"} \cup fatal
           answer == Route(policy, outcome)
           s == RouteAll(policy, outcome, Calls(policy))
<1>1. PICK m \in Nat : /\ 1 .. m = all /\ (m > 0 => Provider(n, 1) = 1)
                       /\ After(s, policy, outcome, n, m)
  <2> HIDE DEF n, s
  <2> QED BY RoutedAll DEF n, s
<1>2. \A k \in 1 .. m : k \in stops <=> IsStop(policy, outcome, n, k)
  <2> HIDE DEF n, all
  <2> QED BY <1>1 DEF IsStop
<1>3. \A k \in 1 .. m : k \in fatal <=> Fatal(policy, ResultOf(outcome, n, k))
  <2> HIDE DEF n, all
  <2> QED BY <1>1
<1>4. s \in RouteState /\ answer = RouteAnswer(s)
  BY <1>1, RouteIs DEF After
<1> HIDE DEF n, s, answer
<1>5. /\ answer.attempted = s.attempted
      /\ answer.end = (IF s.end = "running" THEN "routing_error" ELSE s.end)
      /\ s.end = "answered" => /\ answer.by = s.by
                               /\ answer.was_fallback = (s.by > 1)
                               /\ s.by > 1 => answer.fallback_error = s.error
  BY <1>4, RouteAnswerIs
<1>6. ASSUME stops = {}
      PROVE  answer.end = "routing_error" /\ Len(answer.attempted) = Cardinality(all)
  <2>1. NoneUpTo(policy, outcome, n, m)
    <3> HIDE DEF stops
    <3> QED BY <1>2, <1>6 DEF NoneUpTo
  <2>2. Going(s, outcome, n, m)
    BY <1>1, <2>1 DEF After
  <2>3. Cardinality(1 .. m) = m
    <3>1. 1 \in Int /\ m \in Int
      OBVIOUS
    <3>2. Cardinality(1 .. m) = IF 1 > m THEN 0 ELSE m - 1 + 1
      BY <3>1, FS_Interval
    <3> QED BY <3>2
  <2> HIDE DEF all
  <2> QED BY <1>1, <1>5, <2>2, <2>3 DEF Going
<1>7. ASSUME NEW k \in stops, \A j \in stops : k <= j
      PROVE  /\ Len(answer.attempted) = k /\ Last(answer.attempted) = Provider(n, k)
             /\ answer.end = IF k \in fatal THEN "raised" ELSE "answered"
             /\ k \notin fatal => /\ answer.by = Provider(n, k)
                                  /\ answer.was_fallback <=> answer.by > 1
                                  /\ answer.by > 1 =>
                                       answer.fallback_error = ResultOf(outcome, n, k - 1)
  <2>1. k \in 1 .. m
    BY <1>1
  <2>2. NoneUpTo(policy, outcome, n, k - 1)
    <3>1. \A i \in 1 .. k - 1 : i \in 1 .. m /\ ~(k <= i)
      BY <2>1
    <3> HIDE DEF stops
    <3> QED BY <1>2, <1>7, <3>1 DEF NoneUpTo
  <2>3. IsStop(policy, outcome, n, k)
    <3> HIDE DEF stops
    <3> QED BY <1>2, <1>7, <2>1
  <2>4. Ended(s, policy, outcome, n, k)
    BY <1>1, <2>1, <2>2, <2>3 DEF After
  <2>5. k \in fatal <=> Fatal(policy, ResultOf(outcome, n, k))
    BY <1>3, <2>1
  <2> HIDE DEF stops, fatal, all
  <2>6. Len(answer.attempted) = k /\ Last(answer.attempted) = Provider(n, k)
    BY <1>5, <2>4 DEF Ended, Last
  <2>7. answer.end = IF k \in fatal THEN "raised" ELSE "answered"
    BY <1>5, <2>4, <2>5 DEF Ended
  <2>8. ASSUME k \notin fatal
        PROVE  /\ answer.by = Provider(n, k)
               /\ answer.was_fallback <=> answer.by > 1
               /\ answer.by > 1 => answer.fallback_error = ResultOf(outcome, n, k - 1)
    <3>1. s.end = "answered" /\ s.by = Provider(n, k)
          /\ (k > 1 => s.error = ResultOf(outcome, n, k - 1))
      BY <2>4, <2>5, <2>8 DEF Ended
    <3>2. answer.by = s.by /\ answer.was_fallback = (s.by > 1)
          /\ (s.by > 1 => answer.fallback_error = s.error)
      BY <1>5, <3>1
    <3>3. s.by > 1 => k > 1
      <4>1. CASE k = 1
        <5>1. m > 0
          BY <2>1
        <5>2. s.by = 1
          BY <1>1, <3>1, <4>1, <5>1
        <5> QED BY <5>2
      <4>2. CASE k # 1
        BY <4>2, <2>1
      <4> QED BY <4>1, <4>2
    <3> QED BY <3>1, <3>2, <3>3
  <2> QED BY <2>6, <2>7, <2>8
<1> HIDE DEF stops, fatal, all
<1> QED BY <1>6, <1>7 DEF FirstAnswer, n, all, fatal, stops, answer

-----------------------------------------------------------------------------
(* The release gate.                                                       *)

\* Of what FlattenSeq returns, the elements.
LEMMA FlattenElements ==
  ASSUME NEW S, NEW ss \in Seq(Seq(S))
  PROVE  /\ FlattenSeq(ss) \in Seq(S)
         /\ ToSet(FlattenSeq(ss)) = UNION {ToSet(ss[i]) : i \in 1 .. Len(ss)}
<1> DEFINE f == FlattenSeq(ss)
<1>1. f \in Seq(S) /\ \E g : Shaped(f, g, ss, Len(ss))
  BY FlattenShape
<1>2. PICK g : Shaped(f, g, ss, Len(ss))
  BY <1>1
<1> HIDE DEF f
<1>3. \A i \in 1 .. Len(ss) : ss[i] \in Seq(S)
  OBVIOUS
<1>t. \A s \in Seq(S) : ToSet(s) = {s[k] : k \in 1 .. Len(s)}
  BY DEF ToSet
<1>4. ASSUME NEW x \in ToSet(f) PROVE x \in UNION {ToSet(ss[i]) : i \in 1 .. Len(ss)}
  <2>1. PICK k \in 1 .. Len(f) : x = f[k]
    BY <1>1, <1>t
  <2>2. PICK i \in 1 .. Len(ss) : \E j \in 1 .. Len(ss[i]) : k = Offset(g, i) + j
    BY <1>2 DEF Shaped
  <2>3. PICK j \in 1 .. Len(ss[i]) : k = Offset(g, i) + j
    BY <2>2
  <2>4. x = ss[i][j]
    BY <1>2, <2>1, <2>3 DEF Shaped
  <2>5. x \in ToSet(ss[i])
    BY <2>4, <1>3, <1>t
  <2> QED BY <2>5
<1>5. ASSUME NEW i \in 1 .. Len(ss), NEW x \in ToSet(ss[i]) PROVE x \in ToSet(f)
  <2>1. PICK j \in 1 .. Len(ss[i]) : x = ss[i][j]
    BY <1>3, <1>t
  <2>2. /\ Offset(g, i) \in Nat /\ Offset(g, i) + Len(ss[i]) <= Len(f)
        /\ f[Offset(g, i) + j] = ss[i][j]
    BY <1>2 DEF Shaped
  <2>3. Len(ss[i]) \in Nat /\ Len(f) \in Nat
    BY <1>1, <1>3
  <2>4. Offset(g, i) + j \in 1 .. Len(f)
    <3>1. \A o, l, m \in Nat : \A e \in 1 .. l : o + l <= m => o + e \in 1 .. m
      OBVIOUS
    <3> QED BY <3>1, <2>2, <2>3
  <2> QED BY <2>1, <2>2, <2>4, <1>1, <1>t
<1> QED BY <1>1, <1>4, <1>5 DEF f

\* The result of a check.
ResultOfCheck(gate, check) == SafeScore(check[1], check[2], gate.thresholds, gate.app)
Names(gate) == ToSet(gate.required) \cap gate.registered
RowSet(gate, case) == {SafeScore(case, name, gate.thresholds, gate.app) : name \in Names(gate)}
ChecksOf(gate, cases) == ToSet(cases) \X Names(gate)

LEMMA SafeScoreIs ==
  ASSUME NEW case, NEW name, NEW thresholds, NEW app
  PROVE  LET r == SafeScore(case, name, thresholds, app) IN r.case = case /\ r.scorer = name
BY DEF SafeScore

\* A case has one result for every required name that is registered.
LEMMA RowIs ==
  ASSUME NEW gate, gate.required \in Seq(STRING), NEW case
  PROVE  Row(gate, case) \in Seq(RowSet(gate, case)) /\ ToSet(Row(gate, case)) = RowSet(gate, case)
<1> DEFINE q == gate.required
           R == RowSet(gate, case)
           at(i) == IF Resolved(gate, q[i])
                    THEN <<SafeScore(case, q[i], gate.thresholds, gate.app)>> ELSE <<>>
           ss == [i \in DOMAIN q |-> at(i)]
<1>q. q \in Seq(STRING) /\ Len(q) \in Nat /\ DOMAIN q = 1 .. Len(q)
  OBVIOUS
<1>t. ToSet(q) = {q[i] : i \in 1 .. Len(q)}
  BY <1>q DEF ToSet
<1>1. Row(gate, case) = FlattenSeq(ss)
  BY DEF Row
<1>2. ASSUME NEW i \in 1 .. Len(q)
      PROVE  /\ at(i) \in Seq(R)
             /\ Resolved(gate, q[i]) =>
                  ToSet(at(i)) = {SafeScore(case, q[i], gate.thresholds, gate.app)}
             /\ ~Resolved(gate, q[i]) => ToSet(at(i)) = {}
  <2>1. CASE Resolved(gate, q[i])
    <3>1. q[i] \in Names(gate)
      BY <2>1, <1>t DEF Names, Resolved
    <3>2. SafeScore(case, q[i], gate.thresholds, gate.app) \in R
      BY <3>1 DEF RowSet
    <3>3. at(i) = <<SafeScore(case, q[i], gate.thresholds, gate.app)>>
      BY <2>1
    <3> HIDE DEF at, R
    <3>4. \A x : ToSet(<<x>>) = {x} /\ (x \in R => <<x>> \in Seq(R))
      BY DEF ToSet
    <3> QED BY <3>2, <3>3, <3>4, <2>1
  <2>2. CASE ~Resolved(gate, q[i])
    <3>1. at(i) = <<>>
      BY <2>2
    <3>2. <<>> \in Seq(R) /\ ToSet(<<>>) = {}
      BY DEF ToSet
    <3> HIDE DEF at, R
    <3> QED BY <3>1, <3>2, <2>2
  <2> QED BY <2>1, <2>2
<1>3. ss \in Seq(Seq(R)) /\ Len(ss) = Len(q) /\ \A i \in 1 .. Len(q) : ss[i] = at(i)
  <2> HIDE DEF at, R
  <2>1. ss \in [1 .. Len(q) -> Seq(R)]
    BY <1>q, <1>2
  <2> QED BY <2>1, <1>q
<1>4. /\ FlattenSeq(ss) \in Seq(R)
      /\ ToSet(FlattenSeq(ss)) = UNION {ToSet(ss[i]) : i \in 1 .. Len(ss)}
  <2> HIDE DEF ss, R
  <2> QED BY <1>3, FlattenElements
<1>5. UNION {ToSet(ss[i]) : i \in 1 .. Len(ss)} = R
  <2>1. ASSUME NEW i \in 1 .. Len(q), NEW x \in ToSet(at(i)) PROVE x \in R
    <3>1. Resolved(gate, q[i]) /\ x = SafeScore(case, q[i], gate.thresholds, gate.app)
      <4> HIDE DEF at
      <4> QED BY <1>2, <2>1
    <3>2. q[i] \in Names(gate)
      BY <3>1, <1>t DEF Names, Resolved
    <3> QED BY <3>1, <3>2 DEF RowSet
  <2>2. ASSUME NEW x \in R PROVE \E i \in 1 .. Len(q) : x \in ToSet(at(i))
    <3>1. PICK name \in Names(gate) : x = SafeScore(case, name, gate.thresholds, gate.app)
      BY DEF RowSet
    <3>2. PICK i \in 1 .. Len(q) : name = q[i]
      BY <1>t DEF Names
    <3>3. Resolved(gate, q[i])
      BY <3>2 DEF Names, Resolved
    <3>4. x \in ToSet(at(i))
      <4> HIDE DEF at
      <4> QED BY <1>2, <3>1, <3>2, <3>3
    <3> QED BY <3>4
  <2> HIDE DEF at, R, ss
  <2> QED BY <2>1, <2>2, <1>3
<1> HIDE DEF ss, R
<1> QED BY <1>1, <1>4, <1>5 DEF R

\* The results are those of the checks.
LEMMA ResultsOfChecks ==
  ASSUME NEW gate, gate.required \in Seq(STRING), NEW C, NEW cases \in Seq(C)
  PROVE  ToSet(Results(gate, cases)) = {ResultOfCheck(gate, c) : c \in ChecksOf(gate, cases)}
<1> DEFINE at(i) == Row(gate, cases[i])
           ss == [i \in DOMAIN cases |-> at(i)]
           R == {ResultOfCheck(gate, c) : c \in ChecksOf(gate, cases)}
<1>c. Len(cases) \in Nat /\ DOMAIN cases = 1 .. Len(cases)
  OBVIOUS
<1>t. ToSet(cases) = {cases[i] : i \in 1 .. Len(cases)}
  BY <1>c DEF ToSet
<1>1. Results(gate, cases) = FlattenSeq(ss)
  BY DEF Results
<1>2. ASSUME NEW i \in 1 .. Len(cases)
      PROVE  RowSet(gate, cases[i]) \subseteq R
  <2> SUFFICES ASSUME NEW name \in Names(gate)
      PROVE SafeScore(cases[i], name, gate.thresholds, gate.app) \in R
    BY DEF RowSet
  <2>1. <<cases[i], name>> \in ChecksOf(gate, cases)
    BY <1>t DEF ChecksOf
  <2>2. ResultOfCheck(gate, <<cases[i], name>>) =
          SafeScore(cases[i], name, gate.thresholds, gate.app)
    BY DEF ResultOfCheck
  <2> QED BY <2>1, <2>2
<1>3. ASSUME NEW i \in 1 .. Len(cases)
      PROVE  at(i) \in Seq(R) /\ ToSet(at(i)) = RowSet(gate, cases[i])
  <2>1. at(i) \in Seq(RowSet(gate, cases[i])) /\ ToSet(at(i)) = RowSet(gate, cases[i])
    BY RowIs
  <2>2. \A A, B : A \subseteq B => \A s \in Seq(A) : s \in Seq(B)
    OBVIOUS
  <2> HIDE DEF at, R
  <2> QED BY <2>1, <2>2, <1>2
<1>4. ss \in Seq(Seq(R)) /\ Len(ss) = Len(cases) /\ \A i \in 1 .. Len(cases) : ss[i] = at(i)
  <2> HIDE DEF at, R
  <2>1. ss \in [1 .. Len(cases) -> Seq(R)]
    BY <1>c, <1>3
  <2> QED BY <2>1, <1>c
<1>5. ToSet(FlattenSeq(ss)) = UNION {ToSet(ss[i]) : i \in 1 .. Len(ss)}
  <2> HIDE DEF ss, R
  <2> QED BY <1>4, FlattenElements
<1>6. UNION {ToSet(ss[i]) : i \in 1 .. Len(ss)} = UNION {RowSet(gate, cases[i]) : i \in 1 .. Len(cases)}
  <2> HIDE DEF ss, R, at
  <2> QED BY <1>3, <1>4
<1>7. R \subseteq UNION {RowSet(gate, cases[i]) : i \in 1 .. Len(cases)}
  <2> SUFFICES ASSUME NEW c \in ChecksOf(gate, cases)
      PROVE \E i \in 1 .. Len(cases) : ResultOfCheck(gate, c) \in RowSet(gate, cases[i])
    OBVIOUS
  <2>1. PICK i \in 1 .. Len(cases) : c[1] = cases[i]
    BY <1>t DEF ChecksOf
  <2>2. c[2] \in Names(gate)
    BY DEF ChecksOf
  <2> QED BY <2>1, <2>2 DEF ResultOfCheck, RowSet
<1> HIDE DEF ss, R, at
<1>8. R = UNION {RowSet(gate, cases[i]) : i \in 1 .. Len(cases)}
  BY <1>2, <1>7
<1> QED BY <1>1, <1>5, <1>6, <1>8 DEF R

\* What the gate finds among the results is what is found among the checks.
LEMMA GateFinds ==
  ASSUME NEW gate, gate.required \in Seq(STRING), NEW C, NEW cases \in Seq(C), NEW status
  PROVE  /\ {Label(r) : r \in Of(Results(gate, cases), gate.required, status)}
              = Found(gate, cases, status)
         /\ Found(gate, cases, status) = {} =>
              /\ Of(Results(gate, cases), gate.required, status) = {}
              /\ CaseIds(Results(gate, cases), status) = {}
<1> DEFINE results == Results(gate, cases)
           Checks == ChecksOf(gate, cases)
<1>1. ToSet(results) = {ResultOfCheck(gate, c) : c \in Checks}
  BY ResultsOfChecks
<1>2. ASSUME NEW c \in Checks
      PROVE  LET r == ResultOfCheck(gate, c)
             IN  Label(r) = c /\ r.scorer \in ToSet(gate.required)
  <2>1. ResultOfCheck(gate, c).case = c[1] /\ ResultOfCheck(gate, c).scorer = c[2]
    BY SafeScoreIs DEF ResultOfCheck
  <2>2. c = <<c[1], c[2]>> /\ c[2] \in ToSet(gate.required)
    BY DEF ChecksOf, Names
  <2> QED BY <2>1, <2>2 DEF Label
<1>3. Found(gate, cases, status) = {c \in Checks : ResultOfCheck(gate, c).status = status}
  BY DEF Found, ChecksOf, Names, ResultOfCheck
<1> HIDE DEF results, Checks
<1>4. Of(results, gate.required, status)
        = {ResultOfCheck(gate, c) : c \in Found(gate, cases, status)}
  BY <1>1, <1>2, <1>3 DEF Of
<1>5. \A c \in Found(gate, cases, status) : Label(ResultOfCheck(gate, c)) = c
  BY <1>2, <1>3
<1>6. {Label(r) : r \in Of(results, gate.required, status)} = Found(gate, cases, status)
  BY <1>4, <1>5
<1>7. Found(gate, cases, status) = {} => {s \in ToSet(results) : s.status = status} = {}
  BY <1>1, <1>3
<1>8. Found(gate, cases, status) = {} => CaseIds(results, status) = {}
  BY <1>7 DEF CaseIds
<1> QED BY <1>4, <1>6, <1>8 DEF results

\* The report of the gate says what was found.
LEMMA GateIsHonest ==
  ASSUME NEW gate, gate.required \in Seq(STRING), NEW C, NEW cases \in Seq(C)
  PROVE  Honest(gate, cases)
<1> DEFINE results == Results(gate, cases)
           report == Report(gate, cases)
           failed == Of(results, gate.required, "failed")
           error == Of(results, gate.required, "error")
<1>1. /\ {Label(r) : r \in failed} = Found(gate, cases, "failed")
      /\ Found(gate, cases, "failed") = {} => failed = {} /\ CaseIds(results, "failed") = {}
      /\ {Label(r) : r \in error} = Found(gate, cases, "error")
      /\ Found(gate, cases, "error") = {} => error = {} /\ CaseIds(results, "error") = {}
  BY GateFinds
<1>2. failed = {} <=> Found(gate, cases, "failed") = {}
  <2> HIDE DEF failed
  <2> QED BY <1>1
<1>3. error = {} <=> Found(gate, cases, "error") = {}
  <2> HIDE DEF error
  <2> QED BY <1>1
<1>4. gate.required = <<>> <=> ToSet(gate.required) = {}
  <2>1. \A q \in Seq(STRING) : q # <<>> => q[1] \in {q[i] : i \in DOMAIN q}
    OBVIOUS
  <2>2. \A q \in Seq(STRING) : q = <<>> => {q[i] : i \in DOMAIN q} = {}
    OBVIOUS
  <2> QED BY <2>1, <2>2 DEF ToSet
<1>5. Missing(gate) = {} <=> ToSet(gate.required) \subseteq gate.registered
  BY DEF Missing, Resolved
<1>6. /\ report.status = Aggregate(gate, cases, results)
      /\ report.results = results
      /\ report.blockers = Blockers(gate, results)
  BY DEF Report
<1> HIDE DEF report, results
<1>7. /\ report.status \in {"passed", "failed", "incomplete"}
      /\ report.status = "passed" <=> Unopposed(gate, cases)
      /\ report.status = "failed" <=> failed # {}
  BY <1>2, <1>3, <1>4, <1>5, <1>6 DEF Aggregate, Unopposed, Judged
<1>8. Earned(gate, cases) => Unopposed(gate, cases)
  BY DEF Earned, Unopposed, Judged, Found
<1>9. report.blockers = Found(gate, cases, "failed")
  BY <1>1, <1>6 DEF Blockers
<1>10. /\ ExitCode(TRUE, report) = 0 <=> report.status = "passed"
       /\ ExitCode(TRUE, report) = 1 <=> report.status = "failed"
  BY <1>7 DEF ExitCode
<1>11. ReportView(report).action = "ship" <=> report.status = "passed"
  BY <1>7 DEF ReportView, NextAction
<1>12. ASSUME Earned(gate, cases), NEW case \in ToSet(cases)
       PROVE  ReportView(report).rows[case.id] = "passed"
  <2>1. PICK name \in Names(gate) : TRUE
    BY <1>12 DEF Earned, Judged, Names
  <2>2. <<case, name>> \in ChecksOf(gate, cases)
    BY DEF ChecksOf
  <2>3. ResultOfCheck(gate, <<case, name>>).case = case
    BY SafeScoreIs DEF ResultOfCheck
  <2>4. ToSet(results) = {ResultOfCheck(gate, c) : c \in ChecksOf(gate, cases)}
    BY ResultsOfChecks DEF results
  <2>5. case.id \in {r.case.id : r \in ToSet(report.results)}
    BY <2>2, <2>3, <2>4, <1>6
  <2>6. CaseIds(report.results, "failed") = {} /\ CaseIds(report.results, "error") = {}
    BY <1>1, <1>6, <1>8, <1>12 DEF Unopposed
  <2>7. CaseStatus(report, case.id) = "passed"
    BY <2>6 DEF CaseStatus
  <2>8. ReportView(report).rows = CaseRows(report)
    BY DEF ReportView
  <2> QED BY <2>5, <2>7, <2>8 DEF CaseRows
<1>13. ExitCode(TRUE, report) = 1 <=> report.blockers # {}
  BY <1>2, <1>7, <1>9, <1>10
<1> HIDE DEF failed, error
<1> QED BY <1>7, <1>8, <1>9, <1>10, <1>11, <1>12, <1>13 DEF Honest, report

\* The manifest lists files, whatever calls made it.
LEMMA ManifestIsSeq ==
  ASSUME NEW S, NEW calls \in Seq(S)
  PROVE  \E C : LoadCases(Disk(calls)) \in Seq(C)
<1> DEFINE n == Len(calls)
           P == {call.out : call \in S}
<1>n. n \in Nat /\ DOMAIN calls = 1 .. n /\ \A k \in 1 .. n : calls[k] \in S
  OBVIOUS
<1> HIDE DEF n
<1>1. PICK r : Disk(calls) = r[n] /\ MakesBy(r, calls, n)
  BY <1>n, MakeRuns
<1> DEFINE T == {k \in Nat : k <= n => r[k].cases \in Seq(P)}
<1>2. 0 \in T
  <2>1. r[0] = EmptyDisk
    BY <1>1 DEF MakesBy
  <2>2. r[0].cases = <<>>
    BY <2>1 DEF EmptyDisk
  <2> HIDE DEF P
  <2>3. <<>> \in Seq(P)
    OBVIOUS
  <2> QED BY <2>2, <2>3
<1>3. ASSUME NEW k \in T PROVE k + 1 \in T
  <2> SUFFICES ASSUME k + 1 <= n PROVE r[k + 1].cases \in Seq(P)
    BY <1>3
  <2>1. k + 1 \in 1 .. n /\ (k + 1) - 1 = k /\ k <= n
    BY <1>n, <1>3
  <2>2. r[k + 1] = MakeCase(r[k], calls[k + 1])
    BY <1>1, <2>1 DEF MakesBy
  <2>3. r[k].cases \in Seq(P)
    BY <1>3, <2>1
  <2>4. calls[k + 1].out \in P
    BY <1>n, <2>1
  <2> HIDE DEF P
  <2>5. \/ r[k + 1].cases = r[k].cases
        \/ r[k + 1].cases = Append(r[k].cases, calls[k + 1].out)
    BY <2>2 DEF MakeCase
  <2>6. \A q \in Seq(P) : \A x \in P : Append(q, x) \in Seq(P)
    OBVIOUS
  <2>7. Append(r[k].cases, calls[k + 1].out) \in Seq(P)
    BY <2>3, <2>4, <2>6
  <2> QED BY <2>3, <2>5, <2>7, Zenon
<1>4. Nat \subseteq T
  <2> HIDE DEF T
  <2> QED BY <1>2, <1>3, Induction
<1>5. Disk(calls).cases \in Seq(P)
  BY <1>1, <1>4, <1>n
<1> DEFINE disk == Disk(calls)
           C == {disk.file[disk.cases[i]] : i \in DOMAIN disk.cases}
<1> HIDE DEF P, T
<1>6. LoadCases(disk) = [i \in DOMAIN disk.cases |-> disk.file[disk.cases[i]]]
  BY DEF LoadCases
<1>7. disk.cases \in Seq(P) /\ DOMAIN disk.cases = 1 .. Len(disk.cases) /\ Len(disk.cases) \in Nat
  BY <1>5
<1> HIDE DEF disk
<1>8. LoadCases(disk) \in Seq(C)
  BY <1>6, <1>7
<1> QED BY <1>8 DEF disk

-----------------------------------------------------------------------------
(* Sums over finite sets.                                                  *)

Chosen(s) == CHOOSE x \in s : TRUE
\* g is the sum of f over each subset of U.
Summing(g, f, U) ==
  g = [s \in SUBSET U |-> IF s = {} THEN 0 ELSE f[Chosen(s)] + g[s \ {Chosen(s)}]]

\* What a set without one of its elements counts.
LEMMA OneLess ==
  ASSUME NEW s, IsFiniteSet(s), NEW x \in s, NEW n \in Nat, Cardinality(s) <= n + 1
  PROVE  IsFiniteSet(s \ {x}) /\ Cardinality(s \ {x}) <= n
<1>1. Cardinality(s) \in Nat /\ Cardinality(s \ {x}) \in Nat /\ IsFiniteSet(s \ {x})
  BY FS_CardinalityType, FS_RemoveElement
<1>2. Cardinality(s \ {x}) = Cardinality(s) - 1
  BY FS_RemoveElement
<1> QED BY <1>1, <1>2

\* A set that has no elements counts none, and no other does.
LEMMA NoElements ==
  ASSUME NEW s, IsFiniteSet(s), Cardinality(s) <= 0
  PROVE  s = {}
<1>1. Cardinality(s) \in Nat
  BY FS_CardinalityType
<1> QED BY <1>1, FS_EmptySet

\* There are such sums.
LEMMA SummingExists ==
  ASSUME NEW f, NEW U, IsFiniteSet(U)
  PROVE  \E g : Summing(g, f, U)
<1> DEFINE step(g, s) == IF s = {} THEN 0 ELSE f[Chosen(s)] + g[s \ {Chosen(s)}]
           T == {n \in Nat : \E g : \A s \in SUBSET U : Cardinality(s) <= n => g[s] = step(g, s)}
<1>f. \A s \in SUBSET U : IsFiniteSet(s) /\ Cardinality(s) \in Nat /\ Cardinality(s) <= Cardinality(U)
  BY FS_Subset, FS_CardinalityType
<1>c. \A s \in SUBSET U : s # {} => Chosen(s) \in s /\ s \ {Chosen(s)} \in SUBSET U
  BY DEF Chosen
<1>1. 0 \in T
  <2> DEFINE g == [s \in SUBSET U |-> 0]
  <2>1. \A s \in SUBSET U : Cardinality(s) <= 0 => g[s] = step(g, s)
    BY <1>f, NoElements
  <2> HIDE DEF g, step
  <2> QED BY <2>1
<1>2. ASSUME NEW n \in T PROVE n + 1 \in T
  <2>n. n \in Nat
    BY <1>2
  <2>1. PICK g : \A s \in SUBSET U : Cardinality(s) <= n => g[s] = step(g, s)
    BY <1>2
  <2> DEFINE h == [s \in SUBSET U |-> IF Cardinality(s) <= n THEN g[s] ELSE step(g, s)]
  <2>2. ASSUME NEW s \in SUBSET U, Cardinality(s) <= n + 1 PROVE h[s] = step(h, s)
    <3>1. h[s] = step(g, s)
      <4> HIDE DEF step
      <4> QED BY <2>1
    <3>2. step(h, s) = step(g, s)
      <4>1. CASE s = {}
        BY <4>1
      <4>2. CASE s # {}
        <5>1. Cardinality(s \ {Chosen(s)}) <= n
          BY <1>f, <1>c, <2>n, <2>2, <4>2, OneLess
        <5>2. h[s \ {Chosen(s)}] = g[s \ {Chosen(s)}]
          <6> HIDE DEF step
          <6> QED BY <5>1, <1>c, <4>2
        <5> HIDE DEF h
        <5> QED BY <5>2, <4>2
      <4> QED BY <4>1, <4>2
    <3> HIDE DEF h, step
    <3> QED BY <3>1, <3>2
  <2> HIDE DEF h, step
  <2>3. \A s \in SUBSET U : Cardinality(s) <= n + 1 => h[s] = step(h, s)
    BY <2>2
  <2> QED BY <2>3, <2>n
<1>3. Nat \subseteq T
  <2> HIDE DEF T
  <2> QED BY <1>1, <1>2, Induction
<1>4. PICK g : \A s \in SUBSET U : g[s] = step(g, s)
  <2>1. Cardinality(U) \in T
    BY <1>3, <1>f
  <2> HIDE DEF step
  <2> QED BY <2>1, <1>f
<1> DEFINE h == [s \in SUBSET U |-> g[s]]
<1>5. \A s \in SUBSET U : step(h, s) = g[s]
  <2>1. \A s \in SUBSET U : s # {} => h[s \ {Chosen(s)}] = g[s \ {Chosen(s)}]
    BY <1>c
  <2> HIDE DEF h
  <2> QED BY <2>1, <1>4
<1>6. h = [s \in SUBSET U |-> step(h, s)]
  <2>1. \A s \in SUBSET U : h[s] = step(h, s)
    <3> HIDE DEF step
    <3> QED BY <1>5
  <2>2. h = [s \in SUBSET U |-> h[s]]
    OBVIOUS
  <2> HIDE DEF h, step
  <2> QED BY <2>1, <2>2
<1>7. Summing(h, f, U)
  <2> HIDE DEF h
  <2> QED BY <1>6 DEF Summing
<1> QED BY <1>7

Sums(f, U) == CHOOSE g : Summing(g, f, U)

\* SumFunctionOnSet is such a sum.
LEMMA SumIs ==
  ASSUME NEW f, NEW U, IsFiniteSet(U)
  PROVE  SumFunctionOnSet(f, U) = Sums(f, U)[U] /\ Summing(Sums(f, U), f, U)
<1>1. Summing(Sums(f, U), f, U)
  BY SummingExists DEF Sums
<1>2. SumFunctionOnSet(f, U) = Sums(f, U)[U]
  BY DEF SumFunctionOnSet, FoldFunctionOnSet, MapThenFoldSet, Sums, Summing, Chosen
<1> QED BY <1>1, <1>2

\* What is summed is summed up by the values alone.
LEMMA SumsAgree ==
  ASSUME NEW f, NEW U, NEW g, Summing(g, f, U),
         NEW e, NEW V, NEW h, Summing(h, e, V), NEW W \in SUBSET U, W \in SUBSET V,
         IsFiniteSet(W), \A x \in W : e[x] = f[x]
  PROVE  g[W] = h[W]
<1> DEFINE T == {n \in Nat : \A s \in SUBSET W : Cardinality(s) <= n => g[s] = h[s]}
<1>f. \A s \in SUBSET W : IsFiniteSet(s) /\ Cardinality(s) \in Nat /\ Cardinality(s) <= Cardinality(W)
  BY FS_Subset, FS_CardinalityType
<1>1. ASSUME NEW s \in SUBSET W
      PROVE  /\ g[s] = IF s = {} THEN 0 ELSE f[Chosen(s)] + g[s \ {Chosen(s)}]
             /\ h[s] = IF s = {} THEN 0 ELSE e[Chosen(s)] + h[s \ {Chosen(s)}]
             /\ s # {} => Chosen(s) \in s /\ s \ {Chosen(s)} \in SUBSET W
  <2>1. s \in SUBSET U /\ s \in SUBSET V
    OBVIOUS
  <2>2. s # {} => Chosen(s) \in s
    BY DEF Chosen
  <2> QED BY <2>1, <2>2 DEF Summing
<1>2. 0 \in T
  BY <1>1, <1>f, NoElements
<1>3. ASSUME NEW n \in T PROVE n + 1 \in T
  <2> SUFFICES ASSUME NEW s \in SUBSET W, Cardinality(s) <= n + 1 PROVE g[s] = h[s]
    BY <1>3
  <2>1. CASE s = {}
    BY <2>1, <1>1
  <2>2. CASE s # {}
    <3>1. Cardinality(s \ {Chosen(s)}) <= n /\ s \ {Chosen(s)} \in SUBSET W
      BY <1>f, <1>1, <1>3, <2>2, OneLess
    <3>2. g[s \ {Chosen(s)}] = h[s \ {Chosen(s)}]
      BY <3>1, <1>3
    <3>3. e[Chosen(s)] = f[Chosen(s)]
      BY <1>1, <2>2
    <3> QED BY <3>2, <3>3, <1>1, <2>2
  <2> QED BY <2>1, <2>2
<1>4. Nat \subseteq T
  <2> HIDE DEF T
  <2> QED BY <1>2, <1>3, Induction
<1> QED BY <1>4, <1>f

\* The sums are integers, and any element may be taken first.
LEMMA SumsAdd ==
  ASSUME NEW f, NEW U, NEW g, Summing(g, f, U), IsFiniteSet(U), \A x \in U : f[x] \in Int
  PROVE  \A s \in SUBSET U : g[s] \in Int /\ \A x \in s : g[s] = f[x] + g[s \ {x}]
<1> DEFINE P(s) == g[s] \in Int /\ \A x \in s : g[s] = f[x] + g[s \ {x}]
           T == {n \in Nat : \A s \in SUBSET U : Cardinality(s) <= n => P(s)}
<1>f. \A s \in SUBSET U : IsFiniteSet(s) /\ Cardinality(s) \in Nat /\ Cardinality(s) <= Cardinality(U)
  BY FS_Subset, FS_CardinalityType
<1>1. ASSUME NEW s \in SUBSET U
      PROVE  /\ g[s] = IF s = {} THEN 0 ELSE f[Chosen(s)] + g[s \ {Chosen(s)}]
             /\ s # {} => Chosen(s) \in s /\ s \ {Chosen(s)} \in SUBSET U
  <2>2. s # {} => Chosen(s) \in s
    BY DEF Chosen
  <2> QED BY <2>2 DEF Summing
<1>2. 0 \in T
  BY <1>1, <1>f, NoElements
<1>3. ASSUME NEW n \in T PROVE n + 1 \in T
  <2> SUFFICES ASSUME NEW s \in SUBSET U, Cardinality(s) <= n + 1 PROVE P(s)
    BY <1>3
  <2>n. n \in Nat
    BY <1>3
  <2>1. CASE s = {}
    <3>1. g[s] = 0
      BY <2>1, <1>1, Zenon
    <3> QED BY <2>1, <3>1
  <2>2. CASE s # {}
    <3> DEFINE p == Chosen(s)
    <3>0. p \in s /\ f[p] \in Int
      BY <1>1, <2>2
    <3> HIDE DEF p
    <3>1. \A x \in s : s \ {x} \in SUBSET U /\ Cardinality(s \ {x}) <= n /\ f[x] \in Int
      BY <1>f, <2>n, OneLess
    <3>2. \A x \in s : P(s \ {x})
      <4> HIDE DEF P
      <4> QED BY <3>1, <1>3
    <3>3. g[s] = f[p] + g[s \ {p}]
      BY <1>1, <2>2 DEF p
    <3>4. ASSUME NEW x \in s, x # p PROVE g[s] = f[x] + g[s \ {x}]
      <4>1. g[s \ {p}] = f[x] + g[(s \ {p}) \ {x}]
        BY <3>0, <3>2, <3>4
      <4>2. g[s \ {x}] = f[p] + g[(s \ {x}) \ {p}]
        BY <3>0, <3>2, <3>4
      <4>3. (s \ {x}) \ {p} = (s \ {p}) \ {x}
        OBVIOUS
      <4> DEFINE r == g[(s \ {p}) \ {x}]
      <4>4. r \in Int
        <5>1. (s \ {p}) \ {x} \in SUBSET U /\ Cardinality((s \ {p}) \ {x}) <= n
          <6>1. IsFiniteSet(s \ {p}) /\ Cardinality(s \ {p}) <= n /\ s \ {p} \in SUBSET U
            BY <3>0, <3>1, <1>f
          <6>2. (s \ {p}) \ {x} \in SUBSET (s \ {p})
            OBVIOUS
          <6>3. Cardinality((s \ {p}) \ {x}) <= Cardinality(s \ {p})
            BY <6>1, <6>2, FS_Subset
          <6>4. (s \ {p}) \ {x} \in SUBSET U
            BY <6>1
          <6> QED BY <6>1, <6>3, <6>4, <1>f, <2>n
        <5> QED BY <5>1, <1>3
      <4> HIDE DEF r
      <4>5. g[s] = f[p] + (f[x] + r) /\ g[s \ {x}] = f[p] + r
        BY <3>3, <4>1, <4>2, <4>3 DEF r
      <4> QED BY <4>4, <4>5, <3>0, <3>1
    <3>5. g[s] \in Int
      <4>1. g[s \ {p}] \in Int
        BY <3>0, <3>2, Zenon
      <4> QED BY <3>0, <3>3, <4>1
    <3> QED BY <3>3, <3>4, <3>5
  <2> QED BY <2>1, <2>2
<1>4. Nat \subseteq T
  <2> HIDE DEF T
  <2> QED BY <1>2, <1>3, Induction
<1> QED BY <1>4, <1>f

\* The sum over a set is an integer; none of nothing; and that of an element and of the rest.
LEMMA SumFacts ==
  ASSUME NEW f, NEW U, IsFiniteSet(U), \A x \in U : f[x] \in Int
  PROVE  /\ SumFunctionOnSet(f, U) \in Int
         /\ U = {} => SumFunctionOnSet(f, U) = 0
         /\ \A x \in U : SumFunctionOnSet(f, U) = f[x] + SumFunctionOnSet(f, U \ {x})
<1>1. SumFunctionOnSet(f, U) = Sums(f, U)[U] /\ Summing(Sums(f, U), f, U)
  BY SumIs
<1>2. \A s \in SUBSET U : Sums(f, U)[s] \in Int
                          /\ \A x \in s : Sums(f, U)[s] = f[x] + Sums(f, U)[s \ {x}]
  BY <1>1, SumsAdd
<1>3. U = {} => SumFunctionOnSet(f, U) = 0
  BY <1>1 DEF Summing
<1>4. ASSUME NEW x \in U PROVE SumFunctionOnSet(f, U) = f[x] + SumFunctionOnSet(f, U \ {x})
  <2>1. IsFiniteSet(U \ {x}) /\ U \ {x} \in SUBSET U
    BY FS_RemoveElement
  <2>2. /\ SumFunctionOnSet(f, U \ {x}) = Sums(f, U \ {x})[U \ {x}]
        /\ Summing(Sums(f, U \ {x}), f, U \ {x})
    BY <2>1, SumIs
  <2>3. Sums(f, U \ {x})[U \ {x}] = Sums(f, U)[U \ {x}]
    BY <2>1, <2>2, <1>1, SumsAgree
  <2>4. U \in SUBSET U
    OBVIOUS
  <2> QED BY <2>2, <2>3, <2>4, <1>1, <1>2
<1> QED BY <1>1, <1>2, <1>3, <1>4

\* Functions that agree on a set have one sum over it.
LEMMA SumSame ==
  ASSUME NEW f, NEW e, NEW U, IsFiniteSet(U), \A x \in U : e[x] = f[x]
  PROVE  SumFunctionOnSet(e, U) = SumFunctionOnSet(f, U)
<1>1. SumFunctionOnSet(f, U) = Sums(f, U)[U] /\ Summing(Sums(f, U), f, U)
  BY SumIs
<1>2. SumFunctionOnSet(e, U) = Sums(e, U)[U] /\ Summing(Sums(e, U), e, U)
  BY SumIs
<1>3. U \in SUBSET U
  OBVIOUS
<1>4. Sums(f, U)[U] = Sums(e, U)[U]
  BY <1>1, <1>2, <1>3, SumsAgree
<1> QED BY <1>1, <1>2, <1>4

\* The sum of what is not negative.
LEMMA SumNat ==
  ASSUME NEW f, NEW U, IsFiniteSet(U), \A x \in U : f[x] \in Nat
  PROVE  SumFunctionOnSet(f, U) \in Nat
<1> DEFINE Sum(s) == SumFunctionOnSet(f, s)
           T == {n \in Nat : \A s \in SUBSET U : Cardinality(s) <= n => Sum(s) \in Nat}
<1>f. \A s \in SUBSET U : IsFiniteSet(s) /\ Cardinality(s) \in Nat /\ Cardinality(s) <= Cardinality(U)
  BY FS_Subset, FS_CardinalityType
<1>1. ASSUME NEW s \in SUBSET U
      PROVE  (s = {} => Sum(s) = 0) /\ \A x \in s : Sum(s) = f[x] + Sum(s \ {x})
  <2>1. IsFiniteSet(s) /\ \A x \in s : f[x] \in Int
    BY <1>f
  <2> QED BY <2>1, SumFacts
<1> HIDE DEF Sum
<1>2. 0 \in T
  BY <1>1, <1>f, NoElements
<1>3. ASSUME NEW n \in T PROVE n + 1 \in T
  <2> SUFFICES ASSUME NEW s \in SUBSET U, Cardinality(s) <= n + 1 PROVE Sum(s) \in Nat
    BY <1>3
  <2>1. CASE s = {}
    BY <2>1, <1>1
  <2>2. CASE s # {}
    <3>1. PICK x \in s : TRUE
      BY <2>2
    <3>2. Cardinality(s \ {x}) <= n /\ s \ {x} \in SUBSET U
      BY <1>f, <1>3, OneLess
    <3>3. Sum(s \ {x}) \in Nat /\ f[x] \in Nat
      BY <3>2, <1>3
    <3>4. Sum(s) = f[x] + Sum(s \ {x})
      BY <1>1
    <3> QED BY <3>3, <3>4
  <2> QED BY <2>1, <2>2
<1>4. Nat \subseteq T
  <2> HIDE DEF T
  <2> QED BY <1>2, <1>3, Induction
<1>5. Sum(U) \in Nat
  BY <1>4, <1>f
<1> QED BY <1>5 DEF Sum

-----------------------------------------------------------------------------
(* The readiness verdict.                                                  *)

\* Rounding to hundredths of a percent, 8000 is reached half a hundredth early, and no earlier.
LEMMA RoundedReaches ==
  ASSUME NEW n \in Int, NEW d \in Nat \ {0}
  PROVE  Rounded(n, d) >= 8000 <=> 20000 * n >= 15999 * d
<1> DEFINE q == (n * 10000) \div d
           r == (n * 10000) % d
<1>1. q \in Int /\ r \in 0 .. d - 1 /\ n * 10000 = q * d + r
  <2>1. \A x \in Int : \A y \in Nat \ {0} :
          x \div y \in Int /\ x % y \in 0 .. y - 1 /\ x = (x \div y) * y + (x % y)
    BY SMT
  <2> DEFINE x == n * 10000
  <2>2. x \in Int
    OBVIOUS
  <2> HIDE DEF x
  <2>3. x \div d \in Int /\ x % d \in 0 .. d - 1 /\ x = (x \div d) * d + (x % d)
    BY <2>1, <2>2, Zenon
  <2> QED BY <2>3 DEF x
<1>2. Rounded(n, d) = IF 2 * r > d \/ (2 * r = d /\ q % 2 = 1) THEN q + 1 ELSE q
  BY DEF Rounded
<1> HIDE DEF q, r
<1>3. 20000 * n = 2 * (q * d) + 2 * r
  BY <1>1
<1>4. CASE q >= 8000
  <2>1. q * d >= 8000 * d
    <3>1. \A x, y \in Int : \A z \in Nat : x >= y => x * z >= y * z
      BY SMT
    <3> QED BY <3>1, <1>4, <1>1
  <2> QED BY <1>1, <1>2, <1>3, <1>4, <2>1
<1>5. CASE q = 7999
  <2>1. q * d = 7999 * d
    BY <1>5
  <2>2. q % 2 = 1
    BY <1>5
  <2> QED BY <1>1, <1>2, <1>3, <1>5, <2>1, <2>2
<1>6. CASE q <= 7998
  <2>1. q * d <= 7998 * d
    <3>1. \A x, y \in Int : \A z \in Nat : x <= y => x * z <= y * z
      BY SMT
    <3> QED BY <3>1, <1>6, <1>1
  <2>2. Rounded(n, d) <= 7999
    BY <1>1, <1>2, <1>6
  <2>3. Rounded(n, d) \in Int
    BY <1>1, <1>2
  <2>4. 20000 * n < 15999 * d
    BY <1>1, <1>3, <2>1
  <2> QED BY <2>2, <2>3, <2>4
<1>7. q >= 8000 \/ q = 7999 \/ q <= 7998
  BY <1>1
<1> QED BY <1>4, <1>5, <1>6, <1>7

WeightOf(results) == [i \in DOMAIN results |-> results[i].weight]

LEMMA ResultTypes ==
  ASSUME NEW results \in Seq(Checked)
  PROVE  /\ IsFiniteSet(DOMAIN results)
         /\ DOMAIN results = 1 .. Len(results) /\ Len(results) \in Nat
         /\ \A i \in DOMAIN results :
              results[i] \in Checked /\ results[i].passed \in BOOLEAN /\ WeightOf(results)[i] \in Int
         /\ \A places : Weight(results, places) = SumFunctionOnSet(WeightOf(results), places)
         /\ \A s \in SUBSET (DOMAIN results) : IsFiniteSet(s) /\ Weight(results, s) \in Int
<1>1. DOMAIN results = 1 .. Len(results) /\ Len(results) \in Nat
  OBVIOUS
<1>2. IsFiniteSet(DOMAIN results)
  BY <1>1, FS_Interval
<1>3. \A i \in DOMAIN results : results[i] \in Checked
  BY <1>1
<1>4. \A i \in DOMAIN results :
        results[i].passed \in BOOLEAN /\ results[i].weight \in Int
        /\ WeightOf(results)[i] = results[i].weight
  BY <1>3 DEF Checked, WeightOf
<1>5. \A places : Weight(results, places) = SumFunctionOnSet(WeightOf(results), places)
  BY DEF Weight, WeightOf
<1>6. ASSUME NEW s \in SUBSET (DOMAIN results)
      PROVE IsFiniteSet(s) /\ Weight(results, s) \in Int
  <2>1. IsFiniteSet(s)
    BY <1>2, FS_Subset
  <2>2. \A i \in s : WeightOf(results)[i] \in Int
    BY <1>4
  <2> QED BY <2>1, <2>2, <1>5, SumFacts
<1>7. \A i \in DOMAIN results : WeightOf(results)[i] \in Int
  BY <1>4
<1> QED BY <1>1, <1>2, <1>3, <1>4, <1>5, <1>6, <1>7

\* What it takes to reach the score of a ship.
LEMMA OverallReaches ==
  ASSUME NEW results \in Seq(Checked)
  PROVE  ~(Overall(results) < ShipScore) <=>
           /\ Weight(results, DOMAIN results) > 0
           /\ 20000 * Weight(results, Passing(results)) >= 15999 * Weight(results, DOMAIN results)
<1> DEFINE all == Weight(results, DOMAIN results)
           earned == Weight(results, Passing(results))
<1>1. all \in Int /\ earned \in Int
  BY ResultTypes DEF Passing
<1>2. DOMAIN results \cap Passing(results) = Passing(results)
  BY DEF Passing
<1>3. Overall(results) = IF all <= 0 THEN 0 ELSE Rounded(earned, all)
  BY <1>2 DEF Overall, ScoreOf
<1> HIDE DEF all, earned
<1>4. CASE all <= 0
  BY <1>1, <1>3, <1>4 DEF ShipScore, all
<1>5. CASE all > 0
  <2>1. all \in Nat \ {0}
    BY <1>1, <1>5
  <2>2. Rounded(earned, all) >= 8000 <=> 20000 * earned >= 15999 * all
    BY <1>1, <2>1, RoundedReaches
  <2>3. Rounded(earned, all) \in Int
    <3>1. \A x \in Int : \A y \in Nat \ {0} : x \div y \in Int
      BY SMT
    <3>2. (earned * 10000) \div all \in Int
      BY <3>1, <1>1, <2>1
    <3> QED BY <3>2 DEF Rounded
  <2> QED BY <1>3, <1>5, <1>1, <2>1, <2>2, <2>3 DEF ShipScore, all, earned
<1> QED BY <1>1, <1>4, <1>5

\* The verdict of two reports that are there.
LEMMA VerdictIs ==
  ASSUME NEW naked, NEW wrapped, naked # <<>>, wrapped # <<>>, NEW trace
  PROVE  /\ ReadinessView(naked, wrapped, trace).state
              = IF Blocked(wrapped) THEN "verdict_block" ELSE "verdict_ship"
         /\ Blocked(wrapped) =>
              ReadinessView(naked, wrapped, trace).blocker
                = PrimaryBlocker(wrapped, IF SafetyFailures(wrapped) # {}
                                          THEN SafetyFailures(wrapped) ELSE Failing(wrapped))
BY DEF ReadinessView

\* Of some results one is the first of the heaviest.
LEMMA HeaviestExists ==
  ASSUME NEW results, NEW n \in Nat, \A i \in 1 .. n : results[i].weight \in Int,
         NEW s \in SUBSET (1 .. n), s # {}
  PROVE  \E i \in s : Heaviest(results, s, i)
<1> DEFINE w(i) == results[i].weight
           best(t, i) == \A j \in t : w(j) < w(i) \/ (w(j) = w(i) /\ i <= j)
           T == {m \in Nat : m <= n => \A t \in SUBSET (1 .. m) : t # {} => \E i \in t : best(t, i)}
<1>1. 0 \in T
  <2>1. 1 .. 0 = {}
    OBVIOUS
  <2> QED BY <2>1
<1>2. ASSUME NEW m \in T PROVE m + 1 \in T
  <2> SUFFICES ASSUME m + 1 <= n, NEW t \in SUBSET (1 .. m + 1), t # {}
      PROVE \E i \in t : best(t, i)
    BY <1>2
  <2>m. m \in Nat /\ m <= n
    BY <1>2
  <2> DEFINE u == t \ {m + 1}
  <2>1. u \in SUBSET (1 .. m) /\ \A i \in t : i \in u \/ i = m + 1
    BY <2>m
  <2>w. \A i \in t : w(i) \in Int /\ i \in Nat
    BY <2>m
  <2>2. u # {} => \E i \in u : best(u, i)
    <3> HIDE DEF best, u
    <3> QED BY <1>2, <2>1, <2>m
  <2>3. CASE u = {}
    <3>1. t = {m + 1}
      BY <2>3
    <3>2. best(t, m + 1)
      BY <3>1, <2>m
    <3> HIDE DEF best
    <3> QED BY <3>1, <3>2
  <2>4. CASE u # {} /\ m + 1 \notin t
    <3>1. u = t
      BY <2>4
    <3> HIDE DEF best, u
    <3> QED BY <2>2, <2>4, <3>1
  <2>5. CASE u # {} /\ m + 1 \in t
    <3>1. PICK i \in u : best(u, i)
      BY <2>2, <2>5
    <3>2. i \in t /\ i <= m /\ w(i) \in Int /\ w(m + 1) \in Int
      BY <2>1, <2>5, <2>w, <2>m
    <3>3. CASE w(m + 1) > w(i)
      <4>1. best(t, m + 1)
        <5> HIDE DEF w
        <5> QED BY <2>1, <2>w, <3>1, <3>2, <3>3, <2>m
      <4> HIDE DEF best
      <4> QED BY <2>5, <4>1
    <3>4. CASE ~(w(m + 1) > w(i))
      <4>1. best(t, i)
        <5> HIDE DEF w, u
        <5> QED BY <2>1, <2>w, <3>1, <3>2, <3>4, <2>m
      <4> HIDE DEF best
      <4> QED BY <3>2, <4>1
    <3> QED BY <3>3, <3>4
  <2> QED BY <2>3, <2>4, <2>5
<1>3. Nat \subseteq T
  <2> HIDE DEF T
  <2> QED BY <1>1, <1>2, Induction
<1>4. \E i \in s : best(s, i)
  <2> HIDE DEF best
  <2> QED BY <1>3
<1> QED BY <1>4 DEF Heaviest

\* The blocker is one of the heaviest.
LEMMA BlockerIsHeaviest ==
  ASSUME NEW results \in Seq(Checked), NEW s \in SUBSET (DOMAIN results), s # {},
         NEW view, view.blocker = PrimaryBlocker(results, s)
  PROVE  NamesHeaviest(view, results, s)
<1> DEFINE i == CHOOSE i \in s : Heaviest(results, s, i)
<1>1. /\ DOMAIN results = 1 .. Len(results) /\ Len(results) \in Nat
      /\ \A j \in DOMAIN results : results[j].weight \in Int
  BY ResultTypes DEF WeightOf
<1>2. i \in s /\ Heaviest(results, s, i)
  <2>1. \E j \in s : Heaviest(results, s, j)
    BY <1>1, HeaviestExists
  <2> QED BY <2>1
<1>3. view.blocker = results[i].scenario
  BY DEF PrimaryBlocker
<1> HIDE DEF i
<1>4. \A j \in s : results[j].weight <= results[i].weight
  BY <1>1, <1>2 DEF Heaviest
<1> QED BY <1>2, <1>3, <1>4 DEF NamesHeaviest

\* Repairing a result adds its weight to what is earned.
LEMMA Repaired ==
  ASSUME NEW w \in Seq(Checked), NEW i \in Failing(w), w[i].weight >= 0
  PROVE  LET v == [w EXCEPT ![i].passed = TRUE]
         IN  /\ v \in Seq(Checked) /\ v # <<>>
             /\ SafetyFailures(v) \subseteq SafetyFailures(w)
             /\ Weight(v, DOMAIN v) = Weight(w, DOMAIN w)
             /\ Weight(v, Passing(v)) >= Weight(w, Passing(w))
<1> DEFINE v == [w EXCEPT ![i].passed = TRUE]
           c == [w[i] EXCEPT !.passed = TRUE]
<1>1. i \in DOMAIN w /\ DOMAIN w = 1 .. Len(w) /\ Len(w) \in Nat /\ ~w[i].passed
  BY DEF Failing
<1>2. w[i] \in Checked
  BY <1>1
<1>3. /\ c \in Checked /\ c.passed = TRUE
      /\ c.weight = w[i].weight /\ c.category = w[i].category
  BY <1>2 DEF Checked
<1>4. v = [w EXCEPT ![i] = c]
  OBVIOUS
<1> HIDE DEF c
<1>5. /\ v \in Seq(Checked) /\ DOMAIN v = DOMAIN w
      /\ v[i] = c /\ \A j \in DOMAIN w : j # i => v[j] = w[j]
  <2>1. v = [j \in DOMAIN w |-> IF j = i THEN c ELSE w[j]]
    BY <1>4
  <2>2. \A j \in 1 .. Len(w) : w[j] \in Checked
    BY <1>1
  <2> HIDE DEF v
  <2>3. v \in [1 .. Len(w) -> Checked]
    BY <1>1, <1>3, <2>1, <2>2
  <2> QED BY <1>1, <2>1, <2>3
<1>6. v # <<>>
  BY <1>1, <1>5
<1> HIDE DEF v
<1>7. \A j \in DOMAIN w : v[j].weight = w[j].weight /\ v[j].category = w[j].category
  BY <1>3, <1>5
<1>8. WeightOf(v) = WeightOf(w)
  BY <1>5, <1>7 DEF WeightOf
<1>9. Passing(v) = Passing(w) \cup {i} /\ i \notin Passing(w)
  BY <1>1, <1>3, <1>5 DEF Passing
<1>10. SafetyFailures(v) \subseteq SafetyFailures(w)
  BY <1>1, <1>3, <1>5, <1>7 DEF SafetyFailures, Failing, OfCategory
<1>11. Weight(v, DOMAIN v) = Weight(w, DOMAIN w)
  BY <1>5, <1>8, ResultTypes
<1>12. Weight(v, Passing(v)) = w[i].weight + Weight(w, Passing(w))
  <2>1. IsFiniteSet(Passing(v)) /\ i \in Passing(v) /\ Passing(v) \ {i} = Passing(w)
    <3>1. Passing(v) \in SUBSET (DOMAIN v)
      BY DEF Passing
    <3> QED BY <3>1, <1>5, <1>9, ResultTypes
  <2>2. \A j \in Passing(v) : WeightOf(v)[j] \in Int
    BY <1>5, ResultTypes DEF Passing
  <2>3. SumFunctionOnSet(WeightOf(v), Passing(v))
          = WeightOf(v)[i] + SumFunctionOnSet(WeightOf(v), Passing(v) \ {i})
    BY <2>1, <2>2, SumFacts
  <2>4. WeightOf(v)[i] = w[i].weight
    BY <1>1, <1>8 DEF WeightOf
  <2>5. /\ Weight(v, Passing(v)) = SumFunctionOnSet(WeightOf(v), Passing(v))
        /\ Weight(w, Passing(w)) = SumFunctionOnSet(WeightOf(w), Passing(w))
    BY <1>5, ResultTypes
  <2> QED BY <2>1, <2>3, <2>4, <2>5, <1>8
<1>13. Weight(w, Passing(w)) \in Int /\ w[i].weight \in Int
  <2>1. Passing(w) \in SUBSET (DOMAIN w)
    BY DEF Passing
  <2> QED BY <2>1, <1>2, ResultTypes DEF Checked
<1>14. Weight(v, Passing(v)) >= Weight(w, Passing(w))
  BY <1>12, <1>13
<1> QED BY <1>5, <1>6, <1>10, <1>11, <1>14 DEF v

\* The readiness verdict is fair.
LEMMA ReadinessIsFair ==
  ASSUME NEW naked \in Seq(Checked), NEW w \in Seq(Checked), naked # <<>>, w # <<>>
  PROVE  Fair(naked, w)
<1> DEFINE failing == Failing(w)
           safety == {i \in failing : w[i].category = "Safety"}
           earned == Weight(w, DOMAIN w \ failing)
           all == Weight(w, DOMAIN w)
           verdict == ReadinessView(naked, w, 0)
<1>1. safety = SafetyFailures(w)
  BY DEF SafetyFailures, Failing, OfCategory
<1>2. DOMAIN w \ failing = Passing(w)
  BY ResultTypes DEF Failing, Passing
<1>3. earned \in Int /\ all \in Int
  BY ResultTypes
<1>4. ~Blocked(w) <=> safety = {} /\ all > 0 /\ 20000 * earned >= 15999 * all
  <2>1. earned = Weight(w, Passing(w))
    BY <1>2
  <2>2. ~(Overall(w) < ShipScore) <=> all > 0 /\ 20000 * earned >= 15999 * all
    BY <2>1, OverallReaches
  <2> HIDE DEF safety, failing, earned, all
  <2> QED BY <1>1, <2>2 DEF Blocked
<1>5. verdict.state = IF Blocked(w) THEN "verdict_block" ELSE "verdict_ship"
  BY VerdictIs
<1>6. Blocked(w) => verdict.blocker = PrimaryBlocker(w, IF safety # {} THEN safety ELSE failing)
  <2> HIDE DEF safety
  <2> QED BY <1>1, VerdictIs
<1> HIDE DEF verdict, earned, all
<1>7. verdict.state = "verdict_ship" =>
        /\ safety = {} /\ all > 0 /\ 20000 * earned >= 15999 * all
        /\ all < 4000 => 5 * earned >= 4 * all
  <2> SUFFICES ASSUME verdict.state = "verdict_ship"
      PROVE  /\ safety = {} /\ all > 0 /\ 20000 * earned >= 15999 * all
             /\ all < 4000 => 5 * earned >= 4 * all
    OBVIOUS
  <2>1. safety = {} /\ all > 0 /\ 20000 * earned >= 15999 * all
    <3> HIDE DEF safety
    <3> QED BY <1>4, <1>5
  <2>2. all < 4000 => 5 * earned >= 4 * all
    BY <1>3, <2>1
  <2> QED BY <2>1, <2>2
<1>8. ASSUME verdict.state = "verdict_ship", \A i \in DOMAIN w : w[i].weight >= 0,
             NEW i \in failing
      PROVE  ReadinessView(naked, [w EXCEPT ![i].passed = TRUE], 0).state = "verdict_ship"
  <2> DEFINE v == [w EXCEPT ![i].passed = TRUE]
  <2>1. i \in DOMAIN w
    BY DEF Failing
  <2>2. /\ v \in Seq(Checked) /\ v # <<>>
        /\ SafetyFailures(v) \subseteq SafetyFailures(w)
        /\ Weight(v, DOMAIN v) = Weight(w, DOMAIN w)
        /\ Weight(v, Passing(v)) >= Weight(w, Passing(w))
    BY <2>1, <1>8, Repaired
  <2>e. all = Weight(w, DOMAIN w) /\ earned = Weight(w, Passing(w))
    BY <1>2 DEF all, earned
  <2>s. safety = {}
    <3> HIDE DEF safety, failing
    <3> QED BY <1>7, <1>8
  <2> HIDE DEF v, safety, failing
  <2>3. SafetyFailures(v) = {} /\ Weight(v, DOMAIN v) = all /\ Weight(v, Passing(v)) >= earned
    BY <1>1, <2>2, <2>e, <2>s
  <2>4. Weight(v, Passing(v)) \in Int
    <3>1. Passing(v) \in SUBSET (DOMAIN v)
      BY DEF Passing
    <3> QED BY <3>1, <2>2, ResultTypes
  <2>5. 20000 * Weight(v, Passing(v)) >= 15999 * all /\ all > 0
    BY <1>3, <1>7, <1>8, <2>3, <2>4
  <2>6. ~Blocked(v)
    BY <2>2, <2>3, <2>5, OverallReaches DEF Blocked
  <2>7. ReadinessView(naked, v, 0).state = "verdict_ship"
    BY <2>2, <2>6, VerdictIs
  <2> QED BY <2>7 DEF v
<1>9. ASSUME verdict.state = "verdict_block", \A i \in DOMAIN w : w[i].weight > 0
      PROVE  NamesHeaviest(verdict, w, IF safety # {} THEN safety ELSE failing)
  <2> DEFINE s == IF safety # {} THEN safety ELSE failing
  <2>1. Blocked(w)
    BY <1>5, <1>9
  <2>2. s \in SUBSET (DOMAIN w)
    BY DEF Failing
  <2>3. s # {}
    <3> SUFFICES ASSUME failing = {} PROVE safety # {}
      OBVIOUS
    <3>1. earned = all
      BY DEF earned, all
    <3>2. all > 0
      <4>1. 1 \in DOMAIN w /\ IsFiniteSet(DOMAIN w)
        BY ResultTypes
      <4>2. \A i \in DOMAIN w : WeightOf(w)[i] \in Nat /\ WeightOf(w)[i] > 0 /\ WeightOf(w)[i] \in Int
        BY <1>9, ResultTypes DEF WeightOf
      <4>3. all = WeightOf(w)[1] + SumFunctionOnSet(WeightOf(w), DOMAIN w \ {1})
        <5>1. all = SumFunctionOnSet(WeightOf(w), DOMAIN w)
          BY ResultTypes DEF all
        <5>2. \A i \in DOMAIN w : WeightOf(w)[i] \in Int
          BY <4>2
        <5> QED BY <5>1, <5>2, <4>1, SumFacts
      <4>4. SumFunctionOnSet(WeightOf(w), DOMAIN w \ {1}) \in Nat
        BY <4>1, <4>2, SumNat, FS_RemoveElement
      <4> QED BY <4>1, <4>2, <4>3, <4>4
    <3>3. 20000 * earned >= 15999 * all
      BY <1>3, <3>1, <3>2
    <3> HIDE DEF safety
    <3> QED BY <1>4, <2>1, <3>2, <3>3
  <2>4. verdict.blocker = PrimaryBlocker(w, s)
    <3> HIDE DEF safety, failing
    <3> QED BY <1>6, <2>1
  <2> HIDE DEF s
  <2>5. NamesHeaviest(verdict, w, s)
    BY <2>2, <2>3, <2>4, BlockerIsHeaviest
  <2> QED BY <2>5 DEF s
<1> QED BY <1>7, <1>8, <1>9 DEF Fair, verdict, earned, all

-----------------------------------------------------------------------------
(* Selection.                                                              *)

Ahead(corpus, i) == {j \in DOMAIN corpus : Before(corpus[j], j, corpus[i], i)}
Place(corpus, i) == 1 + Cardinality(Ahead(corpus, i))

IsScored(corpus) ==
  \A i \in DOMAIN corpus : corpus[i].score \in Int /\ corpus[i].time \in Int /\ corpus[i].tokens \in Int

\* Before is a strict total order of the items.
LEMMA BeforeIsTotal ==
  ASSUME NEW corpus, DOMAIN corpus \subseteq Nat, IsScored(corpus),
         NEW i \in DOMAIN corpus, NEW j \in DOMAIN corpus
  PROVE  /\ ~Before(corpus[i], i, corpus[i], i)
         /\ i # j => Before(corpus[i], i, corpus[j], j) \/ Before(corpus[j], j, corpus[i], i)
         /\ \A k \in DOMAIN corpus :
              Before(corpus[k], k, corpus[i], i) /\ Before(corpus[i], i, corpus[j], j)
                => Before(corpus[k], k, corpus[j], j)
BY DEF Before, IsScored

\* What is ranked before another has the smaller place.
LEMMA AheadGrows ==
  ASSUME NEW n \in Nat, NEW corpus, DOMAIN corpus = 1 .. n, IsScored(corpus),
         NEW i \in 1 .. n, NEW j \in 1 .. n, Before(corpus[i], i, corpus[j], j)
  PROVE  Place(corpus, i) < Place(corpus, j)
<1> DEFINE A == Ahead(corpus, i)
           B == Ahead(corpus, j)
<1>1. A \cup {i} \subseteq B /\ i \notin A
  BY BeforeIsTotal DEF Ahead
<1>2. IsFiniteSet(1 .. n)
  BY FS_Interval
<1>3. IsFiniteSet(A) /\ IsFiniteSet(B)
  BY <1>2, FS_Subset DEF Ahead
<1> HIDE DEF A, B
<1>4. Cardinality(A \cup {i}) = Cardinality(A) + 1 /\ IsFiniteSet(A \cup {i})
  BY <1>1, <1>3, FS_AddElement
<1>5. Cardinality(A \cup {i}) <= Cardinality(B)
  BY <1>1, <1>3, FS_Subset
<1>6. Cardinality(A) \in Nat /\ Cardinality(B) \in Nat
  BY <1>3, FS_CardinalityType
<1> QED BY <1>4, <1>5, <1>6 DEF Place, A, B

\* The places of the items are the ranks, each once.
LEMMA PlacesPermute ==
  ASSUME NEW n \in Nat, NEW corpus, DOMAIN corpus = 1 .. n, IsScored(corpus)
  PROVE  /\ \A i \in 1 .. n : Place(corpus, i) \in 1 .. n
         /\ \A i, j \in 1 .. n : Place(corpus, i) = Place(corpus, j) => i = j
         /\ \A r \in 1 .. n : \E i \in 1 .. n : Place(corpus, i) = r
<1> DEFINE f == [i \in 1 .. n |-> Place(corpus, i)]
<1>f. IsFiniteSet(1 .. n) /\ Cardinality(1 .. n) = n
  BY FS_Interval
<1>1. ASSUME NEW i \in 1 .. n PROVE Place(corpus, i) \in 1 .. n
  <2>1. Ahead(corpus, i) \subseteq (1 .. n) \ {i}
    BY BeforeIsTotal DEF Ahead
  <2>2. IsFiniteSet((1 .. n) \ {i}) /\ Cardinality((1 .. n) \ {i}) = n - 1
    BY <1>f, FS_RemoveElement
  <2>3. Cardinality(Ahead(corpus, i)) <= n - 1 /\ IsFiniteSet(Ahead(corpus, i))
    BY <2>1, <2>2, FS_Subset
  <2>4. Cardinality(Ahead(corpus, i)) \in Nat
    BY <2>3, FS_CardinalityType
  <2> QED BY <2>3, <2>4 DEF Place
<1>2. ASSUME NEW i \in 1 .. n, NEW j \in 1 .. n, Place(corpus, i) = Place(corpus, j)
      PROVE  i = j
  <2>1. Before(corpus[i], i, corpus[j], j) => Place(corpus, i) < Place(corpus, j)
    BY AheadGrows
  <2>2. Before(corpus[j], j, corpus[i], i) => Place(corpus, j) < Place(corpus, i)
    BY AheadGrows
  <2>3. i # j => Before(corpus[i], i, corpus[j], j) \/ Before(corpus[j], j, corpus[i], i)
    BY BeforeIsTotal
  <2>4. Place(corpus, i) \in Int
    BY <1>1
  <2> QED BY <1>2, <2>1, <2>2, <2>3, <2>4
<1>3. f \in Injection(1 .. n, 1 .. n)
  BY <1>1, <1>2 DEF Injection, IsInjective
<1>4. f \in Surjection(1 .. n, 1 .. n)
  BY <1>3, <1>f, FS_Injection
<1>5. \A r \in 1 .. n : \E i \in 1 .. n : Place(corpus, i) = r
  BY <1>4 DEF Surjection
<1> QED BY <1>1, <1>2, <1>5

\* The index in the corpus of the item of a rank.
AtRank(corpus, r) == CHOOSE i \in DOMAIN corpus : Place(corpus, i) = r
\* Ranked lists every item, none after a better one.
LEMMA RankedInOrder ==
  ASSUME NEW n \in Nat, NEW corpus, DOMAIN corpus = 1 .. n, IsScored(corpus)
  PROVE  /\ Ranked(TRUE, corpus) = [r \in 1 .. n |-> corpus[AtRank(corpus, r)]]
         /\ \A r \in 1 .. n : AtRank(corpus, r) \in 1 .. n
         /\ \A i \in 1 .. n : \E r \in 1 .. n : AtRank(corpus, r) = i
         /\ \A r, s \in 1 .. n :
              r < s => NotAfter(corpus[AtRank(corpus, r)], corpus[AtRank(corpus, s)])
<1>1. \A r \in 1 .. n : AtRank(corpus, r) \in 1 .. n /\ Place(corpus, AtRank(corpus, r)) = r
  BY PlacesPermute DEF AtRank
<1>2. Ranked(TRUE, corpus) = [r \in 1 .. n |-> corpus[AtRank(corpus, r)]]
  BY DEF Ranked, AtRank, Place, Ahead
<1>3. ASSUME NEW i \in 1 .. n PROVE \E r \in 1 .. n : AtRank(corpus, r) = i
  <2>1. Place(corpus, i) \in 1 .. n
    BY PlacesPermute
  <2>2. \A j \in 1 .. n : Place(corpus, j) = Place(corpus, i) => j = i
    BY PlacesPermute
  <2>3. AtRank(corpus, Place(corpus, i)) = i
    BY <1>1, <2>1, <2>2
  <2> QED BY <2>1, <2>3
<1>4. ASSUME NEW r \in 1 .. n, NEW s \in 1 .. n, r < s
      PROVE  NotAfter(corpus[AtRank(corpus, r)], corpus[AtRank(corpus, s)])
  <2> DEFINE i == AtRank(corpus, r)
             j == AtRank(corpus, s)
  <2>1. i \in 1 .. n /\ j \in 1 .. n /\ Place(corpus, i) = r /\ Place(corpus, j) = s
    BY <1>1
  <2> HIDE DEF i, j
  <2>2. Before(corpus[j], j, corpus[i], i) => Place(corpus, j) < Place(corpus, i)
    BY <2>1, AheadGrows
  <2>3. ~Before(corpus[j], j, corpus[i], i)
    BY <1>4, <2>1, <2>2
  <2>4. i # j
    BY <1>4, <2>1
  <2>5. 1 .. n \subseteq Nat
    OBVIOUS
  <2>6. i # j => Before(corpus[i], i, corpus[j], j) \/ Before(corpus[j], j, corpus[i], i)
    BY <2>1, <2>5, BeforeIsTotal
  <2>7. /\ corpus[i].score \in Int /\ corpus[j].score \in Int
        /\ corpus[i].time \in Int /\ corpus[j].time \in Int
    BY <2>1 DEF IsScored
  <2>8. Before(corpus[i], i, corpus[j], j)
    BY <2>3, <2>4, <2>6
  <2>9. \/ corpus[i].score > corpus[j].score
        \/ corpus[i].score = corpus[j].score /\ corpus[i].time >= corpus[j].time
    BY <2>7, <2>8 DEF Before
  <2>10. NotAfter(corpus[i], corpus[j])
    BY <2>7, <2>9 DEF NotAfter
  <2> QED BY <2>10 DEF i, j
<1> QED BY <1>1, <1>2, <1>3, <1>4

\* What Ranked makes of a corpus.
LEMMA RankedItems ==
  ASSUME NEW corpus \in Seq(Items), NEW query \in BOOLEAN
  PROVE  /\ Ranked(query, corpus) \in Seq(Items)
         /\ Len(Ranked(query, corpus)) = Len(corpus)
         /\ {Ranked(query, corpus)[r].id : r \in 1 .. Len(corpus)}
              = {corpus[i].id : i \in 1 .. Len(corpus)}
         /\ query => \A r, s \in 1 .. Len(corpus) :
              r < s => NotAfter(Ranked(query, corpus)[r], Ranked(query, corpus)[s])
<1> DEFINE n == Len(corpus)
<1>1. n \in Nat /\ DOMAIN corpus = 1 .. n /\ \A i \in 1 .. n : corpus[i] \in Items
  OBVIOUS
<1> HIDE DEF n
<1>2. IsScored(corpus)
  BY <1>1 DEF IsScored, Items
<1>s. \A L : DOMAIN L = 1 .. n /\ L = [r \in 1 .. n |-> L[r]] /\ (\A r \in 1 .. n : L[r] \in Items)
               => L \in Seq(Items) /\ Len(L) = n
  <2> TAKE L
  <2> SUFFICES ASSUME L = [r \in 1 .. n |-> L[r]], \A r \in 1 .. n : L[r] \in Items
      PROVE L \in Seq(Items) /\ Len(L) = n
    OBVIOUS
  <2>1. L \in [1 .. n -> Items]
    OBVIOUS
  <2> HIDE DEF Items
  <2> QED BY <2>1, <1>1
<1>3. CASE query = TRUE
  <2> DEFINE L == Ranked(TRUE, corpus)
  <2>1. /\ L = [r \in 1 .. n |-> corpus[AtRank(corpus, r)]]
        /\ \A r \in 1 .. n : AtRank(corpus, r) \in 1 .. n
        /\ \A i \in 1 .. n : \E r \in 1 .. n : AtRank(corpus, r) = i
        /\ \A r, s \in 1 .. n :
             r < s => NotAfter(corpus[AtRank(corpus, r)], corpus[AtRank(corpus, s)])
    BY <1>1, <1>2, RankedInOrder
  <2> HIDE DEF L
  <2>2. DOMAIN L = 1 .. n /\ \A r \in 1 .. n : L[r] = corpus[AtRank(corpus, r)]
    BY <2>1
  <2>3. L \in Seq(Items) /\ Len(L) = n
    BY <1>1, <1>s, <2>1, <2>2
  <2>4. {L[r].id : r \in 1 .. n} = {corpus[i].id : i \in 1 .. n}
    BY <2>1, <2>2
  <2>5. \A r, s \in 1 .. n : r < s => NotAfter(L[r], L[s])
    BY <2>1, <2>2
  <2> QED BY <1>3, <2>3, <2>4, <2>5 DEF L, n
<1>4. CASE query = FALSE
  <2> DEFINE L == Ranked(FALSE, corpus)
  <2>1. L = [i \in 1 .. n |-> [corpus[i] EXCEPT !.score = 0]]
    BY <1>1 DEF Ranked, Unranked
  <2> HIDE DEF L
  <2>2. DOMAIN L = 1 .. n /\ \A r \in 1 .. n : L[r] = [corpus[r] EXCEPT !.score = 0]
    BY <2>1
  <2>3. \A x \in Items : [x EXCEPT !.score = 0] \in Items /\ [x EXCEPT !.score = 0].id = x.id
    BY DEF Items
  <2>4. \A r \in 1 .. n : L[r] \in Items /\ L[r].id = corpus[r].id
    BY <1>1, <2>2, <2>3
  <2>5. L \in Seq(Items) /\ Len(L) = n
    <3>1. L = [r \in 1 .. n |-> L[r]]
      BY <2>1
    <3> QED BY <1>s, <2>2, <2>4, <3>1
  <2>6. {L[r].id : r \in 1 .. n} = {corpus[i].id : i \in 1 .. n}
    BY <2>4
  <2> QED BY <1>4, <2>5, <2>6 DEF L, n
<1> QED BY <1>3, <1>4

Cands == [item : Items, rank : Nat]
Packed == [selected : Seq(Cands), rejected : Seq(Cands),
           reason : Seq({"zero_token_count", "token_budget"}), used : Int]

\* What packing one candidate more comes to.
PackedTo(q, p, c, budget) ==
  /\ q \in Packed
  /\ IF c.item.tokens > 0 /\ p.used + c.item.tokens <= budget
     THEN /\ q.selected = Append(p.selected, c) /\ q.rejected = p.rejected
          /\ q.used = p.used + c.item.tokens
     ELSE q.selected = p.selected /\ q.rejected = Append(p.rejected, c) /\ q.used = p.used

LEMMA PackIs ==
  ASSUME NEW p \in Packed, NEW c \in Cands, NEW budget \in Int
  PROVE  PackedTo(Pack(p, c, budget), p, c, budget)
<1>1. c.item.tokens \in Int /\ p.used \in Int
  BY DEF Cands, Items, Packed
<1>2. /\ Append(p.selected, c) \in Seq(Cands) /\ Append(p.rejected, c) \in Seq(Cands)
      /\ \A why \in {"zero_token_count", "token_budget"} :
           Append(p.reason, why) \in Seq({"zero_token_count", "token_budget"})
  <2>1. p.selected \in Seq(Cands) /\ p.rejected \in Seq(Cands)
        /\ p.reason \in Seq({"zero_token_count", "token_budget"})
    BY DEF Packed
  <2> HIDE DEF Cands
  <2> QED BY <2>1
<1> DEFINE s == Append(p.selected, c)
           r == Append(p.rejected, c)
<1>3. /\ Take(p, c) \in Packed
      /\ Take(p, c).selected = s /\ Take(p, c).rejected = p.rejected
      /\ Take(p, c).used = p.used + c.item.tokens
  <2>1. p.used + c.item.tokens \in Int
    BY <1>1
  <2>2. Take(p, c) = [p EXCEPT !.selected = s, !.used = p.used + c.item.tokens]
    BY Zenon DEF Take
  <2> HIDE DEF s, Cands
  <2> QED BY <1>2, <2>1, <2>2 DEF Packed, s
<1>4. ASSUME NEW why \in {"zero_token_count", "token_budget"}
      PROVE  /\ Reject(p, c, why) \in Packed
             /\ Reject(p, c, why).rejected = r /\ Reject(p, c, why).selected = p.selected
             /\ Reject(p, c, why).used = p.used
  <2>1. Append(p.reason, why) \in Seq({"zero_token_count", "token_budget"})
    BY <1>2
  <2>2. Reject(p, c, why) = [p EXCEPT !.rejected = r, !.reason = Append(p.reason, why)]
    BY Zenon DEF Reject
  <2> HIDE DEF r, Cands
  <2> QED BY <1>2, <2>1, <2>2 DEF Packed, r
<1>5. IF c.item.tokens > 0 /\ p.used + c.item.tokens <= budget
      THEN Pack(p, c, budget) = Take(p, c)
      ELSE \E why \in {"zero_token_count", "token_budget"} : Pack(p, c, budget) = Reject(p, c, why)
  <2>1. c.item.tokens <= 0 <=> ~(c.item.tokens > 0)
    BY <1>1
  <2> QED BY <2>1 DEF Pack
<1> HIDE DEF s, r
<1> QED BY <1>3, <1>4, <1>5 DEF PackedTo, s, r

\* The tokens of the candidates, by rank.
Cost(seq) == [i \in DOMAIN seq |-> seq[i].item.tokens]
\* What is selected of the first k candidates of seq, by rank.
Sorted(p, seq, budget, k, chosen) ==
  /\ ToSet(p.selected) = {seq[i] : i \in chosen}
  /\ ToSet(p.rejected) = {seq[i] : i \in (1 .. k) \ chosen}
  /\ Len(p.selected) + Len(p.rejected) = k
  /\ p.used = SumFunctionOnSet(Cost(seq), chosen) /\ p.used <= budget
  /\ \A i \in chosen : Cost(seq)[i] > 0
  /\ \A i \in (1 .. k) \ chosen :
       Cost(seq)[i] > 0 =>
         SumFunctionOnSet(Cost(seq), {j \in chosen : j < i}) + Cost(seq)[i] > budget
Fitted(p, seq, budget, k) ==
  p \in Packed /\ \E chosen \in SUBSET (1 .. k) : Sorted(p, seq, budget, k, chosen)

LEMMA AppendSet ==
  ASSUME NEW S, NEW q \in Seq(S), NEW c \in S
  PROVE  ToSet(Append(q, c)) = ToSet(q) \cup {c} /\ Len(Append(q, c)) = Len(q) + 1
<1>1. /\ DOMAIN Append(q, c) = 1 .. Len(q) + 1 /\ DOMAIN q = 1 .. Len(q) /\ Len(q) \in Nat
      /\ \A i \in 1 .. Len(q) : Append(q, c)[i] = q[i]
      /\ Append(q, c)[Len(q) + 1] = c /\ Len(Append(q, c)) = Len(q) + 1
  OBVIOUS
<1>2. 1 .. Len(q) + 1 = (1 .. Len(q)) \cup {Len(q) + 1}
  BY <1>1
<1> QED BY <1>1, <1>2 DEF ToSet

\* One candidate more.
LEMMA FitsOneMore ==
  ASSUME NEW n \in Nat, NEW seq, DOMAIN seq = 1 .. n, \A i \in 1 .. n : seq[i] \in Cands,
         NEW budget \in Int, NEW k \in Nat, k + 1 <= n, NEW p, Fitted(p, seq, budget, k)
  PROVE  Fitted(Pack(p, seq[k + 1], budget), seq, budget, k + 1)
<1> DEFINE c == seq[k + 1]
           q == Pack(p, c, budget)
           Sum(s) == SumFunctionOnSet(Cost(seq), s)
<1>1. PICK chosen \in SUBSET (1 .. k) : Sorted(p, seq, budget, k, chosen)
  BY DEF Fitted
<1>2. p \in Packed /\ c \in Cands /\ k + 1 \in 1 .. n
  BY DEF Fitted
<1>3. \A i \in 1 .. n : Cost(seq)[i] \in Int /\ Cost(seq)[i] = seq[i].item.tokens
  BY DEF Cost, Cands, Items
<1>4. PackedTo(q, p, c, budget)
  BY <1>2, PackIs
<1>5. ASSUME NEW s \in SUBSET (1 .. n)
      PROVE  IsFiniteSet(s) /\ Sum(s) \in Int /\ \A i \in s : Sum(s) = Cost(seq)[i] + Sum(s \ {i})
  <2>1. IsFiniteSet(s)
    <3>1. IsFiniteSet(1 .. n)
      BY FS_Interval
    <3> QED BY <3>1, FS_Subset
  <2>2. \A i \in s : Cost(seq)[i] \in Int
    BY <1>3
  <2> QED BY <2>1, <2>2, SumFacts
<1>6. /\ p.selected \in Seq(Cands) /\ p.rejected \in Seq(Cands)
      /\ Len(p.selected) \in Nat /\ Len(p.rejected) \in Nat
  <2>1. p.selected \in Seq(Cands) /\ p.rejected \in Seq(Cands)
    BY <1>2 DEF Packed
  <2> QED BY <2>1
<1>7. /\ ToSet(Append(p.selected, c)) = ToSet(p.selected) \cup {c}
      /\ Len(Append(p.selected, c)) = Len(p.selected) + 1
      /\ ToSet(Append(p.rejected, c)) = ToSet(p.rejected) \cup {c}
      /\ Len(Append(p.rejected, c)) = Len(p.rejected) + 1
  BY <1>2, <1>6, AppendSet
<1>8. c.item.tokens = Cost(seq)[k + 1] /\ Cost(seq)[k + 1] \in Int
  BY <1>2, <1>3
<1>9. /\ chosen \subseteq 1 .. n /\ k + 1 \notin chosen
      /\ \A i \in chosen : i < k + 1
      /\ 1 .. k + 1 = (1 .. k) \cup {k + 1}
  OBVIOUS
<1> HIDE DEF c, q, Sum
<1>10. /\ ToSet(p.selected) = {seq[i] : i \in chosen}
       /\ ToSet(p.rejected) = {seq[i] : i \in (1 .. k) \ chosen}
       /\ Len(p.selected) + Len(p.rejected) = k
       /\ p.used = Sum(chosen) /\ p.used <= budget
       /\ \A i \in chosen : Cost(seq)[i] > 0
       /\ \A i \in (1 .. k) \ chosen :
            Cost(seq)[i] > 0 => Sum({j \in chosen : j < i}) + Cost(seq)[i] > budget
  BY <1>1 DEF Sorted, Sum
<1>11. CASE c.item.tokens > 0 /\ p.used + c.item.tokens <= budget
  <2> DEFINE more == chosen \cup {k + 1}
  <2>1. /\ q.selected = Append(p.selected, c) /\ q.rejected = p.rejected
        /\ q.used = p.used + c.item.tokens /\ q \in Packed
    BY <1>4, <1>11 DEF PackedTo
  <2>2. more \in SUBSET (1 .. k + 1) /\ more \in SUBSET (1 .. n) /\ more \ {k + 1} = chosen
    BY <1>2, <1>9
  <2>3. ToSet(q.selected) = {seq[i] : i \in more}
    BY <1>7, <1>10, <2>1 DEF c
  <2>4. (1 .. k + 1) \ more = (1 .. k) \ chosen
    BY <1>9
  <2>5. Len(q.selected) + Len(q.rejected) = k + 1
    <3>1. Len(q.selected) = Len(p.selected) + 1 /\ Len(q.rejected) = Len(p.rejected)
      BY <1>7, <2>1, Zenon
    <3>2. Len(p.selected) + Len(p.rejected) = k
      BY <1>10
    <3>3. \A x, y \in Nat : x + y = k => (x + 1) + y = k + 1 /\ x + (y + 1) = k + 1
      OBVIOUS
    <3>4. Len(p.selected) \in Nat /\ Len(p.rejected) \in Nat
      BY <1>6
    <3>5. /\ (Len(p.selected) + 1) + Len(p.rejected) = k + 1
          /\ Len(p.selected) + (Len(p.rejected) + 1) = k + 1
      BY <3>2, <3>3, <3>4
    <3> QED BY <3>1, <3>5, Zenon
  <2>6. Sum(more) = Cost(seq)[k + 1] + Sum(chosen) /\ Sum(chosen) \in Int
    <3>1. k + 1 \in more
      OBVIOUS
    <3> HIDE DEF more
    <3> QED BY <1>5, <1>9, <2>2, <3>1
  <2>7. q.used = Sum(more) /\ q.used <= budget
    <3> HIDE DEF more
    <3> QED BY <1>8, <1>10, <1>11, <2>1, <2>6
  <2>8. \A i \in more : Cost(seq)[i] > 0
    BY <1>8, <1>10, <1>11
  <2>9. ASSUME NEW i \in (1 .. k + 1) \ more, Cost(seq)[i] > 0
        PROVE  Sum({j \in more : j < i}) + Cost(seq)[i] > budget
    <3>1. i \in (1 .. k) \ chosen
      BY <2>4, <2>9
    <3>2. {j \in more : j < i} = {j \in chosen : j < i}
      BY <3>1
    <3> HIDE DEF more
    <3> QED BY <1>10, <2>9, <3>1, <3>2
  <2> HIDE DEF more
  <2>10. Sorted(q, seq, budget, k + 1, more)
    BY <1>10, <2>1, <2>3, <2>4, <2>5, <2>7, <2>8, <2>9 DEF Sorted, Sum
  <2> QED BY <2>1, <2>2, <2>10 DEF Fitted, q, c
<1>12. CASE ~(c.item.tokens > 0 /\ p.used + c.item.tokens <= budget)
  <2>1. /\ q.selected = p.selected /\ q.rejected = Append(p.rejected, c)
        /\ q.used = p.used /\ q \in Packed
    BY <1>4, <1>12 DEF PackedTo
  <2>2. chosen \in SUBSET (1 .. k + 1)
    BY <1>9
  <2>3. (1 .. k + 1) \ chosen = ((1 .. k) \ chosen) \cup {k + 1}
    BY <1>9
  <2>4. ToSet(q.rejected) = {seq[i] : i \in (1 .. k + 1) \ chosen}
    BY <1>7, <1>10, <2>1, <2>3 DEF c
  <2>5. Len(q.selected) + Len(q.rejected) = k + 1
    <3>1. Len(q.selected) = Len(p.selected) /\ Len(q.rejected) = Len(p.rejected) + 1
      BY <1>7, <2>1, Zenon
    <3>2. Len(p.selected) + Len(p.rejected) = k
      BY <1>10
    <3>3. \A x, y \in Nat : x + y = k => (x + 1) + y = k + 1 /\ x + (y + 1) = k + 1
      OBVIOUS
    <3>4. Len(p.selected) \in Nat /\ Len(p.rejected) \in Nat
      BY <1>6
    <3>5. /\ (Len(p.selected) + 1) + Len(p.rejected) = k + 1
          /\ Len(p.selected) + (Len(p.rejected) + 1) = k + 1
      BY <3>2, <3>3, <3>4
    <3> QED BY <3>1, <3>5, Zenon
  <2>6. ASSUME NEW i \in (1 .. k + 1) \ chosen, Cost(seq)[i] > 0
        PROVE  Sum({j \in chosen : j < i}) + Cost(seq)[i] > budget
    <3>1. CASE i = k + 1
      <4>1. {j \in chosen : j < i} = chosen
        BY <1>9, <3>1
      <4>2. Sum(chosen) \in Int
        BY <1>5, <1>9
      <4>3. p.used = Sum(chosen)
        BY <1>10
      <4>4. Cost(seq)[k + 1] > 0
        BY <2>6, <3>1
      <4>5. Sum(chosen) + Cost(seq)[k + 1] > budget
        BY <1>8, <1>12, <4>2, <4>3, <4>4
      <4> QED BY <3>1, <4>1, <4>5
    <3>2. CASE i # k + 1
      BY <1>10, <2>3, <2>6, <3>2
    <3> QED BY <3>1, <3>2
  <2>7. Sorted(q, seq, budget, k + 1, chosen)
    BY <1>10, <2>1, <2>4, <2>5, <2>6 DEF Sorted, Sum
  <2> QED BY <2>1, <2>2, <2>7 DEF Fitted, q, c
<1> QED BY <1>11, <1>12

\* All the candidates.
LEMMA AllFitted ==
  ASSUME NEW n \in Nat, NEW seq, DOMAIN seq = 1 .. n, \A i \in 1 .. n : seq[i] \in Cands,
         NEW budget \in Nat
  PROVE  Fitted(PackAll(seq, budget), seq, budget, n)
<1>1. PICK r : PackAll(seq, budget) = r[n] /\ PacksBy(r, seq, budget, n)
  BY PackRuns
<1> DEFINE T == {k \in Nat : k <= n => Fitted(r[k], seq, budget, k)}
<1>2. 0 \in T
  <2>1. Nothing \in Packed
    <3>1. <<>> \in Seq(Cands) /\ <<>> \in Seq({"zero_token_count", "token_budget"})
      OBVIOUS
    <3> QED BY <3>1 DEF Nothing, Packed
  <2>2. Sorted(Nothing, seq, budget, 0, {})
    <3>1. /\ Nothing.selected = <<>> /\ Nothing.rejected = <<>> /\ Nothing.used = 0
          /\ Len(<<>>) = 0
      BY DEF Nothing
    <3>2. ToSet(<<>>) = {} /\ 1 .. 0 = {}
      BY DEF ToSet
    <3>3. SumFunctionOnSet(Cost(seq), {}) = 0
      BY FS_EmptySet, SumFacts
    <3> QED BY <3>1, <3>2, <3>3 DEF Sorted
  <2>3. Fitted(Nothing, seq, budget, 0)
    <3>1. {} \in SUBSET (1 .. 0)
      OBVIOUS
    <3> QED BY <2>1, <2>2, <3>1 DEF Fitted
  <2> QED BY <1>1, <2>3 DEF PacksBy
<1>3. ASSUME NEW k \in T PROVE k + 1 \in T
  <2> SUFFICES ASSUME k + 1 <= n PROVE Fitted(r[k + 1], seq, budget, k + 1)
    BY <1>3
  <2>1. k \in Nat /\ k <= n /\ k + 1 \in 1 .. n /\ (k + 1) - 1 = k
    BY <1>3
  <2>2. r[k + 1] = Pack(r[k], seq[k + 1], budget)
    BY <1>1, <2>1 DEF PacksBy
  <2>3. Fitted(r[k], seq, budget, k)
    BY <1>3, <2>1
  <2>4. Fitted(Pack(r[k], seq[k + 1], budget), seq, budget, k + 1)
    BY <2>1, <2>3, FitsOneMore
  <2> QED BY <2>2, <2>4
<1>4. Nat \subseteq T
  <2> HIDE DEF T
  <2> QED BY <1>2, <1>3, Induction
<1> QED BY <1>1, <1>4

At(seq, s) == {seq[i] : i \in s}
\* e has of each candidate what f has of its rank.
ByRank(seq, f, e, U) == \A i \in U : seq[i].rank = i /\ f[i] \in Int /\ e[seq[i]] = f[i]

\* A sum over candidates is one over their ranks.
LEMMA SumByRank ==
  ASSUME NEW seq, NEW f, NEW e, NEW U, IsFiniteSet(U), ByRank(seq, f, e, U)
  PROVE  SumFunctionOnSet(e, At(seq, U)) = SumFunctionOnSet(f, U)
<1> DEFINE All(s) == At(seq, s)
           Same(s) == IsFiniteSet(All(s)) /\ SumFunctionOnSet(e, All(s)) = SumFunctionOnSet(f, s)
           T == {n \in Nat : \A s \in SUBSET U : Cardinality(s) <= n => Same(s)}
<1>r. \A i \in U : seq[i].rank = i /\ f[i] \in Int /\ e[seq[i]] = f[i]
  BY DEF ByRank
<1>f. \A s \in SUBSET U : IsFiniteSet(s) /\ Cardinality(s) \in Nat /\ Cardinality(s) <= Cardinality(U)
  BY FS_Subset, FS_CardinalityType
<1>e. Same({})
  <2>1. All({}) = {} /\ IsFiniteSet({})
    BY FS_EmptySet DEF At
  <2>2. SumFunctionOnSet(e, {}) = 0 /\ SumFunctionOnSet(f, {}) = 0
    BY <2>1, SumFacts
  <2> HIDE DEF All
  <2> QED BY <2>1, <2>2
<1>1. 0 \in T
  <2>1. \A s \in SUBSET U : Cardinality(s) <= 0 => s = {}
    BY <1>f, NoElements
  <2> HIDE DEF Same
  <2> QED BY <1>e, <2>1
<1>2. ASSUME NEW n \in T PROVE n + 1 \in T
  <2> SUFFICES ASSUME NEW s \in SUBSET U, Cardinality(s) <= n + 1 PROVE Same(s)
    BY <1>2
  <2>1. CASE s = {}
    <3> HIDE DEF Same
    <3> QED BY <2>1, <1>e
  <2>2. CASE s # {}
    <3>1. PICK x \in s : TRUE
      BY <2>2
    <3> DEFINE t == s \ {x}
    <3>2. t \in SUBSET U /\ Cardinality(t) <= n /\ x \in U
      BY <1>f, <1>2, OneLess
    <3>3. Same(t)
      <4> HIDE DEF Same, t
      <4> QED BY <1>2, <3>2
    <3>4. All(s) = All(t) \cup {seq[x]}
      BY DEF At
    <3>5. seq[x] \notin All(t)
      BY <1>r DEF At
    <3>6. SumFunctionOnSet(f, s) = f[x] + SumFunctionOnSet(f, t)
      <4>1. IsFiniteSet(s) /\ \A i \in s : f[i] \in Int
        BY <1>f, <1>r
      <4> QED BY <4>1, SumFacts
    <3>7. \A c \in All(s) : e[c] \in Int
      BY <1>r DEF At
    <3>8. e[seq[x]] = f[x]
      BY <1>r, <3>2
    <3> HIDE DEF All, t
    <3>9. IsFiniteSet(All(s))
      BY <3>3, <3>4, FS_AddElement
    <3>10. All(s) \ {seq[x]} = All(t) /\ seq[x] \in All(s)
      BY <3>4, <3>5
    <3>11. SumFunctionOnSet(e, All(s)) = e[seq[x]] + SumFunctionOnSet(e, All(t))
      <4>1. SumFunctionOnSet(e, All(s)) = e[seq[x]] + SumFunctionOnSet(e, All(s) \ {seq[x]})
        BY <3>7, <3>9, <3>10, SumFacts
      <4> QED BY <3>10, <4>1
    <3>12. SumFunctionOnSet(e, All(t)) = SumFunctionOnSet(f, t)
      BY <3>3
    <3> QED BY <3>6, <3>8, <3>9, <3>11, <3>12
  <2> QED BY <2>1, <2>2
<1>3. Nat \subseteq T
  <2> HIDE DEF T
  <2> QED BY <1>1, <1>2, Induction
<1>4. Same(U)
  <2> HIDE DEF Same
  <2> QED BY <1>3, <1>f
<1> QED BY <1>4

\* What the ranked corpus becomes.
Ranking(query, corpus) == Candidates(Ranked(query, corpus))

LEMMA RankingIs ==
  ASSUME NEW corpus \in Seq(Items), NEW query \in BOOLEAN
  PROVE  /\ DOMAIN Ranking(query, corpus) = 1 .. Len(corpus)
         /\ \A r \in 1 .. Len(corpus) : /\ Ranking(query, corpus)[r] \in Cands
                                        /\ Ranking(query, corpus)[r].rank = r
         /\ {Ranking(query, corpus)[r].item.id : r \in 1 .. Len(corpus)}
              = {corpus[i].id : i \in DOMAIN corpus}
         /\ query => \A r, s \in 1 .. Len(corpus) :
              r < s => NotAfter(Ranking(query, corpus)[r].item, Ranking(query, corpus)[s].item)
<1> DEFINE L == Ranked(query, corpus)
           n == Len(corpus)
           cs == Ranking(query, corpus)
<1>1. /\ L \in Seq(Items) /\ Len(L) = n
      /\ {L[r].id : r \in 1 .. n} = {corpus[i].id : i \in 1 .. n}
      /\ query => \A r, s \in 1 .. n : r < s => NotAfter(L[r], L[s])
  BY RankedItems
<1>2. DOMAIN corpus = 1 .. n
  OBVIOUS
<1>3. DOMAIN L = 1 .. n /\ \A r \in 1 .. n : L[r] \in Items /\ r \in Nat
  <2> HIDE DEF L
  <2> QED BY <1>1
<1>4. cs = [r \in DOMAIN L |-> [item |-> L[r], rank |-> r]]
  BY DEF Ranking, Candidates, Candidate
<1> HIDE DEF cs, L, n
<1>5. DOMAIN cs = 1 .. n /\ \A r \in 1 .. n : cs[r] = [item |-> L[r], rank |-> r]
  BY <1>3, <1>4
<1>6. \A r \in 1 .. n : cs[r] \in Cands /\ cs[r].rank = r /\ cs[r].item = L[r]
  BY <1>3, <1>5 DEF Cands
<1>7. {cs[r].item.id : r \in 1 .. n} = {corpus[i].id : i \in DOMAIN corpus}
  <2>1. {cs[r].item.id : r \in 1 .. n} = {L[r].id : r \in 1 .. n}
    BY <1>6
  <2>2. {L[r].id : r \in 1 .. n} = {corpus[i].id : i \in 1 .. n}
    BY <1>1
  <2> QED BY <1>2, <2>1, <2>2
<1>8. query => \A r, s \in 1 .. n : r < s => NotAfter(cs[r].item, cs[s].item)
  BY <1>1, <1>6
<1> QED BY <1>5, <1>6, <1>7, <1>8 DEF cs, n

\* Without a budget, and without a corpus, everything is rejected.
LEMMA NothingSelected ==
  ASSUME NEW corpus \in Seq(Items), NEW query \in BOOLEAN, NEW budget \in Int,
         budget <= 0 \/ corpus = <<>>
  PROVE  Greedy(query, corpus, budget)
<1> DEFINE answer == Select(query, corpus, budget)
           cs == Candidates(Unranked(corpus))
<1>1. answer = [Nothing EXCEPT !.rejected = cs, !.reason = [i \in DOMAIN corpus |-> "token_budget"]]
  BY DEF Select
<1>2. answer.selected = <<>> /\ answer.rejected = cs
  <2> HIDE DEF answer, cs
  <2> QED BY <1>1 DEF Nothing
<1>3. cs = Ranking(FALSE, corpus)
  BY DEF Ranking, Ranked
<1>4. /\ DOMAIN cs = 1 .. Len(corpus)
      /\ \A r \in 1 .. Len(corpus) : cs[r] \in Cands
      /\ {cs[r].item.id : r \in 1 .. Len(corpus)} = {corpus[i].id : i \in DOMAIN corpus}
  BY <1>3, RankingIs
<1> HIDE DEF cs, answer
<1>5. Len(cs) = Len(corpus) /\ Len(corpus) \in Nat /\ Len(<<>>) = 0
  <2>1. Len(corpus) \in Nat
    OBVIOUS
  <2>2. cs \in Seq(Cands)
    <3>1. cs = [r \in 1 .. Len(corpus) |-> cs[r]]
      BY <1>4 DEF cs, Candidates
    <3>2. cs \in [1 .. Len(corpus) -> Cands]
      BY <1>4, <3>1
    <3> HIDE DEF Cands
    <3> QED BY <2>1, <3>2
  <2>3. DOMAIN cs = 1 .. Len(cs) /\ Len(cs) \in Nat
    <3> HIDE DEF Cands
    <3> QED BY <2>2
  <2> QED BY <1>4, <2>1, <2>3
<1>6. ToSet(answer.selected) = {} /\ ToSet(answer.rejected) = {cs[r] : r \in 1 .. Len(corpus)}
  BY <1>2, <1>4 DEF ToSet
<1>7. {c.item.id : c \in ToSet(answer.selected) \cup ToSet(answer.rejected)}
        = {corpus[i].id : i \in DOMAIN corpus}
  <2>1. ToSet(answer.selected) \cup ToSet(answer.rejected) = {cs[r] : r \in 1 .. Len(corpus)}
    BY <1>6
  <2>2. {c.item.id : c \in {cs[r] : r \in 1 .. Len(corpus)}}
          = {cs[r].item.id : r \in 1 .. Len(corpus)}
    OBVIOUS
  <2> QED BY <1>4, <2>1, <2>2
<1>8. Len(answer.selected) + Len(answer.rejected) = Len(corpus)
  BY <1>2, <1>5
<1>9. (query /\ budget > 0) =>
        \A c, d \in ToSet(answer.selected) \cup ToSet(answer.rejected) :
          c.rank < d.rank => NotAfter(c.item, d.item)
  <2> SUFFICES ASSUME budget > 0 PROVE ToSet(answer.selected) \cup ToSet(answer.rejected) = {}
    OBVIOUS
  <2>1. corpus = <<>>
    OBVIOUS
  <2>2. 1 .. Len(corpus) = {}
    BY <2>1
  <2> QED BY <1>6, <2>2
<1>10. \A c \in ToSet(answer.rejected) :
         (corpus # <<>> /\ budget > 0 /\ c.item.tokens > 0) => ~Fits(c, ToSet(answer.selected), budget)
  OBVIOUS
<1> QED BY <1>6, <1>7, <1>8, <1>9, <1>10 DEF Greedy, answer

\* With a budget, the corpus is packed by rank.
LEMMA SomethingSelected ==
  ASSUME NEW corpus \in Seq(Items), NEW query \in BOOLEAN, NEW budget \in Int,
         budget > 0, corpus # <<>>
  PROVE  Greedy(query, corpus, budget)
<1> DEFINE n == Len(corpus)
           cs == Ranking(query, corpus)
           answer == Select(query, corpus, budget)
           selected == ToSet(answer.selected)
           rejected == ToSet(answer.rejected)
           Sum(s) == SumFunctionOnSet(Cost(cs), s)
<1>1. n \in Nat /\ budget \in Nat
  OBVIOUS
<1>2. /\ DOMAIN cs = 1 .. n
      /\ \A r \in 1 .. n : cs[r] \in Cands /\ cs[r].rank = r
      /\ {cs[r].item.id : r \in 1 .. n} = {corpus[i].id : i \in DOMAIN corpus}
      /\ query => \A r, s \in 1 .. n : r < s => NotAfter(cs[r].item, cs[s].item)
  BY RankingIs
<1>3. answer = PackAll(cs, budget)
  <2>1. ~(budget <= 0 \/ corpus = <<>>)
    OBVIOUS
  <2> QED BY <2>1, Zenon DEF Select, PackAll, Ranking
<1> HIDE DEF cs, answer, n, Sum
<1>4. Fitted(answer, cs, budget, n)
  BY <1>1, <1>2, <1>3, AllFitted
<1>5. PICK chosen \in SUBSET (1 .. n) : Sorted(answer, cs, budget, n, chosen)
  BY <1>4 DEF Fitted
<1>6. /\ selected = {cs[i] : i \in chosen}
      /\ rejected = {cs[i] : i \in (1 .. n) \ chosen}
      /\ Len(answer.selected) + Len(answer.rejected) = n
      /\ answer.used = Sum(chosen) /\ answer.used <= budget
      /\ \A i \in chosen : Cost(cs)[i] > 0
      /\ \A i \in (1 .. n) \ chosen :
           Cost(cs)[i] > 0 => Sum({j \in chosen : j < i}) + Cost(cs)[i] > budget
  BY <1>5 DEF Sorted, Sum
<1> HIDE DEF selected, rejected
<1>7. \A i \in 1 .. n : Cost(cs)[i] = cs[i].item.tokens /\ Cost(cs)[i] \in Int
  BY <1>2 DEF Cost, Cands, Items
<1>8. ASSUME NEW s \in SUBSET chosen
      PROVE  /\ SumFunctionOnSet(TokensOf(selected), {cs[i] : i \in s}) = Sum(s)
             /\ Sum(s) \in Int
  <2>1. IsFiniteSet(s)
    <3>1. IsFiniteSet(1 .. n) /\ s \in SUBSET (1 .. n)
      BY <1>1, FS_Interval
    <3> QED BY <3>1, FS_Subset
  <2>2. \A i \in s : /\ cs[i].rank = i /\ Cost(cs)[i] \in Int
                     /\ TokensOf(selected)[cs[i]] = Cost(cs)[i]
    BY <1>2, <1>6, <1>7 DEF TokensOf
  <2>3. SumFunctionOnSet(TokensOf(selected), At(cs, s)) = SumFunctionOnSet(Cost(cs), s)
    <3>1. ByRank(cs, Cost(cs), TokensOf(selected), s)
      BY <2>2 DEF ByRank
    <3> QED BY <2>1, <3>1, SumByRank
  <2>4. SumFunctionOnSet(Cost(cs), s) \in Int
    BY <2>1, <2>2, SumFacts
  <2> QED BY <2>3, <2>4 DEF Sum, At
<1>9. {c.item.id : c \in selected \cup rejected} = {corpus[i].id : i \in DOMAIN corpus}
  <2>1. selected \cup rejected = {cs[i] : i \in 1 .. n}
    BY <1>6
  <2>2. {c.item.id : c \in {cs[i] : i \in 1 .. n}} = {cs[i].item.id : i \in 1 .. n}
    OBVIOUS
  <2> QED BY <1>2, <2>1, <2>2
<1>10. SumFunctionOnSet(TokensOf(selected), selected) <= budget
  BY <1>6, <1>8
<1>11. \A c \in selected : c.item.tokens > 0
  BY <1>6, <1>7
<1>12. ASSUME NEW c \in rejected, c.item.tokens > 0
       PROVE  ~Fits(c, selected, budget)
  <2>1. PICK i \in (1 .. n) \ chosen : c = cs[i]
    BY <1>6
  <2> DEFINE before == {j \in chosen : j < i}
  <2>2. {d \in selected : d.rank < c.rank} = {cs[j] : j \in before}
    BY <1>2, <1>6, <2>1
  <2>3. Cost(cs)[i] = c.item.tokens /\ Cost(cs)[i] \in Int
    BY <1>7, <2>1
  <2>4. Sum(before) + Cost(cs)[i] > budget
    BY <1>6, <1>12, <2>1, <2>3
  <2>5. /\ SumFunctionOnSet(TokensOf(selected), {cs[j] : j \in before}) = Sum(before)
        /\ Sum(before) \in Int
    BY <1>8
  <2> HIDE DEF before
  <2>6. Fits(c, selected, budget) <=> Sum(before) + Cost(cs)[i] <= budget
    BY <2>2, <2>3, <2>5, Zenon DEF Fits
  <2> QED BY <2>3, <2>4, <2>5, <2>6
<1>13. ASSUME query, NEW c \in selected \cup rejected, NEW d \in selected \cup rejected,
              c.rank < d.rank
       PROVE  NotAfter(c.item, d.item)
  <2>1. PICK i \in 1 .. n : c = cs[i]
    BY <1>6
  <2>2. PICK j \in 1 .. n : d = cs[j]
    BY <1>6
  <2>3. i < j
    BY <1>2, <1>13, <2>1, <2>2
  <2> QED BY <1>2, <1>13, <2>1, <2>2, <2>3
<1>14. Len(answer.selected) + Len(answer.rejected) = Len(corpus)
  BY <1>6 DEF n
<1> QED BY <1>9, <1>10, <1>11, <1>12, <1>13, <1>14 DEF Greedy, answer, selected, rejected

-----------------------------------------------------------------------------
(* The answers are about the inputs the constants hold.                    *)

\* A question is about an input of its kind.
Asked ==
  \/ question.about = "nothing"
  \/ /\ question.about = "selection" /\ question.query \in BOOLEAN
     /\ question.corpus \in Corpora /\ question.budget \in Budgets
  \/ question.about = "gate" /\ question.calls \in CallLists /\ question.gate \in Gates
  \/ question.about = "readiness" /\ question.runs \in Comparisons
  \/ /\ question.about = "route" /\ question.policy \in Policies
     /\ question.outcome \in Outcomes(question.policy)

LEMMA AskedInvariant == Spec => []Asked
<1>1. Init => Asked
  BY DEF Init, Asked
<1>2. Asked /\ [Next]_question => Asked'
  <2> SUFFICES ASSUME Asked, [Next]_question PROVE Asked'
    OBVIOUS
  <2>1. CASE AskSelection
    BY <2>1 DEF AskSelection, Asked
  <2>2. CASE AskGate
    BY <2>2 DEF AskGate, Asked
  <2>3. CASE AskReadiness
    BY <2>3 DEF AskReadiness, Asked
  <2>4. CASE AskRoute
    <3>1. PICK policy \in Policies : \E outcome \in Outcomes(policy) :
            question' = [about |-> "route", policy |-> policy, outcome |-> outcome]
      BY <2>4 DEF AskRoute
    <3>2. PICK outcome \in Outcomes(policy) :
            question' = [about |-> "route", policy |-> policy, outcome |-> outcome]
      BY <3>1
    <3>3. /\ question'.about = "route" /\ question'.policy = policy
          /\ question'.outcome = outcome
      BY <3>2
    <3>4. question'.outcome \in Outcomes(question'.policy)
      BY <3>2, <3>3
    <3>5. Asked' <=>
            \/ question'.about = "nothing"
            \/ /\ question'.about = "selection" /\ question'.query \in BOOLEAN
               /\ question'.corpus \in Corpora /\ question'.budget \in Budgets
            \/ question'.about = "gate" /\ question'.calls \in CallLists /\ question'.gate \in Gates
            \/ question'.about = "readiness" /\ question'.runs \in Comparisons
            \/ /\ question'.about = "route" /\ question'.policy \in Policies
               /\ question'.outcome \in Outcomes(question'.policy)
      BY DEF Asked, Outcomes
    <3> QED BY <3>3, <3>4, <3>5
  <2>5. CASE UNCHANGED question
    BY <2>5 DEF Asked, Outcomes
  <2> QED BY <2>1, <2>2, <2>3, <2>4, <2>5 DEF Next
<1> QED BY <1>1, <1>2, PTL DEF Spec

\* The context selector, for every corpus of items, every budget and with or without query
\* terms: every item is selected or rejected once, what is selected fits the budget, and an item
\* with tokens is left out only because those ranked before it leave no room (select_context,
\* _pack_budget).
THEOREM SelectsGreedily == Spec => []SelectionIsGreedy
<1>1. Asked => SelectionIsGreedy
  <2> SUFFICES ASSUME Asked, question.about = "selection"
      PROVE Greedy(question.query, question.corpus, question.budget)
    BY DEF SelectionIsGreedy
  <2> DEFINE query == question.query
             corpus == question.corpus
             budget == question.budget
  <2>1. query \in BOOLEAN /\ corpus \in Corpora /\ budget \in Budgets
    BY DEF Asked
  <2> HIDE DEF query, corpus, budget
  <2>2. corpus \in Seq(Items) /\ budget \in Int
    BY <2>1, DecisionsAssumption
  <2>3. CASE budget <= 0 \/ corpus = <<>>
    <3>1. Greedy(query, corpus, budget)
      BY <2>1, <2>2, <2>3, NothingSelected
    <3> QED BY <3>1 DEF query, corpus, budget
  <2>4. CASE budget > 0 /\ corpus # <<>>
    <3>1. Greedy(query, corpus, budget)
      BY <2>1, <2>2, <2>4, SomethingSelected
    <3> QED BY <3>1 DEF query, corpus, budget
  <2>5. budget <= 0 \/ budget > 0
    BY <2>2
  <2> QED BY <2>3, <2>4, <2>5
<1> QED BY <1>1, AskedInvariant, PTL

\* The release gate, for every manifest and every set of required scorers: it is passed when
\* every required scorer meets its threshold for every case, and only when there is a case,
\* something is required, all of it was there and none of it failed or raised; the pipeline
\* exits with 0 and the operator is told to ship exactly when it is passed; and the blockers are
\* the failed checks (aggregate_score_results, _release_blockers, _exit_code).  A required
\* scorer that skipped a case does not keep the gate from passing, and such a pass is not
\* called earned (GateIsEarned).
THEOREM GateHonest == Spec => []GateIsEarned
<1>1. Asked => GateIsEarned
  <2> SUFFICES ASSUME Asked, question.about = "gate"
      PROVE Honest(question.gate, LoadCases(Disk(question.calls)))
    BY DEF GateIsEarned
  <2>1. question.calls \in CallLists /\ question.gate \in Gates
    BY DEF Asked
  <2>2. question.calls \in Seq(MakeCalls) /\ question.gate.required \in Seq(STRING)
    BY <2>1, DecisionsAssumption
  <2>3. \E C : LoadCases(Disk(question.calls)) \in Seq(C)
    BY <2>2, ManifestIsSeq
  <2> QED BY <2>2, <2>3, GateIsHonest
<1> QED BY <1>1, AskedInvariant, PTL

\* The readiness verdict, for any two reports with any integer weights: a ship has no failing
\* safety scenario and four fifths of the weight, up to the rounding of the score; repairing a
\* scenario never turns it into a block; and a block names one of the heaviest of the failures
\* it is for (build_readiness_view, score_overall, _primary_blocker).
THEOREM VerdictFair == Spec => []VerdictIsFair
<1>1. Asked => VerdictIsFair
  <2> SUFFICES ASSUME Asked, question.about = "readiness",
                      question.runs.naked # <<>>, question.runs.wrapped # <<>>
      PROVE Fair(question.runs.naked, question.runs.wrapped)
    BY DEF VerdictIsFair
  <2>1. question.runs \in [naked : Seq(Checked), wrapped : Seq(Checked)]
    BY DecisionsAssumption DEF Asked
  <2>2. question.runs.naked \in Seq(Checked) /\ question.runs.wrapped \in Seq(Checked)
    <3> HIDE DEF Checked
    <3> QED BY <2>1
  <2> QED BY <2>2, ReadinessIsFair
<1> QED BY <1>1, AskedInvariant, PTL

\* The router, for every list of providers, every retry count and every outcome of the calls: it
\* answers with the first answer in order of preference, stops at the first error the policy does
\* not pass over, and gives up only when every attempt of every provider has failed
\* (ModelRouter.route).
THEOREM RouterAnswersFirst == Spec => []FirstAnswerWins
<1>1. Asked => FirstAnswerWins
  <2> SUFFICES ASSUME Asked, question.about = "route"
      PROVE FirstAnswer(question.policy, question.outcome)
    BY DEF FirstAnswerWins
  <2>1. /\ question.policy \in Policies
        /\ question.outcome \in Outcomes(question.policy)
    BY DEF Asked
  <2>2. question.policy.providers \in Seq(STRING) /\ question.policy.retry_count \in Int
    BY <2>1, DecisionsAssumption
  <2> QED BY <2>1, <2>2, AnswersFirst
<1> QED BY <1>1, AskedInvariant, PTL
=============================================================================
