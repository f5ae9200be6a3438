------------------------ MODULE ContextSafety_proofs ------------------------
(***************************************************************************)
(* The context ledger, for every corpus, budget, model and number of       *)
(* crashes.  First what the operators return that the model is built from: *)
(* FlattenSeq and FoldLeft are recursive functions, so what they compute   *)
(* is shown by induction over the length.  Then the selection, the calls   *)
(* each step makes, one lemma for each conjunct of LedgerInv, and the      *)
(* properties of the audit.                                                *)
(***************************************************************************)
EXTENDS ContextInvariant, WellFoundedInduction, FiniteSetTheorems, SequenceTheorems, TLAPS

-----------------------------------------------------------------------------
(* Induction on the natural numbers.                                       *)

\* The order of the natural numbers, as a relation.
Below == {ss \in Nat \X Nat : ss[1] < ss[2]}
LEMMA BelowWF == IsWellFoundedOn(Below, Nat)
<1>1. Below = OpToRel(<, Nat)
  BY DEF OpToRel, Below
<1>2. QED BY <1>1, NatLessThanWellFounded DEF OpToRel, Below

\* Induction on the natural numbers, for a set: a set that has 0 and with n also n + 1.
LEMMA Induction ==
  ASSUME NEW S, 0 \in S, \A n \in Nat : n \in S => n + 1 \in S
  PROVE  Nat \subseteq S
<1> DEFINE T == Nat \ S
<1> SUFFICES ASSUME T # {} PROVE FALSE
  OBVIOUS
<1>1. PICK x \in T : \A y \in T : <<y, x>> \notin Below
  <2>1. T \subseteq Nat
    OBVIOUS
  <2> HIDE DEF T
  <2> QED BY <2>1, BelowWF, WFMin
<1>2. x # 0 /\ x - 1 \in Nat /\ x - 1 \in T
  OBVIOUS
<1>3. <<x - 1, x>> \in Below
  BY <1>2 DEF Below
<1> QED BY <1>1, <1>2, <1>3

-----------------------------------------------------------------------------
(* Concatenating sequences.                                                *)

\* Chained(g, ss, n): g[i] is the concatenation of the first i sequences of ss.
Chained(g, ss, n) ==
  g = [i \in 1 .. n |-> IF i = 1 THEN ss[i] ELSE g[i - 1] \o ss[i]]

\* There is a chain, for any number of sequences.
LEMMA ChainExists ==
  ASSUME NEW ss
  PROVE  \A n \in Nat : \E g : Chained(g, ss, n)
<1> DEFINE P(n) == \E g : Chained(g, ss, n)
           T == {n \in Nat : P(n)}
<1>1. 0 \in T
  <2>1. Chained(<<>>, ss, 0)
    BY DEF Chained
  <2> QED BY <2>1
<1>2. ASSUME NEW n \in T PROVE n + 1 \in T
  <2>1. PICK g : Chained(g, ss, n)
    BY <1>2
  <2> DEFINE v == IF n = 0 THEN ss[1] ELSE g[n] \o ss[n + 1]
             h == [i \in 1 .. n + 1 |-> IF i <= n THEN g[i] ELSE v]
  <2>2. ASSUME NEW i \in 1 .. n + 1
        PROVE  h[i] = IF i = 1 THEN ss[i] ELSE h[i - 1] \o ss[i]
    <3>1. CASE i <= n
      <4>1. i \in 1 .. n /\ (i # 1 => i - 1 \in 1 .. n)
        BY <1>2, <3>1
      <4>2. g[i] = IF i = 1 THEN ss[i] ELSE g[i - 1] \o ss[i]
        BY <2>1, <4>1 DEF Chained
      <4> QED BY <4>1, <4>2, <3>1
    <3>2. CASE i = n + 1
      <4>1. i \in Nat /\ ~(i <= n) /\ h[i] = v
        BY <1>2, <3>2
      <4>2. CASE n = 0
        BY <4>1, <4>2, <3>2
      <4>3. CASE n # 0
        <5>1. i # 1 /\ i - 1 = n /\ n \in 1 .. n + 1
          BY <1>2, <3>2, <4>3
        <5>2. h[n] = g[n]
          BY <5>1, <1>2
        <5> QED BY <4>1, <4>3, <5>1, <5>2, <3>2
      <4> QED BY <4>2, <4>3
    <3> QED BY <3>1, <3>2, <1>2
  <2>3. h = [i \in 1 .. n + 1 |-> IF i = 1 THEN ss[i] ELSE h[i - 1] \o ss[i]]
    <3> HIDE DEF v
    <3>1. h = [i \in 1 .. n + 1 |-> h[i]]
      OBVIOUS
    <3> HIDE DEF h
    <3> QED BY <2>2, <3>1
  <2>4. Chained(h, ss, n + 1)
    BY <2>3 DEF Chained
  <2> QED BY <2>4, <1>2
<1>3. Nat \subseteq T
  <2> HIDE DEF T
  <2> QED BY <1>1, <1>2, Induction DEF T
<1> QED BY <1>3

Flattened(ss) == CHOOSE g : Chained(g, ss, Len(ss))

\* FlattenSeq returns the last link of the chain.
LEMMA FlattenIsChain ==
  ASSUME NEW ss, Len(ss) \in Nat \ {0}
  PROVE  FlattenSeq(ss) = Flattened(ss)[Len(ss)] /\ Chained(Flattened(ss), ss, Len(ss))
<1>1. \E g : Chained(g, ss, Len(ss))
  BY ChainExists
<1>2. Chained(Flattened(ss), ss, Len(ss))
  BY <1>1 DEF Flattened
<1>3. FlattenSeq(ss) = Flattened(ss)[Len(ss)]
  BY DEF FlattenSeq, Flattened, Chained
<1> QED BY <1>2, <1>3

\* Where the i-th sequence of ss begins in the chain g.
Offset(g, i) == IF i = 1 THEN 0 ELSE Len(g[i - 1])

\* flat is made of the first n sequences of ss, one after the other.
Shaped(flat, g, ss, n) ==
  /\ \A i \in 1 .. n : Offset(g, i) \in Nat /\ Offset(g, i) + Len(ss[i]) <= Len(flat)
  /\ \A i \in 1 .. n : \A j \in 1 .. Len(ss[i]) : flat[Offset(g, i) + j] = ss[i][j]
  /\ \A k \in 1 .. Len(flat) : \E i \in 1 .. n : \E j \in 1 .. Len(ss[i]) : k = Offset(g, i) + j

\* What a link of the chain is made of.
LEMMA ChainShape ==
  ASSUME NEW S, NEW ss \in Seq(Seq(S)), NEW g, Chained(g, ss, Len(ss))
  PROVE  \A n \in 1 .. Len(ss) : g[n] \in Seq(S) /\ Shaped(g[n], g, ss, n)
<1> DEFINE P(n) == g[n] \in Seq(S) /\ Shaped(g[n], g, ss, n)
           T == {n \in Nat : n \in 1 .. Len(ss) => P(n)}
<1>g. \A i \in 1 .. Len(ss) : g[i] = IF i = 1 THEN ss[i] ELSE g[i - 1] \o ss[i]
  BY DEF Chained
<1>s. \A i \in 1 .. Len(ss) : ss[i] \in Seq(S) /\ Len(ss[i]) \in Nat
  OBVIOUS
<1>0. 0 \in T
  OBVIOUS
<1>1. ASSUME NEW n \in T PROVE n + 1 \in T
  <2> SUFFICES ASSUME n + 1 \in 1 .. Len(ss) PROVE P(n + 1)
    BY <1>1
  <2>n. n \in Nat
    BY <1>1
  <2>1. CASE n = 0
    <3>1. g[1] = ss[1] /\ Offset(g, 1) = 0
      BY <1>g, <2>1 DEF Offset
    <3>2. ss[1] \in Seq(S) /\ 1 \in 1 .. Len(ss)
      BY <1>s, <2>1
    <3>3. Shaped(g[1], g, ss, 1)
      BY <3>1, <3>2 DEF Shaped
    <3> QED BY <3>1, <3>2, <3>3, <2>1
  <2>2. CASE n # 0
    <3>1. g[n] \in Seq(S) /\ Shaped(g[n], g, ss, n) /\ n \in 1 .. Len(ss)
      BY <1>1, <2>2, <2>n
    <3>2. g[n + 1] = g[n] \o ss[n + 1] /\ Offset(g, n + 1) = Len(g[n])
      <4>1. n + 1 # 1 /\ (n + 1) - 1 = n
        BY <2>2, <2>n
      <4> QED BY <1>g, <4>1 DEF Offset
    <3>3. ss[n + 1] \in Seq(S)
      BY <1>s
    <3> DEFINE a == g[n]
               b == ss[n + 1]
               c == g[n + 1]
    <3>4. /\ c \in Seq(S) /\ Len(c) = Len(a) + Len(b) /\ Len(a) \in Nat /\ Len(b) \in Nat
          /\ \A k \in 1 .. Len(a) : c[k] = a[k]
          /\ \A k \in 1 .. Len(b) : c[Len(a) + k] = b[k]
      <4>1. \A x, y \in Seq(S) : x \o y \in Seq(S) /\ Len(x \o y) = Len(x) + Len(y)
             /\ Len(x) \in Nat /\ Len(y) \in Nat
             /\ (\A k \in 1 .. Len(x) : (x \o y)[k] = x[k])
             /\ (\A k \in 1 .. Len(y) : (x \o y)[Len(x) + k] = y[k])
        OBVIOUS
      <4>2. a \in Seq(S) /\ b \in Seq(S) /\ c = a \o b
        BY <3>1, <3>2, <3>3
      <4> HIDE DEF a, b, c
      <4> QED BY <4>1, <4>2
    <3>5. \A i \in 1 .. n : /\ Offset(g, i) \in Nat /\ Offset(g, i) + Len(ss[i]) <= Len(a)
                            /\ \A j \in 1 .. Len(ss[i]) : a[Offset(g, i) + j] = ss[i][j]
      BY <3>1 DEF Shaped
    <3>6. \A k \in 1 .. Len(a) : \E i \in 1 .. n : \E j \in 1 .. Len(ss[i]) : k = Offset(g, i) + j
      BY <3>1 DEF Shaped
    <3>7. Offset(g, n + 1) = Len(a)
      BY <3>2
    <3>8. \A i \in 1 .. n + 1 : i \in 1 .. n \/ i = n + 1
      BY <2>n
    <3>9. Len(ss[n + 1]) = Len(b) /\ ss[n + 1] = b /\ c = g[n + 1]
      OBVIOUS
    <3> HIDE DEF a, b, c
    <3>10. \A i \in 1 .. n + 1 : Offset(g, i) \in Nat /\ Offset(g, i) + Len(ss[i]) <= Len(c)
      <4> TAKE i \in 1 .. n + 1
      <4>1. CASE i \in 1 .. n
        <5>1. Len(ss[i]) \in Nat
          BY <1>s, <2>n, <4>1
        <5> QED BY <4>1, <3>4, <3>5, <5>1
      <4>2. CASE i = n + 1
        BY <4>2, <3>4, <3>7, <3>9
      <4> QED BY <3>8, <4>1, <4>2
    <3>11. ASSUME NEW i \in 1 .. n + 1, NEW j \in 1 .. Len(ss[i])
           PROVE  c[Offset(g, i) + j] = ss[i][j]
      <4>1. CASE i \in 1 .. n
        <5>1. Len(ss[i]) \in Nat
          BY <1>s, <2>n, <4>1
        <5>2. /\ Offset(g, i) \in Nat /\ Offset(g, i) + Len(ss[i]) <= Len(a)
              /\ a[Offset(g, i) + j] = ss[i][j]
          BY <4>1, <3>5
        <5>3. Offset(g, i) + j \in 1 .. Len(a)
          <6>1. \A x, l, m \in Nat : \A e \in 1 .. l : x + l <= m => x + e \in 1 .. m
            OBVIOUS
          <6> QED BY <5>1, <5>2, <3>4, <6>1
        <5> QED BY <5>2, <5>3, <3>4
      <4>2. CASE i = n + 1
        BY <4>2, <3>4, <3>7, <3>9
      <4> QED BY <3>8, <4>1, <4>2
    <3>12. ASSUME NEW k \in 1 .. Len(c)
           PROVE  \E i \in 1 .. n + 1 : \E j \in 1 .. Len(ss[i]) : k = Offset(g, i) + j
      <4>1. CASE k <= Len(a)
        <5>1. k \in 1 .. Len(a)
          BY <4>1, <3>4
        <5>2. PICK i \in 1 .. n : \E j \in 1 .. Len(ss[i]) : k = Offset(g, i) + j
          BY <5>1, <3>6
        <5>3. i \in 1 .. n + 1
          BY <2>n
        <5> QED BY <5>2, <5>3
      <4>2. CASE k > Len(a)
        <5>1. k - Len(a) \in 1 .. Len(b) /\ k = Len(a) + (k - Len(a))
          BY <4>2, <3>4
        <5>2. n + 1 \in 1 .. n + 1
          BY <2>n
        <5> QED BY <5>1, <5>2, <3>7, <3>9
      <4> QED BY <4>1, <4>2, <3>4
    <3>13. Shaped(c, g, ss, n + 1)
      BY <3>10, <3>11, <3>12 DEF Shaped
    <3> QED BY <3>13, <3>4, <3>9
  <2> QED BY <2>1, <2>2
<1>2. \A n \in Nat : n \in T => n + 1 \in T
  BY <1>1
<1>3. Nat \subseteq T
  <2> HIDE DEF T
  <2> QED BY <1>0, <1>2, Induction
<1>4. \A n \in 1 .. Len(ss) : n \in Nat
  OBVIOUS
<1> QED BY <1>3, <1>4

\* What FlattenSeq returns.
LEMMA FlattenShape ==
  ASSUME NEW S, NEW ss \in Seq(Seq(S))
  PROVE  /\ FlattenSeq(ss) \in Seq(S)
         /\ \E g : Shaped(FlattenSeq(ss), g, ss, Len(ss))
<1>1. CASE Len(ss) = 0
  <2>1. FlattenSeq(ss) = ss /\ ss = <<>>
    BY <1>1 DEF FlattenSeq
  <2>2. <<>> \in Seq(S) /\ Len(<<>>) = 0
    OBVIOUS
  <2>3. Shaped(<<>>, <<>>, ss, Len(ss))
    BY <1>1, <2>2 DEF Shaped
  <2> QED BY <2>1, <2>2, <2>3
<1>2. CASE Len(ss) # 0
  <2>1. Len(ss) \in Nat \ {0} /\ Len(ss) \in 1 .. Len(ss)
    BY <1>2
  <2>2. FlattenSeq(ss) = Flattened(ss)[Len(ss)] /\ Chained(Flattened(ss), ss, Len(ss))
    BY <2>1, FlattenIsChain
  <2>3. LET f == Flattened(ss)[Len(ss)] IN f \in Seq(S) /\ Shaped(f, Flattened(ss), ss, Len(ss))
    BY <2>1, <2>2, ChainShape
  <2> QED BY <2>2, <2>3
<1> QED BY <1>1, <1>2

\* SetToSeq lists a finite set.
LEMMA SetToSeqLists ==
  ASSUME NEW S, IsFiniteSet(S)
  PROVE  /\ SetToSeq(S) \in Seq(S)
         /\ DOMAIN SetToSeq(S) = 1 .. Cardinality(S)
         /\ \A x \in S : \E i \in DOMAIN SetToSeq(S) : SetToSeq(S)[i] = x
<1> DEFINE n == Cardinality(S)
           f == SetToSeq(S)
<1>1. n \in Nat /\ ExistsBijection(1 .. n, S)
  BY FS_CardinalityType
<1>2. PICK h \in [1 .. n -> S] : IsInjective(h)
  <2>1. PICK h \in Bijection(1 .. n, S) : TRUE
    BY <1>1 DEF ExistsBijection
  <2>2. h \in [1 .. n -> S] /\ \A a, b \in 1 .. n : h[a] = h[b] => a = b
    BY <2>1 DEF Bijection, Injection, Surjection, IsInjective
  <2> QED BY <2>2 DEF IsInjective
<1>3. f \in [1 .. n -> S] /\ IsInjective(f)
  BY <1>2 DEF SetToSeq
<1>4. f \in Injection(1 .. n, S)
  BY <1>3 DEF Injection, IsInjective
<1>5. Cardinality(1 .. n) = n
  BY <1>1, FS_Interval
<1>6. f \in Surjection(1 .. n, S)
  BY <1>4, <1>5, FS_Injection
<1>7. \A x \in S : \E i \in 1 .. n : f[i] = x
  BY <1>6 DEF Surjection
<1>8. f \in Seq(S) /\ DOMAIN f = 1 .. n
  BY <1>1, <1>3
<1> QED BY <1>7, <1>8

-----------------------------------------------------------------------------
(* The selection (ContextSelector).                                        *)

\* The items of a corpus that are ranked before the i-th.
Ahead(corpus, i) == {j \in DOMAIN corpus : Before(corpus[j], j, corpus[i], i)}
Place(corpus, i) == 1 + Cardinality(Ahead(corpus, i))

IsScored(corpus) ==
  \A i \in DOMAIN corpus : corpus[i].score \in Int /\ corpus[i].time \in Int /\ corpus[i].tokens \in Int

\* Before is a strict total order of the items.
LEMMA BeforeIsTotal ==
  ASSUME NEW corpus, DOMAIN corpus \subseteq Nat, IsScored(corpus),
         NEW i \in DOMAIN corpus, NEW j \in DOMAIN corpus
  PROVE  /\ ~Before(corpus[i], i, corpus[i], i)
         /\ i # j => Before(corpus[i], i, corpus[j], j) \/ Before(corpus[j], j, corpus[i], i)
         /\ \A k \in DOMAIN corpus :
              Before(corpus[k], k, corpus[i], i) /\ Before(corpus[i], i, corpus[j], j)
                => Before(corpus[k], k, corpus[j], j)
BY DEF Before, IsScored

\* What is ranked before another has the smaller place.
LEMMA AheadGrows ==
  ASSUME NEW n \in Nat, NEW corpus, DOMAIN corpus = 1 .. n, IsScored(corpus),
         NEW i \in 1 .. n, NEW j \in 1 .. n, Before(corpus[i], i, corpus[j], j)
  PROVE  Place(corpus, i) < Place(corpus, j)
<1> DEFINE A == Ahead(corpus, i)
           B == Ahead(corpus, j)
<1>1. A \cup {i} \subseteq B /\ i \notin A
  BY BeforeIsTotal DEF Ahead
<1>2. IsFiniteSet(1 .. n)
  BY FS_Interval
<1>3. IsFiniteSet(A) /\ IsFiniteSet(B)
  BY <1>2, FS_Subset DEF Ahead
<1> HIDE DEF A, B
<1>4. Cardinality(A \cup {i}) = Cardinality(A) + 1 /\ IsFiniteSet(A \cup {i})
  BY <1>1, <1>3, FS_AddElement
<1>5. Cardinality(A \cup {i}) <= Cardinality(B)
  BY <1>1, <1>3, FS_Subset
<1>6. Cardinality(A) \in Nat /\ Cardinality(B) \in Nat
  BY <1>3, FS_CardinalityType
<1> QED BY <1>4, <1>5, <1>6 DEF Place, A, B

\* The places of the items are the ranks, each once.
LEMMA PlacesPermute ==
  ASSUME NEW n \in Nat, NEW corpus, DOMAIN corpus = 1 .. n, IsScored(corpus)
  PROVE  /\ \A i \in 1 .. n : Place(corpus, i) \in 1 .. n
         /\ \A i, j \in 1 .. n : Place(corpus, i) = Place(corpus, j) => i = j
         /\ \A r \in 1 .. n : \E i \in 1 .. n : Place(corpus, i) = r
<1> DEFINE f == [i \in 1 .. n |-> Place(corpus, i)]
<1>f. IsFiniteSet(1 .. n) /\ Cardinality(1 .. n) = n
  BY FS_Interval
<1>1. ASSUME NEW i \in 1 .. n PROVE Place(corpus, i) \in 1 .. n
  <2>1. Ahead(corpus, i) \subseteq (1 .. n) \ {i}
    BY BeforeIsTotal DEF Ahead
  <2>2. IsFiniteSet((1 .. n) \ {i}) /\ Cardinality((1 .. n) \ {i}) = n - 1
    BY <1>f, FS_RemoveElement
  <2>3. Cardinality(Ahead(corpus, i)) <= n - 1 /\ IsFiniteSet(Ahead(corpus, i))
    BY <2>1, <2>2, FS_Subset
  <2>4. Cardinality(Ahead(corpus, i)) \in Nat
    BY <2>3, FS_CardinalityType
  <2> QED BY <2>3, <2>4 DEF Place
<1>2. ASSUME NEW i \in 1 .. n, NEW j \in 1 .. n, Place(corpus, i) = Place(corpus, j)
      PROVE  i = j
  <2>1. Before(corpus[i], i, corpus[j], j) => Place(corpus, i) < Place(corpus, j)
    BY AheadGrows
  <2>2. Before(corpus[j], j, corpus[i], i) => Place(corpus, j) < Place(corpus, i)
    BY AheadGrows
  <2>3. i # j => Before(corpus[i], i, corpus[j], j) \/ Before(corpus[j], j, corpus[i], i)
    BY BeforeIsTotal
  <2>4. Place(corpus, i) \in Int
    BY <1>1
  <2> QED BY <1>2, <2>1, <2>2, <2>3, <2>4
<1>3. f \in Injection(1 .. n, 1 .. n)
  BY <1>1, <1>2 DEF Injection, IsInjective
<1>4. f \in Surjection(1 .. n, 1 .. n)
  BY <1>3, <1>f, FS_Injection
<1>5. \A r \in 1 .. n : \E i \in 1 .. n : Place(corpus, i) = r
  BY <1>4 DEF Surjection
<1> QED BY <1>1, <1>2, <1>5

\* The index in the corpus of the item of a rank.
AtRank(corpus, r) == CHOOSE i \in DOMAIN corpus : Place(corpus, i) = r

\* Ranked lists every item of the corpus, by its place.
LEMMA RankedPermutes ==
  ASSUME NEW n \in Nat, NEW corpus, DOMAIN corpus = 1 .. n, IsScored(corpus)
  PROVE  /\ Ranked(TRUE, corpus) = [r \in 1 .. n |-> corpus[AtRank(corpus, r)]]
         /\ \A r \in 1 .. n : AtRank(corpus, r) \in 1 .. n
         /\ \A r, s \in 1 .. n : AtRank(corpus, r) = AtRank(corpus, s) => r = s
<1>1. \A r \in 1 .. n : AtRank(corpus, r) \in 1 .. n /\ Place(corpus, AtRank(corpus, r)) = r
  BY PlacesPermute DEF AtRank
<1>2. Ranked(TRUE, corpus) = [r \in 1 .. n |-> corpus[AtRank(corpus, r)]]
  BY DEF Ranked, AtRank, Place, Ahead
<1> QED BY <1>1, <1>2

\* g is the fold of Pack over each set of places of seq, the last place first.
Packing(g, seq, budget, n) ==
  g = [s \in SUBSET (1 .. n) |->
         IF s = {} THEN Nothing
         ELSE Pack(g[s \ {Max(s)}], seq[Max(s)], budget)]

\* The largest of a set of places that has the last place.
LEMMA MaxOfFinite ==
  ASSUME NEW n \in Nat, NEW s \in SUBSET (1 .. n + 1), n + 1 \in s
  PROVE  Max(s) = n + 1
<1>1. n + 1 \in s /\ \A y \in s : n + 1 >= y
  OBVIOUS
<1>2. \A x \in s : (\A y \in s : x >= y) => x = n + 1
  OBVIOUS
<1> QED BY <1>1, <1>2 DEF Max

\* There is such a fold, for any number of places.
LEMMA PackingExists ==
  ASSUME NEW seq, NEW budget
  PROVE  \A n \in Nat : \E g : Packing(g, seq, budget, n)
<1> DEFINE T == {n \in Nat : \E g : Packing(g, seq, budget, n)}
<1>1. 0 \in T
  <2> DEFINE g == [s \in SUBSET (1 .. 0) |-> Nothing]
  <2>1. Packing(g, seq, budget, 0)
    BY DEF Packing
  <2> QED BY <2>1
<1>2. ASSUME NEW n \in T PROVE n + 1 \in T
  <2>n. n \in Nat
    BY <1>2
  <2>1. PICK g : Packing(g, seq, budget, n)
    BY <1>2
  <2> DEFINE v(s) == Pack(g[s \ {n + 1}], seq[n + 1], budget)
             h == [s \in SUBSET (1 .. n + 1) |-> IF n + 1 \in s THEN v(s) ELSE g[s]]
             b(s) == IF s = {} THEN Nothing ELSE Pack(h[s \ {Max(s)}], seq[Max(s)], budget)
  <2>2. ASSUME NEW s \in SUBSET (1 .. n + 1)
        PROVE  h[s] = b(s)
    <3>1. CASE n + 1 \in s
      <4>1. Max(s) = n + 1
        BY <3>1, MaxOfFinite, <2>n
      <4>2. s \ {n + 1} \in SUBSET (1 .. n + 1) /\ n + 1 \notin s \ {n + 1} /\ s # {}
        BY <3>1
      <4>3. h[s \ {n + 1}] = g[s \ {n + 1}]
        BY <4>2
      <4>4. h[s] = v(s)
        BY <3>1
      <4> HIDE DEF h
      <4> QED BY <4>1, <4>2, <4>3, <4>4
    <3>2. CASE n + 1 \notin s
      <4>1. s \in SUBSET (1 .. n)
        BY <3>2, <2>n
      <4>2. h[s] = g[s]
        BY <3>2
      <4>3. g[s] = IF s = {} THEN Nothing ELSE Pack(g[s \ {Max(s)}], seq[Max(s)], budget)
        BY <2>1, <4>1 DEF Packing
      <4>4. h[s \ {Max(s)}] = g[s \ {Max(s)}]
        BY <3>2
      <4> HIDE DEF h
      <4> QED BY <4>2, <4>3, <4>4
    <3> QED BY <3>1, <3>2
  <2>3. h = [s \in SUBSET (1 .. n + 1) |-> b(s)]
    <3>1. h = [s \in SUBSET (1 .. n + 1) |-> h[s]]
      OBVIOUS
    <3> HIDE DEF h, b
    <3> QED BY <2>2, <3>1
  <2>4. Packing(h, seq, budget, n + 1)
    BY <2>3 DEF Packing
  <2> QED BY <2>4, <2>n
<1>3. Nat \subseteq T
  <2> HIDE DEF T
  <2> QED BY <1>1, <1>2, Induction DEF T
<1> QED BY <1>3

PackedSet(seq, budget, n) == CHOOSE g : Packing(g, seq, budget, n)
\* What is packed when the first k places of seq have been gone through.
PackedUpTo(seq, budget, n, k) == PackedSet(seq, budget, n)[1 .. k]
PackAll(seq, budget) ==
  FoldLeft(LAMBDA packed, candidate : Pack(packed, candidate, budget), Nothing, seq)

\* FoldLeft returns what is packed at the end, and begins with nothing.
LEMMA FoldIsPacking ==
  ASSUME NEW n \in Nat, NEW seq, DOMAIN seq = 1 .. n, NEW budget
  PROVE  /\ PackAll(seq, budget) = PackedUpTo(seq, budget, n, n)
         /\ PackedUpTo(seq, budget, n, 0) = Nothing
<1> DEFINE g == PackedSet(seq, budget, n)
<1>1. Packing(g, seq, budget, n)
  BY PackingExists DEF PackedSet
<1>2. PackAll(seq, budget) = g[1 .. n]
  BY DEF PackAll, FoldLeft, MapThenFoldSet, PackedSet, Packing
<1>3. g[1 .. 0] = Nothing
  BY <1>1 DEF Packing
<1> QED BY <1>2, <1>3 DEF PackedUpTo

\* Each place packs one candidate more.
LEMMA FoldStep ==
  ASSUME NEW n \in Nat, NEW seq, NEW budget, NEW k \in 1 .. n
  PROVE  PackedUpTo(seq, budget, n, k) = Pack(PackedUpTo(seq, budget, n, k - 1), seq[k], budget)
<1> DEFINE g == PackedSet(seq, budget, n)
<1>0. Packing(g, seq, budget, n)
  BY PackingExists DEF PackedSet
<1>1. 1 .. k \in SUBSET (1 .. n) /\ 1 .. k # {}
  <2>1. \A x \in 1 .. k : x \in 1 .. n
    OBVIOUS
  <2>2. k \in 1 .. k
    OBVIOUS
  <2> QED BY <2>1, <2>2
<1>2. Max(1 .. k) = k
  <2>1. k - 1 \in Nat /\ (k - 1) + 1 = k /\ k \in 1 .. k
    OBVIOUS
  <2>2. ASSUME NEW m \in Nat, m + 1 = k PROVE Max(1 .. k) = k
    BY <2>1, <2>2, MaxOfFinite
  <2> QED BY <2>1, <2>2
<1>3. (1 .. k) \ {k} = 1 .. k - 1
  OBVIOUS
<1>4. g[1 .. k] = Pack(g[(1 .. k) \ {Max(1 .. k)}], seq[Max(1 .. k)], budget)
  BY <1>0, <1>1 DEF Packing
<1> QED BY <1>2, <1>3, <1>4 DEF PackedUpTo

In(q, c) == \E i \in DOMAIN q : q[i] = c

\* p splits the first k candidates of seq, in that order.
Splits(p, seq, k) ==
  /\ p = [selected |-> p.selected, rejected |-> p.rejected, reason |-> p.reason, used |-> p.used]
  /\ p.selected \in Seq({seq[r] : r \in 1 .. k})
  /\ p.rejected \in Seq({seq[r] : r \in 1 .. k})
  /\ \A r \in 1 .. k : In(p.selected, seq[r]) \/ In(p.rejected, seq[r])
  /\ \A r \in 1 .. k : ~(In(p.selected, seq[r]) /\ In(p.rejected, seq[r]))

IsRanking(seq, n) ==
  /\ DOMAIN seq = 1 .. n
  /\ \A r \in 1 .. n : seq[r].rank = r

\* What appending adds.
LEMMA AppendHas ==
  ASSUME NEW S, NEW T, S \subseteq T, NEW q \in Seq(S), NEW c \in T
  PROVE  /\ Append(q, c) \in Seq(T)
         /\ \A x : In(Append(q, c), x) <=> In(q, x) \/ x = c
<1>1. q \in Seq(T)
  OBVIOUS
<1>2. /\ Append(q, c) \in Seq(T) /\ DOMAIN Append(q, c) = 1 .. Len(q) + 1
      /\ DOMAIN q = 1 .. Len(q) /\ Len(q) \in Nat
      /\ \A i \in 1 .. Len(q) : Append(q, c)[i] = q[i]
      /\ Append(q, c)[Len(q) + 1] = c
  BY <1>1
<1>3. \A i \in 1 .. Len(q) + 1 : i \in 1 .. Len(q) \/ i = Len(q) + 1
  BY <1>2
<1>4. Len(q) + 1 \in 1 .. Len(q) + 1 /\ \A i \in 1 .. Len(q) : i \in 1 .. Len(q) + 1
  BY <1>2
<1> QED BY <1>2, <1>3, <1>4 DEF In

\* What Take and Reject make of a packing.
LEMMA TakeIs ==
  ASSUME NEW p, NEW c, NEW why,
         p = [selected |-> p.selected, rejected |-> p.rejected, reason |-> p.reason, used |-> p.used]
  PROVE  /\ Take(p, c) = [selected |-> Append(p.selected, c), rejected |-> p.rejected,
                          reason |-> p.reason, used |-> p.used + c.item.tokens]
         /\ Reject(p, c, why) = [selected |-> p.selected, rejected |-> Append(p.rejected, c),
                                 reason |-> Append(p.reason, why), used |-> p.used]
<1>1. PICK a, b, r, u : p = [selected |-> a, rejected |-> b, reason |-> r, used |-> u]
  OBVIOUS
<1>2. p.selected = a /\ p.rejected = b /\ p.reason = r /\ p.used = u
  BY <1>1
<1>3. /\ Take(p, c) = [p EXCEPT !.selected = Append(a, c), !.used = u + c.item.tokens]
      /\ Reject(p, c, why) = [p EXCEPT !.rejected = Append(b, c), !.reason = Append(r, why)]
  BY <1>2, Zenon DEF Take, Reject
<1>4. /\ Take(p, c) = [selected |-> Append(a, c), rejected |-> b, reason |-> r,
                       used |-> u + c.item.tokens]
      /\ Reject(p, c, why) = [selected |-> a, rejected |-> Append(b, c),
                              reason |-> Append(r, why), used |-> u]
  <2> HIDE <1>2
  <2> QED BY <1>1, <1>3
<1> QED BY <1>2, <1>4

\* Pack sorts one candidate more into one of the two sequences.
LEMMA PackSplits ==
  ASSUME NEW n \in Nat, NEW seq, IsRanking(seq, n), NEW k \in 1 .. n, NEW p, NEW budget,
         Splits(p, seq, k - 1)
  PROVE  Splits(Pack(p, seq[k], budget), seq, k)
<1> DEFINE S == {seq[r] : r \in 1 .. k - 1}
           T == {seq[r] : r \in 1 .. k}
           c == seq[k]
           a == p.selected
           b == p.rejected
           q == Pack(p, c, budget)
<1>1. S \subseteq T /\ c \in T /\ c \notin S
  <2>1. \A r \in 1 .. k - 1 : seq[r].rank = r /\ r # k
    BY DEF IsRanking
  <2>2. c.rank = k /\ k \in 1 .. k
    BY DEF IsRanking
  <2>3. \A r \in 1 .. k - 1 : r \in 1 .. k
    OBVIOUS
  <2> QED BY <2>1, <2>2, <2>3
<1>2. /\ a \in Seq(S) /\ b \in Seq(S)
      /\ p = [selected |-> a, rejected |-> b, reason |-> p.reason, used |-> p.used]
      /\ \A x \in S : In(a, x) \/ In(b, x)
      /\ \A x \in S : ~(In(a, x) /\ In(b, x))
  BY DEF Splits
<1>3. ~In(a, c) /\ ~In(b, c)
  <2> HIDE DEF S, T, c, a, b
  <2>1. \A x \in Seq(S) : \A i \in DOMAIN x : x[i] \in S
    OBVIOUS
  <2> QED BY <1>1, <1>2, <2>1 DEF In
<1>4. \/ \E u : q = [selected |-> Append(a, c), rejected |-> b, reason |-> p.reason, used |-> u]
      \/ \E u : q = [selected |-> a, rejected |-> Append(b, c), reason |-> u, used |-> p.used]
  <2>1. Take(p, c) = [selected |-> Append(a, c), rejected |-> b, reason |-> p.reason,
                      used |-> p.used + c.item.tokens]
    BY <1>2, TakeIs
  <2>2. \A why : Reject(p, c, why) = [selected |-> a, rejected |-> Append(b, c),
                                      reason |-> Append(p.reason, why), used |-> p.used]
    BY <1>2, TakeIs
  <2> QED BY <2>1, <2>2 DEF Pack
<1>5. \A x \in T : x \in S \/ x = c
  <2>1. \A r \in 1 .. k : r \in 1 .. k - 1 \/ r = k
    OBVIOUS
  <2> QED BY <2>1
<1>6. a \in Seq(T) /\ b \in Seq(T)
  BY <1>1, <1>2
<1>7. /\ Append(a, c) \in Seq(T) /\ Append(b, c) \in Seq(T)
      /\ \A x : In(Append(a, c), x) <=> In(a, x) \/ x = c
      /\ \A x : In(Append(b, c), x) <=> In(b, x) \/ x = c
  <2> HIDE DEF S, T, c, a, b
  <2> QED BY <1>1, <1>2, AppendHas
<1>8. /\ q = [selected |-> q.selected, rejected |-> q.rejected, reason |-> q.reason, used |-> q.used]
      /\ q.selected \in Seq(T) /\ q.rejected \in Seq(T)
      /\ \A x \in T : In(q.selected, x) \/ In(q.rejected, x)
      /\ \A x \in T : ~(In(q.selected, x) /\ In(q.rejected, x))
  <2> HIDE DEF S, T, c, a, b, q
  <2>1. ASSUME NEW u, q = [selected |-> Append(a, c), rejected |-> b, reason |-> p.reason, used |-> u]
        PROVE  <1>8
    <3>1. /\ q.selected = Append(a, c) /\ q.rejected = b
          /\ q = [selected |-> q.selected, rejected |-> q.rejected, reason |-> q.reason, used |-> q.used]
      BY <2>1
    <3> HIDE <2>1
    <3> QED BY <3>1, <1>1, <1>2, <1>3, <1>5, <1>6, <1>7
  <2>2. ASSUME NEW u, q = [selected |-> a, rejected |-> Append(b, c), reason |-> u, used |-> p.used]
        PROVE  <1>8
    <3>1. /\ q.selected = a /\ q.rejected = Append(b, c)
          /\ q = [selected |-> q.selected, rejected |-> q.rejected, reason |-> q.reason, used |-> q.used]
      BY <2>2
    <3> HIDE <2>2
    <3> QED BY <3>1, <1>1, <1>2, <1>3, <1>5, <1>6, <1>7
  <2> QED BY <1>4, <2>1, <2>2
<1> QED BY <1>8 DEF Splits

\* All candidates are sorted into the two sequences, each into one of them.
LEMMA PackAllSplits ==
  ASSUME NEW n \in Nat, NEW seq, IsRanking(seq, n), NEW budget
  PROVE  Splits(PackAll(seq, budget), seq, n)
<1> DEFINE P(k) == PackedUpTo(seq, budget, n, k)
           T == {k \in Nat : k <= n => Splits(P(k), seq, k)}
<1>d. DOMAIN seq = 1 .. n
  BY DEF IsRanking
<1>e. \A m \in 1 .. n : P(m) = Pack(P(m - 1), seq[m], budget)
  <2> SUFFICES ASSUME NEW m \in 1 .. n PROVE P(m) = Pack(P(m - 1), seq[m], budget)
    OBVIOUS
  <2> QED BY <1>d, FoldStep
<1>1. 0 \in T
  <2>1. P(0) = Nothing
    BY <1>d, FoldIsPacking
  <2>2. Splits(Nothing, seq, 0)
    BY DEF Splits, Nothing
  <2> QED BY <2>1, <2>2
<1>2. ASSUME NEW k \in T PROVE k + 1 \in T
  <2> SUFFICES ASSUME k + 1 <= n PROVE Splits(P(k + 1), seq, k + 1)
    BY <1>2
  <2>1. k \in Nat /\ k + 1 \in 1 .. n /\ (k + 1) - 1 = k /\ Splits(P(k), seq, k)
    BY <1>2
  <2>2. P(k + 1) = Pack(P((k + 1) - 1), seq[k + 1], budget)
    <3> HIDE DEF P
    <3> QED BY <1>e, <2>1
  <2>3. Splits(P(k), seq, (k + 1) - 1)
    BY <2>1
  <2> HIDE DEF P
  <2>4. Splits(Pack(P(k), seq[k + 1], budget), seq, k + 1)
    BY <2>1, <2>3, PackSplits
  <2> QED BY <2>1, <2>2, <2>4
<1>3. Nat \subseteq T
  <2> HIDE DEF T
  <2> QED BY <1>1, <1>2, Induction DEF T
<1>4. Splits(P(n), seq, n)
  BY <1>3
<1> QED BY <1>4, <1>d, FoldIsPacking

\* What Select makes of the corpus: two sequences of its ids without an id in common.
IsSelection(result) ==
  /\ Ids(result.selected) \in Seq(CorpusIds) /\ Ids(result.rejected) \in Seq(CorpusIds)
  /\ \A i \in DOMAIN Ids(result.selected), j \in DOMAIN Ids(result.rejected) :
       Ids(result.selected)[i] # Ids(result.rejected)[j]

\* The corpus as LedgerAssumption has it.
LEMMA CorpusType ==
  /\ Len(Corpus) \in Nat /\ DOMAIN Corpus = 1 .. Len(Corpus) /\ IsScored(Corpus)
  /\ \A i \in DOMAIN Corpus : Unranked(Corpus)[i].id = Corpus[i].id
  /\ DOMAIN Unranked(Corpus) = DOMAIN Corpus
<1> DEFINE Mail == [id : STRING, score : Int, time : Int, tokens : Int]
<1>1. Corpus \in Seq(Mail)
  BY LedgerAssumption
<1>2. \A x \in Mail : [x EXCEPT !.score = 0].id = x.id
  OBVIOUS
<1>3. \A x \in Mail : x.score \in Int /\ x.time \in Int /\ x.tokens \in Int
  OBVIOUS
<1> HIDE DEF Mail
<1>4. \A i \in DOMAIN Corpus : Corpus[i] \in Mail
  BY <1>1
<1>5. Len(Corpus) \in Nat /\ DOMAIN Corpus = 1 .. Len(Corpus)
  BY <1>1
<1>6. IsScored(Corpus)
  BY <1>3, <1>4 DEF IsScored
<1>7. \A i \in DOMAIN Corpus : Unranked(Corpus)[i] = [Corpus[i] EXCEPT !.score = 0]
  BY DEF Unranked
<1>8. \A i \in DOMAIN Corpus : Unranked(Corpus)[i].id = Corpus[i].id
  BY <1>2, <1>4, <1>7
<1>9. DOMAIN Unranked(Corpus) = DOMAIN Corpus
  BY DEF Unranked
<1> QED BY <1>5, <1>6, <1>8, <1>9

\* Select, when there is no budget or no item.
LEMMA NothingFits ==
  ASSUME NEW reason
  PROVE  IsSelection([Nothing EXCEPT !.rejected = Candidates(Unranked(Corpus)), !.reason = reason])
<1> DEFINE cs == Candidates(Unranked(Corpus))
           x == [Nothing EXCEPT !.rejected = cs, !.reason = reason]
<1>1. x.selected = <<>> /\ x.rejected = cs
  BY DEF Nothing
<1>2. DOMAIN cs = 1 .. Len(Corpus) /\ \A i \in DOMAIN cs : cs[i].item.id = Corpus[i].id
  BY CorpusType DEF Candidates, Candidate
<1>3. Ids(cs) \in Seq(CorpusIds)
  <2>1. Ids(cs) \in [1 .. Len(Corpus) -> CorpusIds]
    BY <1>2, CorpusType DEF Ids, CorpusIds
  <2> QED BY <2>1, CorpusType
<1>4. Ids(<<>>) = <<>>
  BY DEF Ids
<1> HIDE DEF x, cs
<1>5. Ids(x.selected) = <<>> /\ Ids(x.rejected) = Ids(cs)
  BY <1>1, <1>4
<1>6. <<>> \in Seq(CorpusIds) /\ DOMAIN <<>> = {}
  OBVIOUS
<1>7. IsSelection(x)
  BY <1>3, <1>5, <1>6 DEF IsSelection
<1> QED BY <1>7 DEF x, cs

\* Select, when there is a budget.
LEMMA SomethingFits == IsSelection(PackAll(Candidates(Ranked(TRUE, Corpus)), Budget))
<1> DEFINE n == Len(Corpus)
           cs == Candidates(Ranked(TRUE, Corpus))
           p == PackAll(cs, Budget)
           C == {cs[r] : r \in 1 .. n}
<1>1. /\ n \in Nat /\ DOMAIN Corpus = 1 .. n
      /\ Ranked(TRUE, Corpus) = [r \in 1 .. n |-> Corpus[AtRank(Corpus, r)]]
      /\ \A r \in 1 .. n : AtRank(Corpus, r) \in 1 .. n
      /\ \A r, s \in 1 .. n : AtRank(Corpus, r) = AtRank(Corpus, s) => r = s
  BY CorpusType, RankedPermutes
<1>2. /\ DOMAIN cs = 1 .. n
      /\ \A r \in 1 .. n : cs[r] = [item |-> Corpus[AtRank(Corpus, r)], rank |-> r]
  BY <1>1 DEF Candidates, Candidate
<1> HIDE DEF n, cs, p, C
<1>3. IsRanking(cs, n)
  BY <1>2 DEF IsRanking
<1>4. Splits(p, cs, n)
  BY <1>1, <1>3, PackAllSplits DEF p
<1>5. \A c \in C : c.item.id \in CorpusIds
  BY <1>1, <1>2 DEF CorpusIds, C
<1>6. ASSUME NEW r \in 1 .. n, NEW s \in 1 .. n, cs[r].item.id = cs[s].item.id
      PROVE  r = s
  <2>1. Corpus[AtRank(Corpus, r)].id = Corpus[AtRank(Corpus, s)].id
    BY <1>2, <1>6
  <2>2. AtRank(Corpus, r) = AtRank(Corpus, s)
    BY <1>1, <2>1, LedgerAssumption
  <2> QED BY <1>1, <2>2
<1>7. p.selected \in Seq(C) /\ p.rejected \in Seq(C)
  BY <1>4 DEF Splits, C
<1>8. \A q \in Seq(C) : Ids(q) \in Seq(CorpusIds) /\ DOMAIN Ids(q) = DOMAIN q
  <2> TAKE q \in Seq(C)
  <2>1. Len(q) \in Nat /\ DOMAIN q = 1 .. Len(q) /\ \A i \in DOMAIN q : q[i] \in C
    OBVIOUS
  <2>2. Ids(q) \in [1 .. Len(q) -> CorpusIds]
    BY <1>5, <2>1 DEF Ids
  <2> QED BY <2>1, <2>2
<1>9. ASSUME NEW i \in DOMAIN p.selected, NEW j \in DOMAIN p.rejected
      PROVE  p.selected[i].item.id # p.rejected[j].item.id
  <2>0. p.selected[i] \in C /\ p.rejected[j] \in C
    BY <1>7
  <2>1. PICK r \in 1 .. n : p.selected[i] = cs[r]
    BY <2>0 DEF C
  <2>2. PICK s \in 1 .. n : p.rejected[j] = cs[s]
    BY <2>0 DEF C
  <2>3. In(p.selected, cs[r]) /\ In(p.rejected, cs[s])
    BY <2>1, <2>2 DEF In
  <2>4. r # s
    BY <1>4, <2>3 DEF Splits
  <2> QED BY <1>6, <2>1, <2>2, <2>4
<1>10. IsSelection(p)
  BY <1>7, <1>8, <1>9 DEF IsSelection, Ids
<1> QED BY <1>10 DEF p, cs

\* The selection of the ledger's corpus.
LEMMA SelectionFacts ==
  /\ Selected \in Seq(CorpusIds) /\ Rejected \in Seq(CorpusIds)
  /\ \A i \in DOMAIN Selected, j \in DOMAIN Rejected : Selected[i] # Rejected[j]
  /\ Email \notin CorpusIds
<1>1. IsSelection(Select(TRUE, Corpus, Budget))
  BY NothingFits, SomethingFits DEF Select, PackAll
<1>2. Email \notin CorpusIds
  BY LedgerAssumption DEF CorpusIds
<1> QED BY <1>1, <1>2 DEF IsSelection, Selected, Rejected

-----------------------------------------------------------------------------
(* The calls of a step.                                                    *)

\* c comes before the k-th element of q.
Precedes(q, c, k) == \E j \in 1 .. k - 1 : j \in DOMAIN q /\ q[j] = c

\* What a concatenation holds, and which calls come first.
LEMMA ConcatShape ==
  ASSUME NEW S, NEW x \in Seq(S), NEW y \in Seq(S)
  PROVE  /\ x \o y \in Seq(S)
         /\ \A k \in DOMAIN (x \o y) :
              \/ k \in DOMAIN x /\ (x \o y)[k] = x[k]
              \/ \E m \in DOMAIN y : k = Len(x) + m /\ (x \o y)[k] = y[m]
         /\ \A c : In(x \o y, c) <=> In(x, c) \/ In(y, c)
         /\ \A k \in DOMAIN x : \A c : Precedes(x, c, k) => Precedes(x \o y, c, k)
         /\ \A m \in DOMAIN y : \A c : In(x, c) \/ Precedes(y, c, m) => Precedes(x \o y, c, Len(x) + m)
<1> DEFINE z == x \o y
<1>1. /\ z \in Seq(S) /\ Len(x) \in Nat /\ Len(y) \in Nat /\ Len(z) = Len(x) + Len(y)
      /\ DOMAIN x = 1 .. Len(x) /\ DOMAIN y = 1 .. Len(y) /\ DOMAIN z = 1 .. Len(x) + Len(y)
      /\ \A k \in 1 .. Len(x) : z[k] = x[k]
      /\ \A m \in 1 .. Len(y) : z[Len(x) + m] = y[m]
  OBVIOUS
<1> HIDE DEF z
<1>2. \A k \in DOMAIN x : k \in DOMAIN z /\ k <= Len(x)
  BY <1>1
<1>3. \A m \in DOMAIN y : Len(x) + m \in DOMAIN z /\ m \in Nat /\ m >= 1
  BY <1>1
<1>4. ASSUME NEW k \in DOMAIN z, k \notin DOMAIN x
      PROVE  k - Len(x) \in DOMAIN y /\ k = Len(x) + (k - Len(x))
  BY <1>1, <1>4
<1>5. \A k \in DOMAIN z : \/ k \in DOMAIN x /\ z[k] = x[k]
                          \/ \E m \in DOMAIN y : k = Len(x) + m /\ z[k] = y[m]
  BY <1>1, <1>4
<1>6. \A c : In(z, c) <=> In(x, c) \/ In(y, c)
  <2> TAKE c
  <2>1. In(z, c) => In(x, c) \/ In(y, c)
    BY <1>5 DEF In
  <2>2. In(x, c) => In(z, c)
    BY <1>1, <1>2 DEF In
  <2>3. In(y, c) => In(z, c)
    BY <1>1, <1>3 DEF In
  <2> QED BY <2>1, <2>2, <2>3
<1>7. ASSUME NEW k \in DOMAIN x, NEW c, Precedes(x, c, k) PROVE Precedes(z, c, k)
  BY <1>1, <1>2, <1>7 DEF Precedes
<1>8. ASSUME NEW m \in DOMAIN y, NEW c, In(x, c) PROVE Precedes(z, c, Len(x) + m)
  <2>1. PICK j \in DOMAIN x : x[j] = c
    BY <1>8 DEF In
  <2>2. j \in 1 .. (Len(x) + m) - 1 /\ j \in DOMAIN z /\ z[j] = c
    BY <1>1, <1>2, <1>3, <2>1
  <2> QED BY <2>2 DEF Precedes
<1>9. ASSUME NEW m \in DOMAIN y, NEW c, Precedes(y, c, m) PROVE Precedes(z, c, Len(x) + m)
  <2>1. PICK j \in 1 .. m - 1 : j \in DOMAIN y /\ y[j] = c
    BY <1>9 DEF Precedes
  <2>2. Len(x) + j \in 1 .. (Len(x) + m) - 1 /\ Len(x) + j \in DOMAIN z /\ z[Len(x) + j] = c
    BY <1>1, <1>3, <2>1
  <2> QED BY <2>2 DEF Precedes
<1> QED BY <1>1, <1>5, <1>6, <1>7, <1>8, <1>9 DEF z

\* A place of a concatenation is one of either sequence.
LEMMA ConcatAt ==
  ASSUME NEW S, NEW x \in Seq(S), NEW y \in Seq(S), NEW k \in DOMAIN (x \o y)
  PROVE  \/ k \in DOMAIN x /\ (x \o y)[k] = x[k]
         \/ \E m \in DOMAIN y : k = Len(x) + m /\ (x \o y)[k] = y[m]
BY ConcatShape

\* What a flattened sequence holds, and which calls come first.
LEMMA FlattenOrder ==
  ASSUME NEW S, NEW ss \in Seq(Seq(S))
  PROVE  /\ FlattenSeq(ss) \in Seq(S)
         /\ \A k \in DOMAIN FlattenSeq(ss) : \E i \in DOMAIN ss : \E j \in DOMAIN ss[i] :
              /\ FlattenSeq(ss)[k] = ss[i][j]
              /\ \A c : Precedes(ss[i], c, j) => Precedes(FlattenSeq(ss), c, k)
         /\ \A i \in DOMAIN ss : \A c : In(ss[i], c) => In(FlattenSeq(ss), c)
<1> DEFINE f == FlattenSeq(ss)
<1>1. PICK g : f \in Seq(S) /\ Shaped(f, g, ss, Len(ss))
  BY FlattenShape
<1>2. /\ DOMAIN f = 1 .. Len(f) /\ DOMAIN ss = 1 .. Len(ss) /\ Len(f) \in Nat
      /\ \A i \in DOMAIN ss : ss[i] \in Seq(S)
  BY <1>1
<1>s. \A x \in Seq(S) : DOMAIN x = 1 .. Len(x) /\ Len(x) \in Nat
  OBVIOUS
<1>3. \A i \in DOMAIN ss : DOMAIN ss[i] = 1 .. Len(ss[i]) /\ Len(ss[i]) \in Nat
  BY <1>2, <1>s
<1>4. \A i \in DOMAIN ss : /\ Offset(g, i) \in Nat /\ Offset(g, i) + Len(ss[i]) <= Len(f)
                           /\ \A j \in DOMAIN ss[i] : f[Offset(g, i) + j] = ss[i][j]
  BY <1>1, <1>2, <1>3 DEF Shaped
<1>5. \A k \in DOMAIN f : \E i \in DOMAIN ss : \E j \in DOMAIN ss[i] : k = Offset(g, i) + j
  BY <1>1, <1>2, <1>3 DEF Shaped
<1> HIDE DEF f
<1>6. \A x, l, m \in Nat : \A e \in 1 .. l : x + l <= m => x + e \in 1 .. m
  OBVIOUS
<1>7. \A i \in DOMAIN ss : \A j \in DOMAIN ss[i] : Offset(g, i) + j \in DOMAIN f
  BY <1>2, <1>3, <1>4, <1>6
<1>8. ASSUME NEW k \in DOMAIN f
      PROVE  \E i \in DOMAIN ss : \E j \in DOMAIN ss[i] :
               f[k] = ss[i][j] /\ \A c : Precedes(ss[i], c, j) => Precedes(f, c, k)
  <2>1. PICK i \in DOMAIN ss : \E j \in DOMAIN ss[i] : k = Offset(g, i) + j
    BY <1>5
  <2>2. PICK j \in DOMAIN ss[i] : k = Offset(g, i) + j
    BY <2>1
  <2>3. ASSUME NEW c, Precedes(ss[i], c, j) PROVE Precedes(f, c, k)
    <3>1. PICK h \in 1 .. j - 1 : h \in DOMAIN ss[i] /\ ss[i][h] = c
      BY <2>3 DEF Precedes
    <3>2. Offset(g, i) + h \in DOMAIN f /\ f[Offset(g, i) + h] = c
      BY <1>4, <1>7, <3>1
    <3>3. Offset(g, i) \in Nat /\ j \in Nat
      BY <1>3, <1>4
    <3>4. \A x, a \in Nat : \A e \in 1 .. a - 1 : x + e \in 1 .. (x + a) - 1
      OBVIOUS
    <3>5. Offset(g, i) + h \in 1 .. k - 1
      BY <2>2, <3>3, <3>4
    <3> QED BY <3>2, <3>5 DEF Precedes
  <2> QED BY <1>4, <2>2, <2>3
<1>9. \A i \in DOMAIN ss : \A c : In(ss[i], c) => In(f, c)
  BY <1>4, <1>7 DEF In
<1> QED BY <1>1, <1>8, <1>9 DEF f

EventTypes == {"observed", "retrieved", "rejected", "selected", "consumed"}
CallSet ==
  [call : {"artifact"}, key : Keys] \cup [call : {"event"}, key : Keys, type : EventTypes]
  \cup [call : {"decision"}, response : Responses] \cup [call : {"lineage"}, item : Names]

Recorded(q, key, k) == Precedes(q, [call |-> "artifact", key |-> key], k)

\* What the k-th call of a step may be, and what was called before it.
CallShape(q, k, step, r) ==
  \/ q[k].call = "artifact"
  \/ \E key \in Keys : Recorded(q, key, k) /\
       \/ q[k] = Event(key, "observed") \/ q[k] = Event(key, "retrieved")
       \/ q[k] = Event(key, "consumed") /\ key.role = "prompt_artifact"
  \/ step = "select_context" /\ \E i \in DOMAIN Rejected :
       /\ q[k] = Event(Source(Rejected[i]), "rejected") /\ Recorded(q, Source(Rejected[i]), k)
       /\ Precedes(q, Event(Source(Rejected[i]), "retrieved"), k)
  \/ step = "select_context" /\ \E i \in DOMAIN Selected :
       /\ q[k] = Event(Source(Selected[i]), "selected") /\ Recorded(q, Source(Selected[i]), k)
       /\ Precedes(q, Event(Source(Selected[i]), "retrieved"), k)
  \/ step \in Prompting /\ \E item \in Mounted : q[k] = Event(Source(item), "consumed")
  \/ step \in Prompting /\ q[k] = Decide(r)
  \/ step \in Prompting /\ \E item \in Influential(r) :
       /\ q[k] = Credit(item) /\ Precedes(q, Event(Source(item), "consumed"), k)
       /\ Precedes(q, Decide(r), k)

\* A call keeps its shape where what came before it still does.
LEMMA ShapeMoves ==
  ASSUME NEW q, NEW k, NEW p, NEW m, NEW step, NEW r, q[k] = p[m],
         \A c : Precedes(p, c, m) => Precedes(q, c, k), CallShape(p, m, step, r)
  PROVE  CallShape(q, k, step, r)
BY DEF CallShape, Recorded

Shapely(q, step, r) == q \in Seq(CallSet) /\ \A k \in DOMAIN q : CallShape(q, k, step, r)

\* Two such sequences one after the other are one.
LEMMA ShapelyConcat ==
  ASSUME NEW x, NEW y, NEW step, NEW r, Shapely(x, step, r), y \in Seq(CallSet),
         \A m \in DOMAIN y : CallShape(y, m, step, r) \/ CallShape(x \o y, Len(x) + m, step, r)
  PROVE  Shapely(x \o y, step, r)
<1>0. x \in Seq(CallSet)
  BY DEF Shapely
<1>1. x \o y \in Seq(CallSet)
  BY <1>0, ConcatShape
<1>2. ASSUME NEW k \in DOMAIN (x \o y) PROVE CallShape(x \o y, k, step, r)
  <2>1. CASE k \in DOMAIN x /\ (x \o y)[k] = x[k]
    <3>1. \A c : Precedes(x, c, k) => Precedes(x \o y, c, k)
      BY <1>0, <2>1, ConcatShape
    <3>2. CallShape(x, k, step, r)
      BY <2>1 DEF Shapely
    <3> QED BY <2>1, <3>1, <3>2, ShapeMoves
  <2>2. CASE \E m \in DOMAIN y : k = Len(x) + m /\ (x \o y)[k] = y[m]
    <3>1. PICK m \in DOMAIN y : k = Len(x) + m /\ (x \o y)[k] = y[m]
      BY <2>2
    <3>2. \A c : Precedes(y, c, m) => Precedes(x \o y, c, Len(x) + m)
      BY <1>0, ConcatShape
    <3>3. CASE CallShape(y, m, step, r)
      BY <3>1, <3>2, <3>3, ShapeMoves
    <3>4. CASE CallShape(x \o y, Len(x) + m, step, r)
      BY <3>1, <3>4
    <3> QED BY <3>3, <3>4
  <2> QED BY <1>0, <2>1, <2>2, ConcatShape
<1> QED BY <1>1, <1>2 DEF Shapely

\* And so are several.
LEMMA ShapelyFlatten ==
  ASSUME NEW n \in Nat, NEW ss, DOMAIN ss = 1 .. n, ss = [i \in 1 .. n |-> ss[i]],
         NEW step, NEW r, \A i \in 1 .. n : Shapely(ss[i], step, r)
  PROVE  /\ Shapely(FlattenSeq(ss), step, r)
         /\ \A i \in 1 .. n : \A c : In(ss[i], c) => In(FlattenSeq(ss), c)
<1>1. ss \in Seq(Seq(CallSet))
  <2>1. \A i \in 1 .. n : ss[i] \in Seq(CallSet)
    BY DEF Shapely
  <2> QED BY <2>1
<1>2. FlattenSeq(ss) \in Seq(CallSet)
  BY <1>1, FlattenOrder
<1>3. ASSUME NEW k \in DOMAIN FlattenSeq(ss) PROVE CallShape(FlattenSeq(ss), k, step, r)
  <2>1. PICK i \in DOMAIN ss : \E j \in DOMAIN ss[i] :
          /\ FlattenSeq(ss)[k] = ss[i][j]
          /\ \A c : Precedes(ss[i], c, j) => Precedes(FlattenSeq(ss), c, k)
    BY <1>1, FlattenOrder
  <2>2. PICK j \in DOMAIN ss[i] :
          /\ FlattenSeq(ss)[k] = ss[i][j]
          /\ \A c : Precedes(ss[i], c, j) => Precedes(FlattenSeq(ss), c, k)
    BY <2>1
  <2>3. CallShape(ss[i], j, step, r)
    BY DEF Shapely
  <2> QED BY <2>2, <2>3, ShapeMoves
<1>4. \A i \in 1 .. n : \A c : In(ss[i], c) => In(FlattenSeq(ss), c)
  BY <1>1, FlattenOrder
<1> QED BY <1>2, <1>3, <1>4 DEF Shapely

\* The selected and the rejected items.
LEMMA IdFacts ==
  /\ \A i \in DOMAIN Selected : Selected[i] \in Names /\ Selected[i] \in Items /\ Selected[i] # Email
  /\ \A i \in DOMAIN Rejected : Rejected[i] \in Names /\ Rejected[i] \in Items /\ Rejected[i] # Email
  /\ \A x \in Items : (\E i \in DOMAIN Selected : Selected[i] = x) \/ (\E i \in DOMAIN Rejected : Rejected[i] = x)
  /\ Len(Selected) \in Nat /\ DOMAIN Selected = 1 .. Len(Selected)
  /\ Len(Rejected) \in Nat /\ DOMAIN Rejected = 1 .. Len(Rejected)
<1>1. CorpusIds \subseteq Names
  BY DEF Names
<1>2. \A q \in Seq(CorpusIds) : /\ Len(q) \in Nat /\ DOMAIN q = 1 .. Len(q)
                                /\ \A i \in DOMAIN q : q[i] \in CorpusIds
  OBVIOUS
<1> QED BY <1>1, <1>2, SelectionFacts DEF Items, Range

\* What is mounted is the mail or was selected.
LEMMA MountedFacts ==
  /\ IsFiniteSet(Mounted)
  /\ \A item \in Mounted : item \in Names /\ (item = Email \/ \E i \in DOMAIN Selected : item = Selected[i])
<1> DEFINE n == IF Len(Selected) < MountLimit THEN Len(Selected) ELSE MountLimit
           f == [i \in 1 .. n |-> Selected[i]]
           M == {Selected[i] : i \in 1 .. n}
<1>1. n \in Nat /\ n <= Len(Selected)
  BY IdFacts, LedgerAssumption
<1> HIDE DEF n
<1>2. IsFiniteSet(1 .. n)
  BY <1>1, FS_Interval
<1>3. f \in Surjection(1 .. n, M)
  BY DEF Surjection
<1>4. IsFiniteSet(M)
  BY <1>2, <1>3, FS_Surjection
<1>5. IsFiniteSet(M \cup {Email})
  BY <1>4, FS_AddElement
<1>6. Mounted = M \cup {Email}
  BY DEF Mounted, n
<1>7. \A i \in 1 .. n : i \in DOMAIN Selected
  BY <1>1, IdFacts
<1>8. Email \in Names
  BY DEF Names
<1> QED BY <1>5, <1>6, <1>7, <1>8, IdFacts

\* The calls are of the set of calls.
LEMMA CallTypes ==
  /\ \A x \in Names : Source(x) \in Keys /\ RecordSource(x) \in CallSet /\ Credit(x) \in CallSet
  /\ \A x \in Names : RecordSource(x) = [call |-> "artifact", key |-> Source(x)]
  /\ \A key \in Keys, t \in EventTypes : Event(key, t) \in CallSet
  /\ \A r \in Responses : Decide(r) \in CallSet
  /\ \A s \in Names, r \in Responses :
       /\ Prompt(s) \in Keys /\ Answer(s, r) \in Keys
       /\ Artifact("prompt_artifact", s, "prompt") = [call |-> "artifact", key |-> Prompt(s)]
       /\ Artifact("response_artifact", s, r) = [call |-> "artifact", key |-> Answer(s, r)]
       /\ Prompt(s).role = "prompt_artifact"
  /\ \A key \in Keys : [call |-> "artifact", key |-> key] \in CallSet
<1>1. \A x \in Names : Source(x) \in Keys /\ RecordSource(x) = [call |-> "artifact", key |-> Source(x)]
  BY DEF Keys, Source, RecordSource, Artifact
<1>2. \A x \in Names : Credit(x) \in CallSet
  BY DEF Credit, CallSet
<1>3. \A key \in Keys, t \in EventTypes : Event(key, t) \in CallSet
  BY DEF Event, CallSet
<1>4. \A r \in Responses : Decide(r) \in CallSet
  BY DEF Decide, CallSet
<1>5. \A key \in Keys : [call |-> "artifact", key |-> key] \in CallSet
  BY DEF CallSet
<1>6. \A s \in Names, r \in Responses : Prompt(s) \in Keys /\ Answer(s, r) \in Keys
  BY DEF Keys
<1>7. \A s \in Names, r \in Responses :
       /\ Artifact("prompt_artifact", s, "prompt") = [call |-> "artifact", key |-> Prompt(s)]
       /\ Artifact("response_artifact", s, r) = [call |-> "artifact", key |-> Answer(s, r)]
       /\ Prompt(s).role = "prompt_artifact"
  BY DEF Artifact, Prompt, Answer
<1> QED BY <1>1, <1>2, <1>3, <1>4, <1>5, <1>6, <1>7

\* A sequence of two.
LEMMA PairOf ==
  ASSUME NEW S, NEW a \in S, NEW b \in S
  PROVE  /\ <<a, b>> \in Seq(S) /\ DOMAIN <<a, b>> = {1, 2} /\ <<a, b>>[1] = a /\ <<a, b>>[2] = b
         /\ In(<<a, b>>, a) /\ In(<<a, b>>, b) /\ Precedes(<<a, b>>, a, 2)
<1>1. <<a, b>> \in Seq(S) /\ DOMAIN <<a, b>> = {1, 2} /\ <<a, b>>[1] = a /\ <<a, b>>[2] = b
  OBVIOUS
<1> QED BY <1>1 DEF In, Precedes

\* The calls for a candidate.
LEMMA RetrieveShape ==
  ASSUME NEW item \in Names, NEW step, NEW r
  PROVE  /\ Shapely(RetrieveCalls(item), step, r)
         /\ In(RetrieveCalls(item), RecordSource(item))
         /\ In(RetrieveCalls(item), Event(Source(item), "retrieved"))
<1> DEFINE a == RecordSource(item)
           b == Event(Source(item), "retrieved")
           q == RetrieveCalls(item)
<1>1. a \in CallSet /\ b \in CallSet /\ a = [call |-> "artifact", key |-> Source(item)] /\ Source(item) \in Keys
  BY CallTypes DEF EventTypes
<1>2. q = <<a, b>>
  BY DEF RetrieveCalls
<1> HIDE DEF a, b, q
<1>3. /\ q \in Seq(CallSet) /\ DOMAIN q = {1, 2} /\ q[1] = a /\ q[2] = b /\ In(q, a) /\ In(q, b)
      /\ Precedes(q, a, 2)
  BY <1>1, <1>2, PairOf
<1>4. CallShape(q, 1, step, r)
  BY <1>1, <1>3 DEF CallShape
<1>5. CallShape(q, 2, step, r)
  BY <1>1, <1>3 DEF CallShape, Recorded, b
<1> QED BY <1>3, <1>4, <1>5 DEF Shapely, a, b, q

\* The calls for one that is rejected.
LEMMA RejectShape ==
  ASSUME NEW i \in DOMAIN Rejected, NEW r
  PROVE  LET q == Append(RetrieveCalls(Rejected[i]), Event(Source(Rejected[i]), "rejected"))
         IN  /\ Shapely(q, "select_context", r)
             /\ In(q, RecordSource(Rejected[i]))
             /\ In(q, Event(Source(Rejected[i]), "retrieved"))
<1> DEFINE item == Rejected[i]
           a == RecordSource(item)
           b == Event(Source(item), "retrieved")
           c == Event(Source(item), "rejected")
           q == Append(RetrieveCalls(item), c)
<1>0. item \in Names
  BY IdFacts
<1>1. /\ a \in CallSet /\ b \in CallSet /\ c \in CallSet
      /\ a = [call |-> "artifact", key |-> Source(item)] /\ Source(item) \in Keys
  BY <1>0, CallTypes DEF EventTypes
<1>2. q = Append(<<a, b>>, c)
  BY DEF RetrieveCalls
<1>e. c = Event(Source(Rejected[i]), "rejected") /\ b = Event(Source(Rejected[i]), "retrieved")
  OBVIOUS
<1> HIDE DEF a, b, c, q
<1>3. /\ q \in Seq(CallSet) /\ DOMAIN q = {1, 2, 3} /\ q[1] = a /\ q[2] = b /\ q[3] = c
  <2>1. \A s \in Seq(CallSet) : \A e \in CallSet :
          /\ Append(s, e) \in Seq(CallSet) /\ DOMAIN Append(s, e) = 1 .. Len(s) + 1
          /\ \A k \in 1 .. Len(s) : Append(s, e)[k] = s[k]
          /\ Append(s, e)[Len(s) + 1] = e
    OBVIOUS
  <2>2. <<a, b>> \in Seq(CallSet) /\ Len(<<a, b>>) = 2 /\ <<a, b>>[1] = a /\ <<a, b>>[2] = b
    BY <1>1
  <2>3. 1 .. 2 + 1 = {1, 2, 3} /\ 1 .. 2 = {1, 2}
    OBVIOUS
  <2> QED BY <1>1, <1>2, <2>1, <2>2, <2>3
<1>4. In(q, a) /\ In(q, b) /\ Precedes(q, a, 2) /\ Precedes(q, a, 3) /\ Precedes(q, b, 3)
  BY <1>3 DEF In, Precedes
<1>5. CallShape(q, 1, "select_context", r)
  BY <1>1, <1>3 DEF CallShape
<1>6. CallShape(q, 2, "select_context", r)
  BY <1>1, <1>3, <1>4 DEF CallShape, Recorded, b
<1>7. CallShape(q, 3, "select_context", r)
  <2>1. q[3] = Event(Source(Rejected[i]), "rejected") /\ Recorded(q, Source(Rejected[i]), 3)
        /\ Precedes(q, Event(Source(Rejected[i]), "retrieved"), 3)
    BY <1>1, <1>3, <1>4, <1>e DEF Recorded
  <2> QED BY <2>1 DEF CallShape
<1> QED BY <1>3, <1>4, <1>5, <1>6, <1>7 DEF Shapely, a, b, c, q

\* The calls of ingest_email.
LEMMA IngestShape ==
  ASSUME NEW r
  PROVE  /\ Shapely(IngestCalls, "ingest_email", r)
         /\ In(IngestCalls, RecordSource(Email))
<1> DEFINE a == RecordSource(Email)
           b == Event(Source(Email), "observed")
           q == IngestCalls
<1>0. Email \in Names
  BY DEF Names
<1>1. a \in CallSet /\ b \in CallSet /\ a = [call |-> "artifact", key |-> Source(Email)] /\ Source(Email) \in Keys
  BY <1>0, CallTypes DEF EventTypes
<1>2. q = <<a, b>>
  BY DEF IngestCalls
<1> HIDE DEF a, b, q
<1>3. /\ q \in Seq(CallSet) /\ DOMAIN q = {1, 2} /\ q[1] = a /\ q[2] = b /\ In(q, a)
      /\ Precedes(q, a, 2)
  BY <1>1, <1>2, PairOf
<1>4. CallShape(q, 1, "ingest_email", r)
  BY <1>1, <1>3 DEF CallShape
<1>5. CallShape(q, 2, "ingest_email", r)
  BY <1>1, <1>3 DEF CallShape, Recorded, b
<1> QED BY <1>3, <1>4, <1>5 DEF Shapely, a, q

\* The calls of select_context: every item is recorded and retrieved, then the selected selected.
LEMMA SelectShape ==
  ASSUME NEW r
  PROVE  /\ Shapely(SelectCalls, "select_context", r)
         /\ \A i \in DOMAIN Selected :
              /\ In(SelectCalls, RecordSource(Selected[i]))
              /\ In(SelectCalls, Event(Source(Selected[i]), "retrieved"))
              /\ In(SelectCalls, Event(Source(Selected[i]), "selected"))
         /\ \A i \in DOMAIN Rejected :
              /\ In(SelectCalls, RecordSource(Rejected[i]))
              /\ In(SelectCalls, Event(Source(Rejected[i]), "retrieved"))
<1> DEFINE s == "select_context"
           A == [i \in DOMAIN Selected |-> RetrieveCalls(Selected[i])]
           B == [i \in DOMAIN Rejected |->
                  Append(RetrieveCalls(Rejected[i]), Event(Source(Rejected[i]), "rejected"))]
           a == FlattenSeq(A)
           b == FlattenSeq(B)
           c == [i \in DOMAIN Selected |-> Event(Source(Selected[i]), "selected")]
           n == Len(Selected)
           m == Len(Rejected)
<1>1. n \in Nat /\ DOMAIN Selected = 1 .. n /\ m \in Nat /\ DOMAIN Rejected = 1 .. m
  BY IdFacts
<1>2. DOMAIN A = 1 .. n /\ A = [i \in 1 .. n |-> A[i]] /\ DOMAIN B = 1 .. m /\ B = [i \in 1 .. m |-> B[i]]
  BY <1>1
<1>3. \A i \in 1 .. n : /\ Shapely(A[i], s, r) /\ In(A[i], RecordSource(Selected[i]))
                        /\ In(A[i], Event(Source(Selected[i]), "retrieved"))
  BY <1>1, IdFacts, RetrieveShape
<1>4. \A i \in 1 .. m : /\ Shapely(B[i], s, r) /\ In(B[i], RecordSource(Rejected[i]))
                        /\ In(B[i], Event(Source(Rejected[i]), "retrieved"))
  BY <1>1, RejectShape
<1>5. SelectCalls = (a \o b) \o c
  BY DEF SelectCalls
<1>c. /\ c \in Seq(CallSet) /\ DOMAIN c = DOMAIN Selected
      /\ \A i \in DOMAIN Selected : c[i] = Event(Source(Selected[i]), "selected")
  <2>1. \A i \in 1 .. n : Event(Source(Selected[i]), "selected") \in CallSet
    BY <1>1, IdFacts, CallTypes DEF EventTypes
  <2>2. c \in [1 .. n -> CallSet]
    BY <1>1, <2>1
  <2> QED BY <1>1, <2>2
<1> HIDE DEF A, B, c, n, m
<1>6. Shapely(a, s, r) /\ \A i \in 1 .. n : \A x : In(A[i], x) => In(a, x)
  BY <1>1, <1>2, <1>3, ShapelyFlatten
<1>7. Shapely(b, s, r) /\ \A i \in 1 .. m : \A x : In(B[i], x) => In(b, x)
  BY <1>1, <1>2, <1>4, ShapelyFlatten
<1> HIDE DEF a, b
<1>8. a \in Seq(CallSet) /\ b \in Seq(CallSet)
  BY <1>6, <1>7 DEF Shapely
<1>9. \A k \in DOMAIN b : CallShape(b, k, s, r)
  BY <1>7 DEF Shapely
<1>10. Shapely(a \o b, s, r)
  BY <1>6, <1>8, <1>9, ShapelyConcat
<1>11. a \o b \in Seq(CallSet) /\ \A x : In(a \o b, x) <=> In(a, x) \/ In(b, x)
  BY <1>8, ConcatShape
<1> DEFINE d == a \o b
<1> HIDE DEF d
<1>12. d \in Seq(CallSet) /\ Shapely(d, s, r) /\ SelectCalls = d \o c
  BY <1>5, <1>10, <1>11 DEF d
<1>13. \A i \in 1 .. n : In(d, RecordSource(Selected[i])) /\ In(d, Event(Source(Selected[i]), "retrieved"))
  BY <1>3, <1>6, <1>11 DEF d
<1>14. \A i \in 1 .. m : In(d, RecordSource(Rejected[i])) /\ In(d, Event(Source(Rejected[i]), "retrieved"))
  BY <1>4, <1>7, <1>11 DEF d
<1>15. /\ \A x : In(d \o c, x) <=> In(d, x) \/ In(c, x)
       /\ \A i \in DOMAIN c : \A x : In(d, x) => Precedes(d \o c, x, Len(d) + i)
  BY <1>12, <1>c, ConcatShape
<1>16. \A i \in DOMAIN c : (d \o c)[Len(d) + i] = c[i]
  BY <1>12, <1>c
<1>17. ASSUME NEW i \in DOMAIN c PROVE CallShape(d \o c, Len(d) + i, s, r)
  <2>1. /\ (d \o c)[Len(d) + i] = Event(Source(Selected[i]), "selected")
        /\ Precedes(d \o c, RecordSource(Selected[i]), Len(d) + i)
        /\ Precedes(d \o c, Event(Source(Selected[i]), "retrieved"), Len(d) + i)
    BY <1>1, <1>c, <1>13, <1>15, <1>16
  <2>2. RecordSource(Selected[i]) = [call |-> "artifact", key |-> Source(Selected[i])]
    BY <1>c, IdFacts, CallTypes
  <2> QED BY <1>c, <2>1, <2>2 DEF CallShape, Recorded
<1>18. Shapely(d \o c, s, r)
  BY <1>12, <1>c, <1>17, ShapelyConcat
<1>19. \A i \in DOMAIN Selected : In(c, Event(Source(Selected[i]), "selected"))
  BY <1>c DEF In
<1> QED BY <1>1, <1>12, <1>13, <1>14, <1>15, <1>18, <1>19

\* The calls of a step that asks the model: all that is mounted is consumed, the decision is
\* recorded and credited with each source the response names and was given.
LEMMA PromptShape ==
  ASSUME NEW step \in Prompting, NEW r \in Responses
  PROVE  LET q == ConsumeCalls \o ModelCalls(step, r)
         IN  /\ Shapely(q, step, r)
             /\ \A item \in Mounted : In(q, Event(Source(item), "consumed"))
             /\ In(q, Decide(r))
             /\ \A item \in Influential(r) : In(q, Credit(item))
<1> DEFINE ms == SetToSeq(Mounted)
           cs == SetToSeq(Influential(r))
           x == ConsumeCalls
           credits == [i \in DOMAIN cs |-> Credit(cs[i])]
           a1 == Artifact("prompt_artifact", step, "prompt")
           a2 == Artifact("response_artifact", step, r)
           e1 == Event(Prompt(step), "consumed")
           e2 == Event(Answer(step, r), "observed")
           h == <<a1, a2, e1, e2, Decide(r)>>
           y == h \o credits
<1>0. step \in Names
  BY DEF Names, Prompting
<1>1. /\ a1 \in CallSet /\ a2 \in CallSet /\ e1 \in CallSet /\ e2 \in CallSet /\ Decide(r) \in CallSet
      /\ a1 = [call |-> "artifact", key |-> Prompt(step)]
      /\ a2 = [call |-> "artifact", key |-> Answer(step, r)]
      /\ Prompt(step) \in Keys /\ Answer(step, r) \in Keys /\ Prompt(step).role = "prompt_artifact"
  BY <1>0, CallTypes DEF EventTypes
<1>2. ModelCalls(step, r) = y
  BY DEF ModelCalls
<1>3. IsFiniteSet(Influential(r)) /\ Influential(r) \subseteq Mounted
  <2>1. Influential(r) \subseteq Mounted
    BY DEF Influential
  <2> QED BY <2>1, MountedFacts, FS_Subset
<1>4. /\ ms \in Seq(Mounted) /\ \A item \in Mounted : \E i \in DOMAIN ms : ms[i] = item
      /\ cs \in Seq(Influential(r)) /\ \A item \in Influential(r) : \E i \in DOMAIN cs : cs[i] = item
  BY <1>3, MountedFacts, SetToSeqLists
<1>m. x = [i \in DOMAIN ms |-> Event(Source(ms[i]), "consumed")]
  BY DEF ConsumeCalls
<1> HIDE DEF ms, cs, x
<1>5. /\ DOMAIN ms = 1 .. Len(ms) /\ Len(ms) \in Nat /\ \A i \in DOMAIN ms : ms[i] \in Mounted
      /\ DOMAIN cs = 1 .. Len(cs) /\ Len(cs) \in Nat /\ \A i \in DOMAIN cs : cs[i] \in Influential(r)
  BY <1>4
<1>6. \A item \in Mounted : Event(Source(item), "consumed") \in CallSet /\ Credit(item) \in CallSet
  BY MountedFacts, CallTypes DEF EventTypes
<1>7. /\ x \in Seq(CallSet) /\ DOMAIN x = DOMAIN ms
      /\ \A i \in DOMAIN ms : x[i] = Event(Source(ms[i]), "consumed")
  <2>1. x \in [1 .. Len(ms) -> CallSet]
    BY <1>5, <1>6, <1>m
  <2> QED BY <1>5, <1>m, <2>1
<1>8. /\ credits \in Seq(CallSet) /\ DOMAIN credits = DOMAIN cs
      /\ \A i \in DOMAIN cs : credits[i] = Credit(cs[i])
  <2>1. credits \in [1 .. Len(cs) -> CallSet]
    BY <1>3, <1>5, <1>6
  <2> QED BY <1>5, <2>1
<1> HIDE DEF credits
<1>9. \A item \in Mounted : In(x, Event(Source(item), "consumed"))
  <2> TAKE item \in Mounted
  <2>1. PICK i \in DOMAIN ms : ms[i] = item
    BY <1>4
  <2> QED BY <1>7, <2>1 DEF In
<1>10. Shapely(x, step, r)
  <2>1. \A k \in DOMAIN x : x[k] = Event(Source(ms[k]), "consumed") /\ ms[k] \in Mounted
    BY <1>5, <1>7
  <2> QED BY <1>7, <2>1 DEF Shapely, CallShape
<1>11. /\ h \in Seq(CallSet) /\ DOMAIN h = 1 .. 5 /\ Len(h) = 5 /\ h[1] = a1 /\ h[2] = a2 /\ h[3] = e1
       /\ h[4] = e2 /\ h[5] = Decide(r)
  <2> HIDE DEF a1, a2, e1, e2
  <2> QED BY <1>1
<1>12. In(h, Decide(r)) /\ Precedes(h, a1, 3) /\ Precedes(h, a2, 4)
  <2>1. 5 \in 1 .. 5 /\ 1 \in 1 .. 3 - 1 /\ 2 \in 1 .. 4 - 1 /\ 1 \in 1 .. 5 /\ 2 \in 1 .. 5
    OBVIOUS
  <2> HIDE DEF a1, a2, h
  <2> QED BY <1>11, <2>1 DEF In, Precedes
<1>13. \A k \in 1 .. 5 : CallShape(h, k, step, r)
  <2>1. CallShape(h, 1, step, r)
    <3>1. h[1].call = "artifact"
      BY <1>1, <1>11
    <3> QED BY <3>1 DEF CallShape
  <2>2. CallShape(h, 2, step, r)
    <3>1. h[2].call = "artifact"
      BY <1>1, <1>11
    <3> QED BY <3>1 DEF CallShape
  <2>3. CallShape(h, 3, step, r)
    <3>1. h[3] = Event(Prompt(step), "consumed") /\ Recorded(h, Prompt(step), 3)
      BY <1>1, <1>11, <1>12 DEF Recorded
    <3> HIDE DEF h
    <3> QED BY <1>1, <3>1 DEF CallShape
  <2>4. CallShape(h, 4, step, r)
    <3>1. h[4] = Event(Answer(step, r), "observed") /\ Recorded(h, Answer(step, r), 4)
      BY <1>1, <1>11, <1>12 DEF Recorded
    <3> HIDE DEF h
    <3> QED BY <1>1, <3>1 DEF CallShape
  <2>5. CallShape(h, 5, step, r)
    <3>1. h[5] = Decide(r)
      BY <1>11
    <3> HIDE DEF h
    <3> QED BY <3>1 DEF CallShape
  <2>6. \A k \in 1 .. 5 : k \in {1, 2, 3, 4, 5}
    OBVIOUS
  <2> HIDE DEF h
  <2> QED BY <2>1, <2>2, <2>3, <2>4, <2>5, <2>6
<1> HIDE DEF h, a1, a2, e1, e2
<1>14. /\ y \in Seq(CallSet)
       /\ \A k \in DOMAIN y : \/ k \in DOMAIN h /\ y[k] = h[k]
                              \/ \E j \in DOMAIN credits : k = Len(h) + j /\ y[k] = credits[j]
       /\ \A c : In(y, c) <=> In(h, c) \/ In(credits, c)
       /\ \A k \in DOMAIN h : \A c : Precedes(h, c, k) => Precedes(y, c, k)
       /\ \A j \in DOMAIN credits : \A c : In(h, c) => Precedes(y, c, Len(h) + j)
  <2>0. h \in Seq(CallSet) /\ credits \in Seq(CallSet)
    BY <1>8, <1>11
  <2>1. Len(h) = 5 /\ h \in Seq(CallSet) /\ credits \in Seq(CallSet)
    BY <1>8, <1>11
  <2>2. /\ h \o credits \in Seq(CallSet)
        /\ \A k \in DOMAIN (h \o credits) :
             \/ k \in DOMAIN h /\ (h \o credits)[k] = h[k]
             \/ \E j \in DOMAIN credits : k = Len(h) + j /\ (h \o credits)[k] = credits[j]
    BY <2>0, ConcatAt
  <2>3. \A c : In(h \o credits, c) <=> In(h, c) \/ In(credits, c)
    BY <2>1, ConcatShape
  <2>4. \A k \in DOMAIN h : \A c : Precedes(h, c, k) => Precedes(h \o credits, c, k)
    BY <2>1, ConcatShape
  <2>5. \A j \in DOMAIN credits : \A c : In(h, c) => Precedes(h \o credits, c, Len(h) + j)
    BY <2>1, ConcatShape
  <2> QED BY <2>1, <2>2, <2>3, <2>4, <2>5
<1> HIDE DEF y
<1>15. /\ x \o y \in Seq(CallSet)
       /\ \A c : In(x \o y, c) <=> In(x, c) \/ In(y, c)
       /\ \A k \in DOMAIN y : \A c : In(x, c) \/ Precedes(y, c, k) => Precedes(x \o y, c, Len(x) + k)
  BY <1>7, <1>14, ConcatShape
<1>16. \A k \in DOMAIN y : (x \o y)[Len(x) + k] = y[k]
  BY <1>7, <1>14
<1>17. ASSUME NEW k \in DOMAIN y
       PROVE  CallShape(y, k, step, r) \/ CallShape(x \o y, Len(x) + k, step, r)
  <2>1. CASE k \in DOMAIN h /\ y[k] = h[k]
    <3>1. CallShape(h, k, step, r)
      BY <1>11, <1>13, <2>1
    <3>2. \A c : Precedes(h, c, k) => Precedes(y, c, k)
      BY <1>14, <2>1
    <3> QED BY <2>1, <3>1, <3>2, ShapeMoves
  <2>2. CASE \E j \in DOMAIN credits : k = Len(h) + j /\ y[k] = credits[j]
    <3>1. PICK j \in DOMAIN credits : k = Len(h) + j /\ y[k] = credits[j]
      BY <2>2
    <3>2. cs[j] \in Influential(r) /\ y[k] = Credit(cs[j]) /\ cs[j] \in Mounted
      BY <1>3, <1>5, <1>8, <3>1
    <3>3. Precedes(y, Decide(r), k)
      BY <1>12, <1>14, <3>1
    <3>4. /\ Precedes(x \o y, Decide(r), Len(x) + k)
          /\ Precedes(x \o y, Event(Source(cs[j]), "consumed"), Len(x) + k)
          /\ (x \o y)[Len(x) + k] = Credit(cs[j])
      BY <1>9, <1>15, <1>16, <3>2, <3>3
    <3> QED BY <3>2, <3>4 DEF CallShape
  <2> QED BY <1>14, <2>1, <2>2
<1>18. Shapely(x \o y, step, r)
  BY <1>10, <1>14, <1>17, ShapelyConcat
<1>19. \A item \in Influential(r) : In(credits, Credit(item))
  <2> TAKE item \in Influential(r)
  <2>1. PICK i \in DOMAIN cs : cs[i] = item
    BY <1>4
  <2> QED BY <1>8, <2>1 DEF In
<1>20. In(y, Decide(r)) /\ \A item \in Influential(r) : In(y, Credit(item))
  BY <1>12, <1>14, <1>19
<1> QED BY <1>2, <1>9, <1>15, <1>18, <1>20 DEF x

-----------------------------------------------------------------------------
(* The inductive invariant, conjunct by conjunct.                          *)

\* The four steps.
LEMMA StepOrderIs ==
  /\ StepOrder[1] = "ingest_email" /\ StepOrder[2] = "select_context"
  /\ StepOrder[3] = "triage_llm" /\ StepOrder[4] = "draft_reply"
  /\ \A m, n \in 1 .. 4 : StepOrder[m] = StepOrder[n] => m = n
  /\ \A n \in 1 .. 4 : StepOrder[n] \in StepNames /\ StepOrder[n] \in Names
<1>1. /\ StepOrder[1] = "ingest_email" /\ StepOrder[2] = "select_context"
      /\ StepOrder[3] = "triage_llm" /\ StepOrder[4] = "draft_reply"
  BY DEF StepOrder
<1>2. \A n \in 1 .. 4 : n \in {1, 2, 3, 4}
  OBVIOUS
<1> QED BY <1>1, <1>2 DEF StepNames, Names

\* Numbers up to four.
LEMMA UpToFour ==
  ASSUME NEW x \in Nat, x <= 4
  PROVE  /\ x \in {0, 1, 2, 3, 4} /\ x \in 0 .. 4 /\ \A n \in 1 .. x : n \in 1 .. 4
         /\ x < 4 => x \in {0, 1, 2, 3} /\ x + 1 \in 1 .. 4
OBVIOUS

\* What LedgerTypes says, in the form the proofs use it.
LEMMA ResultsFacts ==
  ASSUME LedgerTypes
  PROVE  /\ Len(results) \in 0 .. 4 /\ Len(results) \in Nat /\ DOMAIN results = 1 .. Len(results)
         /\ \A n \in DOMAIN results : n \in 1 .. 4 /\ results[n].response \in Responses
         /\ Len(results) < 4 => 
              /\ Step = StepOrder[Len(results) + 1] /\ Len(results) + 1 \in 1 .. 4
              /\ Len(results) \in {0, 1, 2, 3}
         /\ Len(decisions) \in Nat /\ DOMAIN decisions = 1 .. Len(decisions)
         /\ \A d \in DOMAIN decisions :
              /\ decisions[d] \in [step : StepNames, response : Responses, result : Nat]
              /\ d \in Nat /\ d <= Len(decisions)
<1> DEFINE R == [step : StepNames, response : Responses]
           D == [step : StepNames, response : Responses, result : Nat]
<1>1. results \in Seq(R) /\ decisions \in Seq(D) /\ Len(results) <= 4
  BY DEF LedgerTypes
<1>2. \A x \in R : x.response \in Responses
  OBVIOUS
<1> HIDE DEF R, D
<1>3. /\ Len(results) \in 0 .. 4 /\ Len(results) \in Nat /\ DOMAIN results = 1 .. Len(results)
      /\ \A n \in DOMAIN results : n \in 1 .. 4 /\ results[n] \in R
  <2>1. \A q \in Seq(R) : Len(q) \in Nat /\ DOMAIN q = 1 .. Len(q) /\ \A n \in DOMAIN q : q[n] \in R
    OBVIOUS
  <2>2. Len(results) \in 0 .. 4 /\ \A n \in 1 .. Len(results) : n \in 1 .. 4
    BY <1>1, <2>1, UpToFour
  <2> QED BY <1>1, <2>1, <2>2
<1>4. /\ Len(decisions) \in Nat /\ DOMAIN decisions = 1 .. Len(decisions)
      /\ \A d \in DOMAIN decisions : decisions[d] \in D /\ d \in Nat /\ d <= Len(decisions)
  BY <1>1
<1>5. Len(results) < 4 => /\ Step = StepOrder[Len(results) + 1] /\ Len(results) + 1 \in 1 .. 4
                          /\ Len(results) \in {0, 1, 2, 3}
  BY <1>1, <1>3, UpToFour DEF Step
<1> QED BY <1>2, <1>3, <1>4, <1>5 DEF D

\* A step without calls.
LEMMA EmptyShape == \A step, r : Shapely(<<>>, step, r)
BY DEF Shapely

\* The calls of the running step.
LEMMA CallsFacts ==
  ASSUME LedgerTypes, Len(results) < 4
  PROVE  /\ Shapely(Calls, Step, response)
         /\ Len(results) = 0 => In(Calls, RecordSource(Email))
         /\ Len(results) = 1 =>
              /\ \A i \in DOMAIN Selected :
                   /\ In(Calls, RecordSource(Selected[i]))
                   /\ In(Calls, Event(Source(Selected[i]), "retrieved"))
                   /\ In(Calls, Event(Source(Selected[i]), "selected"))
              /\ \A i \in DOMAIN Rejected :
                   /\ In(Calls, RecordSource(Rejected[i]))
                   /\ In(Calls, Event(Source(Rejected[i]), "retrieved"))
         /\ Prompted(Len(results) + 1) =>
              /\ \A item \in Mounted : In(Calls, Event(Source(item), "consumed"))
              /\ In(Calls, Decide(response))
              /\ \A item \in Influential(response) : In(Calls, Credit(item))
         /\ Step \in Prompting => Len(results) >= 2
         /\ Step = "select_context" => Len(results) = 1
<1> USE DEF Prompted
<1>0. Len(results) \in {0, 1, 2, 3} /\ Step = StepOrder[Len(results) + 1] /\ response \in Responses
  BY ResultsFacts DEF LedgerTypes
<1>1. CASE Len(results) = 0
  <2>1. Step = "ingest_email"
    BY <1>0, <1>1, StepOrderIs
  <2>2. Calls = IngestCalls
    BY <2>1 DEF Calls
  <2> QED BY <1>1, <2>1, <2>2, IngestShape DEF Prompting
<1>2. CASE Len(results) = 1
  <2>1. Step = "select_context"
    BY <1>0, <1>2, StepOrderIs
  <2>2. Calls = SelectCalls
    BY <2>1 DEF Calls
  <2> QED BY <1>2, <2>1, <2>2, SelectShape DEF Prompting
<1>3. CASE Len(results) = 2
  <2>1. Step = "triage_llm" /\ Step \in Prompting
    BY <1>0, <1>3, StepOrderIs DEF Prompting
  <2>2. Calls = ConsumeCalls \o ModelCalls(Step, response)
    BY <2>1 DEF Calls
  <2> QED BY <1>0, <1>3, <2>1, <2>2, PromptShape
<1>4. CASE Len(results) = 3
  <2>1. Step = "draft_reply" /\ Step \in Prompting
    BY <1>0, <1>4, StepOrderIs DEF Prompting
  <2>2. Calls = IF DraftWanted THEN ConsumeCalls \o ModelCalls(Step, response) ELSE <<>>
    BY <2>1 DEF Calls
  <2>3. CASE DraftWanted
    BY <1>0, <1>4, <2>1, <2>2, <2>3, PromptShape
  <2>4. CASE ~DraftWanted
    BY <1>4, <2>1, <2>2, <2>4, EmptyShape
  <2> QED BY <2>3, <2>4
<1> QED BY <1>0, <1>1, <1>2, <1>3, <1>4

\* The decision or lineage row that is announced by an event.
OfDecision(d) == [kind |-> "decision_recorded", decision |-> d]
OfRow(l) == [kind |-> "lineage_recorded", row |-> l]

\* The fields of a call.
LEMMA CallKinds ==
  /\ \A key, type : /\ Event(key, type).call = "event" /\ Event(key, type).key = key
                    /\ Event(key, type).type = type
  /\ \A r : Decide(r).call = "decision" /\ Decide(r).response = r
  /\ \A item : Credit(item).call = "lineage" /\ Credit(item).item = item
  /\ \A key : [call |-> "artifact", key |-> key].call = "artifact" /\ [call |-> "artifact", key |-> key].key = key
BY DEF Event, Decide, Credit

\* The call a running step makes next.
LEMMA CallNow ==
  ASSUME LedgerTypes, StepProgress, Running, at < Len(Calls)
  PROVE  /\ Call \in CallSet /\ at + 1 \in DOMAIN Calls /\ CallShape(Calls, at + 1, Step, response)
         /\ \A c : Precedes(Calls, c, at + 1) => Done(c)
<1>1. at \in Nat /\ Len(results) < 4 /\ at >= 0
  BY DEF Running, LedgerTypes, StepOrder
<1>2. Calls \in Seq(CallSet) /\ \A k \in DOMAIN Calls : CallShape(Calls, k, Step, response)
  BY <1>1, CallsFacts DEF Shapely
<1>3. Len(Calls) \in Nat /\ DOMAIN Calls = 1 .. Len(Calls)
  BY <1>2
<1>4. at + 1 \in DOMAIN Calls
  BY <1>1, <1>3
<1>5. Call \in CallSet
  BY <1>2, <1>4 DEF Call
<1>6. \A c : Precedes(Calls, c, at + 1) => Done(c)
  <2> TAKE c
  <2> HAVE Precedes(Calls, c, at + 1)
  <2>1. PICK j \in 1 .. (at + 1) - 1 : Calls[j] = c
    BY DEF Precedes
  <2>2. j \in 1 .. at
    BY <1>1
  <2> QED BY <1>1, <2>1, <2>2 DEF StepProgress
<1> QED BY <1>2, <1>4, <1>5, <1>6

\* An artifact call.
LEMMA ArtifactNow ==
  ASSUME LedgerTypes, StepProgress, Calling("artifact")
  PROVE  Call.key \in Keys
<1>1. Call \in CallSet /\ Call.call = "artifact"
  BY CallNow DEF Calling
<1> QED BY <1>1 DEF CallSet

\* A decision call.
LEMMA DecisionNow ==
  ASSUME LedgerTypes, StepProgress, Calling("decision")
  PROVE  Call.response = response /\ Step \in Prompting
<1>1. CallShape(Calls, at + 1, Step, response) /\ Call.call = "decision" /\ Call = Calls[at + 1]
  BY CallNow DEF Calling, Call
<1> QED BY <1>1, CallKinds DEF CallShape

\* A lineage call comes after the decision and after its source was consumed.
LEMMA LineageNow ==
  ASSUME LedgerTypes, StepProgress, Calling("lineage")
  PROVE  /\ Step \in Prompting /\ Call.item \in Influential(response)
         /\ DecisionOf(Step, response) # {}
         /\ [step |-> Step, key |-> Source(Call.item), type |-> "consumed"] \in events
<1>1. /\ CallShape(Calls, at + 1, Step, response) /\ Call.call = "lineage" /\ Call = Calls[at + 1]
      /\ \A c : Precedes(Calls, c, at + 1) => Done(c)
  BY CallNow DEF Calling, Call
<1>2. PICK item \in Influential(response) :
        /\ Step \in Prompting
        /\ Call = Credit(item) /\ Precedes(Calls, Event(Source(item), "consumed"), at + 1)
        /\ Precedes(Calls, Decide(response), at + 1)
  BY <1>1, CallKinds DEF CallShape
<1>3. Done(Event(Source(item), "consumed")) /\ Done(Decide(response)) /\ Call.item = item
  BY <1>1, <1>2, CallKinds
<1> QED BY <1>2, <1>3, CallKinds DEF Done

\* What an event call adds, and what is in the ledger before it.
LEMMA EventNow ==
  ASSUME LedgerTypes, StepProgress, Calling("event")
  PROVE  /\ Call.key \in artifacts \/ \E item \in Mounted : Call.key = Source(item) /\ Len(results) >= 2
         /\ Call.type \in {"selected", "rejected"} =>
              /\ Step = "select_context"
              /\ [step |-> Step, key |-> Call.key, type |-> "retrieved"] \in events
         /\ Call.type = "selected" => \E i \in DOMAIN Selected : Call.key = Source(Selected[i])
         /\ Call.type = "rejected" => \E i \in DOMAIN Rejected : Call.key = Source(Rejected[i])
         /\ Call.type = "consumed" /\ Call.key.role = "source_artifact" =>
              Len(results) >= 2 /\ \E item \in Mounted : Call.key = Source(item)
<1>1. /\ CallShape(Calls, at + 1, Step, response) /\ Call.call = "event" /\ Call = Calls[at + 1]
      /\ \A c : Precedes(Calls, c, at + 1) => Done(c) /\ Len(results) < 4
  BY CallNow DEF Calling, Call, Running, StepOrder
<1>2. Step \in Prompting => Len(results) >= 2
  BY <1>1, CallsFacts
<1>3. \A key : Recorded(Calls, key, at + 1) => key \in artifacts
  <2> TAKE key
  <2> DEFINE c == [call |-> "artifact", key |-> key]
  <2> HAVE Recorded(Calls, key, at + 1)
  <2>1. Done(c)
    BY <1>1 DEF Recorded
  <2>2. c.call = "artifact" /\ c.key = key
    OBVIOUS
  <2> HIDE DEF c
  <2> QED BY <2>1, <2>2 DEF Done
<1>4. \A key, type : Event(key, type).call = "event" /\ Event(key, type).key = key /\ Event(key, type).type = type
  BY DEF Event
<1>5. \A key : Precedes(Calls, Event(key, "retrieved"), at + 1) =>
                 [step |-> Step, key |-> key, type |-> "retrieved"] \in events
  BY <1>1, <1>4 DEF Done
<1>6. CASE \E key \in Keys : Recorded(Calls, key, at + 1) /\
             \/ Call = Event(key, "observed") \/ Call = Event(key, "retrieved")
             \/ Call = Event(key, "consumed") /\ key.role = "prompt_artifact"
  BY <1>3, <1>4, <1>6
<1>7. CASE Step = "select_context" /\ \E i \in DOMAIN Rejected :
             /\ Call = Event(Source(Rejected[i]), "rejected") /\ Recorded(Calls, Source(Rejected[i]), at + 1)
             /\ Precedes(Calls, Event(Source(Rejected[i]), "retrieved"), at + 1)
  BY <1>3, <1>4, <1>5, <1>7
<1>8. CASE Step = "select_context" /\ \E i \in DOMAIN Selected :
             /\ Call = Event(Source(Selected[i]), "selected") /\ Recorded(Calls, Source(Selected[i]), at + 1)
             /\ Precedes(Calls, Event(Source(Selected[i]), "retrieved"), at + 1)
  BY <1>3, <1>4, <1>5, <1>8
<1>9. CASE Step \in Prompting /\ \E item \in Mounted : Call = Event(Source(item), "consumed")
  BY <1>2, <1>4, <1>9
<1>10. Call # Decide(response) /\ \A item : Call # Credit(item)
  BY <1>1 DEF Decide, Credit
<1> QED BY <1>1, <1>6, <1>7, <1>8, <1>9, <1>10 DEF CallShape

\* No row disappears, and a decision keeps its step and its response.
Grows ==
  /\ artifacts \subseteq artifacts' /\ events \subseteq events' /\ lineage \subseteq lineage'
  /\ DOMAIN decisions \subseteq DOMAIN decisions'
  /\ \A d \in DOMAIN decisions :
       decisions'[d].step = decisions[d].step /\ decisions'[d].response = decisions[d].response

\* Appending to a sequence.
LEMMA AppendFacts ==
  ASSUME NEW S, NEW q \in Seq(S), NEW x \in S
  PROVE  /\ Append(q, x) \in Seq(S) /\ Len(Append(q, x)) = Len(q) + 1 /\ Len(q) \in Nat
         /\ Len(q) + 1 \in Nat /\ Len(q) + 1 \notin DOMAIN q
         /\ DOMAIN Append(q, x) = DOMAIN q \cup {Len(q) + 1}
         /\ \A i \in DOMAIN q : Append(q, x)[i] = q[i] /\ i < Len(q) + 1 /\ i \in Nat
         /\ Append(q, x)[Len(q) + 1] = x
OBVIOUS

\* RecordDecision adds a row for the running step.
LEMMA DecisionAdded ==
  ASSUME LedgerTypes, StepProgress, RecordDecision, DecisionOf(Step, response) = {}
  PROVE  /\ decisions' = Append(decisions, [step |-> Step, response |-> response, result |-> 0])
         /\ decisions' \in Seq([step : StepNames, response : Responses, result : Nat])
         /\ DOMAIN decisions' = DOMAIN decisions \cup {Len(decisions) + 1}
         /\ Len(decisions) + 1 \notin DOMAIN decisions
         /\ \A d \in DOMAIN decisions : decisions'[d] = decisions[d] /\ d < Len(decisions) + 1
         /\ decisions'[Len(decisions) + 1] = [step |-> Step, response |-> response, result |-> 0]
         /\ owed' = OfDecision(Len(decisions) + 1) /\ at' = at
<1> DEFINE row == [step |-> Step, response |-> response, result |-> 0]
           D == [step : StepNames, response : Responses, result : Nat]
<1>1. Call.response = response /\ Len(results) < 4
  BY DecisionNow DEF RecordDecision, Calling, Running, StepOrder
<1>2. decisions' = Append(decisions, row) /\ at' = at
      /\ owed' = [kind |-> "decision_recorded", decision |-> Len(decisions')]
  BY <1>1 DEF RecordDecision
<1>3. row \in D /\ decisions \in Seq(D)
  <2>1. Step \in StepNames
    BY <1>1, ResultsFacts, StepOrderIs
  <2> QED BY <2>1 DEF LedgerTypes
<1> HIDE DEF row, D
<1>4. /\ Append(decisions, row) \in Seq(D) /\ Len(Append(decisions, row)) = Len(decisions) + 1
      /\ Len(decisions) + 1 \notin DOMAIN decisions
      /\ DOMAIN Append(decisions, row) = DOMAIN decisions \cup {Len(decisions) + 1}
      /\ \A i \in DOMAIN decisions : Append(decisions, row)[i] = decisions[i] /\ i < Len(decisions) + 1
      /\ Append(decisions, row)[Len(decisions) + 1] = row
  BY <1>3, AppendFacts
<1> QED BY <1>2, <1>4 DEF row, D, OfDecision

\* Link changes results only, those of the newest checkpoint's step.
LEMMA Linked ==
  ASSUME LedgerTypes, Link
  PROVE  /\ decisions' \in Seq([step : StepNames, response : Responses, result : Nat])
         /\ DOMAIN decisions' = DOMAIN decisions
         /\ \A d \in DOMAIN decisions :
              /\ decisions'[d].step = decisions[d].step /\ decisions'[d].response = decisions[d].response
              /\ IF decisions[d].step = StepOrder[Len(results)] /\ decisions[d].result = 0
                 THEN decisions'[d].result = Len(results) ELSE decisions'[d] = decisions[d]
         /\ Len(results) \in 1 .. 4
<1> DEFINE D == [step : StepNames, response : Responses, result : Nat]
           s == results[Len(results)].step
           New(d) == IF decisions[d].step = s /\ decisions[d].result = 0
                     THEN [decisions[d] EXCEPT !.result = Len(results)] ELSE decisions[d]
<1>1. Len(results) \in 1 .. 4 /\ Len(results) \in Nat /\ s = StepOrder[Len(results)]
  <2>1. Len(results) >= 1 /\ Len(results) \in DOMAIN results
    BY ResultsFacts DEF Link, LedgerTypes
  <2> QED BY <2>1, ResultsFacts DEF LedgerTypes
<1>2. decisions' = [d \in DOMAIN decisions |-> New(d)]
  BY DEF Link
<1>3. \A x \in D, n \in Nat : /\ [x EXCEPT !.result = n] \in D /\ [x EXCEPT !.result = n].step = x.step
                              /\ [x EXCEPT !.result = n].response = x.response
                              /\ [x EXCEPT !.result = n].result = n
  OBVIOUS
<1>4. \A d \in DOMAIN decisions : decisions[d] \in D
  BY ResultsFacts DEF D
<1> HIDE DEF D, s
<1>5. \A d \in DOMAIN decisions : New(d) \in D
  BY <1>1, <1>3, <1>4
<1>6. decisions' \in [1 .. Len(decisions) -> D] /\ DOMAIN decisions = 1 .. Len(decisions) /\ Len(decisions) \in Nat
  BY <1>2, <1>5, ResultsFacts
<1>7. decisions' \in Seq(D)
  BY <1>6
<1>8. \A d \in DOMAIN decisions : decisions'[d] = New(d)
  BY <1>2
<1>9. DOMAIN decisions' = DOMAIN decisions
  BY <1>2
<1>10. \A d \in DOMAIN decisions :
              /\ decisions'[d].step = decisions[d].step /\ decisions'[d].response = decisions[d].response
              /\ IF decisions[d].step = StepOrder[Len(results)] /\ decisions[d].result = 0
                 THEN decisions'[d].result = Len(results) ELSE decisions'[d] = decisions[d]
  <2> TAKE d \in DOMAIN decisions
  <2>1. decisions'[d] = New(d) /\ decisions[d] \in D
    BY <1>4, <1>8
  <2>2. CASE decisions[d].step = s /\ decisions[d].result = 0
    <3>1. decisions'[d] = [decisions[d] EXCEPT !.result = Len(results)]
      BY <2>1, <2>2
    <3> QED BY <1>1, <1>3, <2>1, <2>2, <3>1
  <2>3. CASE ~(decisions[d].step = s /\ decisions[d].result = 0)
    <3>1. decisions'[d] = decisions[d]
      BY <2>1, <2>3
    <3> QED BY <1>1, <2>3, <3>1
  <2> QED BY <2>2, <2>3
<1> QED BY <1>1, <1>7, <1>9, <1>10 DEF D

\* What Checkpoint adds.
LEMMA Checkpointing ==
  ASSUME LedgerTypes, Checkpoint
  PROVE  /\ Len(results) < 4 /\ Len(results') = Len(results) + 1
         /\ results' \in Seq([step : StepNames, response : Responses])
         /\ DOMAIN results' = DOMAIN results \cup {Len(results) + 1}
         /\ \A n \in DOMAIN results : results'[n] = results[n]
         /\ results'[Len(results) + 1] = [step |-> StepOrder[Len(results) + 1], response |-> response]
<1> DEFINE row == [step |-> Step, response |-> response]
           R == [step : StepNames, response : Responses]
<1>1. Len(results) < 4 /\ results' = Append(results, row)
  BY DEF Checkpoint, Running, StepOrder
<1>2. row \in R /\ results \in Seq(R) /\ Step = StepOrder[Len(results) + 1]
  <2>1. Step \in StepNames /\ Step = StepOrder[Len(results) + 1]
    BY <1>1, ResultsFacts, StepOrderIs
  <2> QED BY <2>1 DEF LedgerTypes
<1> HIDE DEF row, R
<1>3. /\ Append(results, row) \in Seq(R) /\ Len(Append(results, row)) = Len(results) + 1
      /\ DOMAIN Append(results, row) = DOMAIN results \cup {Len(results) + 1}
      /\ \A i \in DOMAIN results : Append(results, row)[i] = results[i]
      /\ Append(results, row)[Len(results) + 1] = row
  BY <1>2, AppendFacts
<1> QED BY <1>1, <1>2, <1>3 DEF row, R

\* No step of the system removes a row.
LEMMA NextGrows ==
  ASSUME LedgerTypes, StepProgress, [Next]_vars
  PROVE  Grows
<1>1. CASE UNCHANGED vars
  BY <1>1 DEF Grows, vars, ledger
<1>2. CASE StartStep
  BY <1>2 DEF Grows, StartStep, ledger
<1>3. CASE Checkpoint
  BY <1>3 DEF Grows, Checkpoint, ledger
<1>4. CASE Link
  BY <1>4, Linked DEF Grows, Link
<1>5. CASE Crash
  BY <1>5 DEF Grows, Crash, ledger
<1>6. CASE RecordArtifact
  BY <1>6 DEF Grows, RecordArtifact
<1>7. CASE RecordEvent
  BY <1>7 DEF Grows, RecordEvent
<1>8. CASE RecordDecision
  <2>1. Call.response = response
    BY <1>8, DecisionNow DEF RecordDecision
  <2>2. CASE DecisionOf(Step, response) = {}
    BY <1>8, <2>2, DecisionAdded DEF Grows, RecordDecision
  <2>3. CASE DecisionOf(Step, response) # {}
    BY <1>8, <2>1, <2>3 DEF Grows, RecordDecision
  <2> QED BY <2>2, <2>3
<1>9. CASE RecordLineage
  BY <1>9 DEF Grows, RecordLineage
<1>10. CASE RecordSystemEvent
  BY <1>10 DEF Grows, RecordSystemEvent
<1> QED BY <1>1, <1>2, <1>3, <1>4, <1>5, <1>6, <1>7, <1>8, <1>9, <1>10 DEF Next

\* Within an attempt the step and its calls stay, and a call that is done stays done.
LEMMA SameCalls ==
  ASSUME UNCHANGED <<results, response>>
  PROVE  Step' = Step /\ Calls' = Calls /\ DraftWanted' = DraftWanted
BY DEF Calls, Step, DraftWanted, ConsumeCalls, ModelCalls, IngestCalls, SelectCalls

LEMMA DoneStays ==
  ASSUME Grows, UNCHANGED <<results, response>>
  PROVE  \A c : Done(c) => Done(c)'
<1> SUFFICES ASSUME NEW c, Done(c) PROVE Done(c)'
  OBVIOUS
<1>1. Step' = Step
  BY SameCalls
<1>2. \A r : DecisionOf(Step, r) \subseteq DecisionOf(Step, r)'
  BY <1>1 DEF DecisionOf, Grows
<1>3. c.call = "artifact" => c.key \in artifacts'
  BY DEF Done, Grows
<1>4. c.call = "event" => [step |-> Step', key |-> c.key, type |-> c.type] \in events'
  BY <1>1 DEF Done, Grows
<1>5. c.call = "decision" => DecisionOf(Step, c.response)' # {}
  BY <1>2 DEF Done
<1>6. c.call = "lineage" =>
       \E d \in DecisionOf(Step, response)' : [decision |-> d, item |-> c.item] \in lineage'
  BY <1>2 DEF Done, Grows
<1> QED BY <1>3, <1>4, <1>5, <1>6 DEF Done

\* LedgerTypes is kept.
LEMMA TypesKept ==
  ASSUME LedgerTypes, StepProgress, [Next]_vars
  PROVE  LedgerTypes'
<1>a. artifacts' \subseteq Keys
  <2>1. artifacts \subseteq Keys
    BY DEF LedgerTypes
  <2>2. CASE RecordArtifact
    <3>1. Call.key \in Keys /\ artifacts' = artifacts \cup {Call.key}
      BY <2>2, ArtifactNow DEF RecordArtifact
    <3> QED BY <2>1, <3>1
  <2>3. CASE ~RecordArtifact
    <3>1. artifacts' = artifacts
      BY <2>3 DEF Next, vars, ledger, StartStep, Checkpoint, Link, Crash, RecordEvent, RecordDecision,
                  RecordLineage, RecordSystemEvent
    <3> QED BY <2>1, <3>1
  <2> QED BY <2>2, <2>3
<1> DEFINE R == [step : StepNames, response : Responses]
           D == [step : StepNames, response : Responses, result : Nat]
<1>0. /\ at \in Int /\ at >= -2 /\ crashes \in 0 .. MaxCrashes /\ response \in Responses
      /\ results \in Seq(R) /\ Len(results) <= 4 /\ \A n \in DOMAIN results : results[n].step = StepOrder[n]
      /\ decisions \in Seq(D) /\ (at = -2 => Len(results) >= 1) /\ (at >= 0 => Len(results) < 4)
      /\ (at < 0 => owed = Nobody) /\ MaxCrashes \in Nat
  BY LedgerAssumption DEF LedgerTypes
<1> HIDE DEF R, D
<1>s. SUFFICES
      /\ at' \in Int /\ at' >= -2 /\ crashes' \in 0 .. MaxCrashes /\ response' \in Responses
      /\ results' \in Seq(R) /\ Len(results') <= 4 /\ \A n \in DOMAIN results' : results'[n].step = StepOrder[n]
      /\ decisions' \in Seq(D) /\ (at' = -2 => Len(results') >= 1) /\ (at' >= 0 => Len(results') < 4)
      /\ (at' < 0 => owed' = Nobody)
  BY <1>a DEF LedgerTypes, R, D
<1>1. CASE UNCHANGED vars
  BY <1>0, <1>1 DEF vars, ledger, memory
<1>2. CASE StartStep
  <2>1. /\ UNCHANGED <<results, decisions, crashes, owed>> /\ response' \in Responses /\ at' = 0
        /\ Len(results) < 4 /\ at = -1
    BY <1>2 DEF StartStep, ledger, StepOrder
  <2> QED BY <1>0, <2>1
<1>3. CASE Checkpoint
  <2>1. UNCHANGED <<decisions, crashes, owed, response>> /\ at' = -2 /\ owed = Nobody
    BY <1>3 DEF Checkpoint, ledger
  <2>2. /\ Len(results) < 4 /\ Len(results') = Len(results) + 1 /\ results' \in Seq(R)
        /\ DOMAIN results' = DOMAIN results \cup {Len(results) + 1}
        /\ \A n \in DOMAIN results : results'[n] = results[n]
        /\ results'[Len(results) + 1].step = StepOrder[Len(results) + 1]
    BY <1>3, Checkpointing DEF R
  <2>3. Len(results) \in Nat /\ Len(results') >= 1 /\ Len(results') <= 4
    BY <1>0, <2>2, ResultsFacts
  <2> QED BY <1>0, <2>1, <2>2, <2>3
<1>4. CASE Link
  <2>1. UNCHANGED <<results, crashes, owed, response>> /\ at' = -1 /\ at = -2 /\ decisions' \in Seq(D)
    BY <1>4, Linked DEF Link, D
  <2> QED BY <1>0, <2>1
<1>5. CASE Crash
  <2>1. /\ UNCHANGED <<results, response, decisions>> /\ at' = -1 /\ owed' = Nobody
        /\ crashes' = crashes + 1 /\ crashes < MaxCrashes
    BY <1>5 DEF Crash, ledger
  <2> QED BY <1>0, <2>1
<1>6. CASE RecordArtifact
  <2>1. UNCHANGED <<results, response, decisions, owed, crashes>> /\ at' = at + 1 /\ at >= 0
    BY <1>6 DEF RecordArtifact, Calling, Running
  <2> QED BY <1>0, <2>1
<1>7. CASE RecordEvent
  <2>1. UNCHANGED <<results, response, decisions, owed, crashes>> /\ at' = at + 1 /\ at >= 0
    BY <1>7 DEF RecordEvent, Calling, Running
  <2> QED BY <1>0, <2>1
<1>8. CASE RecordDecision
  <2>1. UNCHANGED <<results, response, crashes>> /\ at >= 0 /\ Call.response = response
    BY <1>8, DecisionNow DEF RecordDecision, Calling, Running
  <2>2. CASE DecisionOf(Step, response) = {}
    <3>1. decisions' \in Seq(D) /\ at' = at
      BY <1>8, <2>2, DecisionAdded DEF D
    <3> QED BY <1>0, <2>1, <3>1
  <2>3. CASE DecisionOf(Step, response) # {}
    <3>1. UNCHANGED <<decisions, owed>> /\ at' = at + 1
      BY <1>8, <2>1, <2>3 DEF RecordDecision
    <3> QED BY <1>0, <2>1, <3>1
  <2> QED BY <2>2, <2>3
<1>9. CASE RecordLineage
  <2>1. UNCHANGED <<results, response, crashes, decisions>> /\ at >= 0 /\ (at' = at \/ at' = at + 1)
    BY <1>9 DEF RecordLineage, Calling, Running
  <2> QED BY <1>0, <2>1
<1>10. CASE RecordSystemEvent
  <2>1. UNCHANGED <<results, response, crashes, decisions>> /\ at >= 0 /\ at' = at + 1
    BY <1>10 DEF RecordSystemEvent, Running
  <2> QED BY <1>0, <2>1
<1> QED BY <1>1, <1>2, <1>3, <1>4, <1>5, <1>6, <1>7, <1>8, <1>9, <1>10 DEF Next

\* The call whose work is done is passed; a row that was added announces itself first.
LEMMA CallDone ==
  ASSUME LedgerTypes, StepProgress,
         RecordArtifact \/ RecordEvent \/ RecordDecision \/ RecordLineage \/ RecordSystemEvent,
         NEW c, c = Call
  PROVE  Done(c)' /\ at \in Nat /\ at < Len(Calls)
<1>0. Grows
  BY NextGrows DEF Next
<1>1. at \in Nat /\ UNCHANGED <<results, response>>
  BY DEF RecordArtifact, RecordEvent, RecordDecision, RecordLineage, RecordSystemEvent,
         Calling, Running, LedgerTypes
<1>2. Step' = Step
  BY <1>1, SameCalls
<1>3. CASE RecordArtifact
  <2>1. at < Len(Calls) /\ c.call = "artifact" /\ c.key \in artifacts'
    BY <1>3 DEF RecordArtifact, Calling
  <2> QED BY <1>1, <2>1 DEF Done
<1>4. CASE RecordEvent
  <2>1. /\ at < Len(Calls) /\ c.call = "event"
        /\ [step |-> Step, key |-> c.key, type |-> c.type] \in events'
    BY <1>4 DEF RecordEvent, Calling
  <2> QED BY <1>1, <1>2, <2>1 DEF Done
<1>5. CASE RecordDecision
  <2>1. at < Len(Calls) /\ c.call = "decision" /\ c.response = response
    BY <1>5, DecisionNow DEF RecordDecision, Calling
  <2>2. CASE DecisionOf(Step, response) = {}
    <3>1. Len(decisions) + 1 \in DOMAIN decisions' /\ decisions'[Len(decisions) + 1].step = Step
          /\ decisions'[Len(decisions) + 1].response = response
      BY <1>5, <2>2, DecisionAdded
    <3>2. DecisionOf(Step, response)' # {}
      BY <1>1, <1>2, <3>1 DEF DecisionOf
    <3> QED BY <1>1, <1>2, <2>1, <3>2 DEF Done
  <2>3. CASE DecisionOf(Step, response) # {}
    <3>1. Done(c)
      BY <2>1, <2>3 DEF Done
    <3> QED BY <1>0, <1>1, <2>1, <3>1, DoneStays
  <2> QED BY <2>2, <2>3
<1>6. CASE RecordLineage
  <2>1. at < Len(Calls) /\ c.call = "lineage" /\ DecisionOf(Step, response) # {}
    BY <1>6, LineageNow DEF RecordLineage, Calling
  <2> DEFINE d == CHOOSE d \in DecisionOf(Step, response) : TRUE
  <2>2. d \in DecisionOf(Step, response) /\ [decision |-> d, item |-> c.item] \in lineage'
    BY <1>6, <2>1 DEF RecordLineage
  <2>3. d \in DecisionOf(Step, response)'
    BY <1>0, <1>1, <1>2, <2>2 DEF DecisionOf, Grows
  <2> HIDE DEF d
  <2> QED BY <1>1, <2>1, <2>2, <2>3 DEF Done
<1>7. CASE RecordSystemEvent
  <2>1. at < Len(Calls) /\ Done(c)
    BY <1>1, <1>7 DEF RecordSystemEvent, Running, StepProgress, Call
  <2> QED BY <1>0, <1>1, <2>1, DoneStays
<1> QED BY <1>3, <1>4, <1>5, <1>6, <1>7

\* StepProgress is kept.
LEMMA ProgressKept ==
  ASSUME LedgerTypes, StepProgress, [Next]_vars
  PROVE  StepProgress'
<1>0. Grows
  BY NextGrows
<1>1. CASE RecordArtifact \/ RecordEvent \/ RecordDecision \/ RecordLineage \/ RecordSystemEvent
  <2>1. /\ UNCHANGED <<results, response>> /\ (at' = at \/ at' = at + 1)
        /\ (at' = at + 1 => owed' = Nobody)
    <3>0. at \in Int
      BY DEF LedgerTypes
    <3>1. CASE RecordArtifact \/ RecordEvent
      BY <3>1 DEF RecordArtifact, RecordEvent, Calling
    <3>2. CASE RecordDecision
      BY <3>0, <3>2 DEF RecordDecision, Calling
    <3>3. CASE RecordLineage
      BY <3>0, <3>3 DEF RecordLineage, Calling
    <3>4. CASE RecordSystemEvent
      BY <3>4 DEF RecordSystemEvent
    <3> QED BY <1>1, <3>1, <3>2, <3>3, <3>4
  <2>2. Calls' = Calls
    BY <2>1, SameCalls
  <2>3. at \in Nat /\ at < Len(Calls) /\ \A c : c = Calls[at + 1] => Done(c)'
    BY <1>1, CallDone DEF Call
  <2>d. \A c : Done(c) => Done(c)'
    BY <1>0, <2>1, DoneStays
  <2>4. \A j \in 1 .. at : \A c : c = Calls[j] => Done(c)'
    <3> TAKE j \in 1 .. at
    <3>1. Done(Calls[j])
      BY <2>3 DEF StepProgress
    <3> QED BY <2>d, <3>1
  <2>5. Len(Calls) \in Nat
    <3>1. Len(results) < 4
      BY <2>3 DEF LedgerTypes
    <3> QED BY <3>1, CallsFacts DEF Shapely
  <2>6. \A j \in 1 .. at + 1 : j \in 1 .. at \/ j = at + 1
    BY <2>3
  <2>7. \A j \in 1 .. at' : \A c : c = Calls'[j] => Done(c)'
    <3>1. \A j \in 1 .. at' : j \in 1 .. at \/ j = at + 1
      BY <2>1, <2>3
    <3> QED BY <2>2, <2>3, <2>4, <3>1
  <2>8. owed' # Nobody => at' = at
    BY <2>1
  <2>9. at' <= Len(Calls)
    BY <2>1, <2>3, <2>5
  <2>10. \A c : c = Calls'[at + 1] => Done(c)'
    BY <2>2, <2>3
  <2> QED BY <2>2, <2>3, <2>7, <2>8, <2>9, <2>10 DEF StepProgress
<1>2. CASE StartStep
  <2>1. at' = 0 /\ Len(results') < 4 /\ owed' = Nobody
    BY <1>2 DEF StartStep, LedgerTypes, StepOrder
  <2>2. LedgerTypes'
    BY TypesKept
  <2>3. (Len(Calls) \in Nat)'
    <3>1. (LedgerTypes /\ Len(results) < 4 => Shapely(Calls, Step, response))'
      BY CallsFacts, PTL
    <3> QED BY <2>1, <2>2, <3>1 DEF Shapely
  <2> QED BY <2>1, <2>3 DEF StepProgress
<1>3. CASE Checkpoint \/ Link \/ Crash
  BY <1>3 DEF Checkpoint, Link, Crash, StepProgress
<1>4. CASE UNCHANGED vars
  <2>1. UNCHANGED <<results, response, at, owed>>
    BY <1>4 DEF vars, memory
  <2>2. Calls' = Calls
    BY <2>1, SameCalls
  <2>3. \A c : Done(c) => Done(c)'
    BY <1>0, <2>1, DoneStays
  <2> QED BY <2>1, <2>2, <2>3 DEF StepProgress
<1> QED BY <1>1, <1>2, <1>3, <1>4 DEF Next

\* No checkpointed step has the name of the running one.
LEMMA NewestName ==
  ASSUME LedgerTypes, Len(results) < 4
  PROVE  \A n \in DOMAIN results : results[n].step # Step /\ StepOrder[n] # Step
<1>1. \A n \in DOMAIN results : /\ results[n].step = StepOrder[n] /\ n \in 1 .. 4
                                /\ n # Len(results) + 1
  <2>1. DOMAIN results = 1 .. Len(results) /\ Len(results) \in Nat
    BY ResultsFacts
  <2> QED BY <2>1, ResultsFacts DEF LedgerTypes
<1> QED BY <1>1, ResultsFacts, StepOrderIs

\* A row that was there keeps what the invariant says of it.
LEMMA RowsStay ==
  ASSUME LedgerTypes, LedgerRows, Grows, Len(results) <= Len(results'), Len(results) \in Nat,
         Len(results') \in Nat
  PROVE  /\ \A l \in lineage :
              /\ l = [decision |-> l.decision, item |-> l.item] /\ l.decision \in DOMAIN decisions'
              /\ l.item \in Influential(decisions'[l.decision].response)
              /\ [step |-> decisions'[l.decision].step, key |-> Source(l.item), type |-> "consumed"]
                   \in events'
         /\ \A d \in DOMAIN decisions :
              \E n \in 1 .. 4 : n <= Len(results') + 1 /\ decisions'[d].step = StepOrder[n]
<1>1. ASSUME NEW l \in lineage
      PROVE  /\ l = [decision |-> l.decision, item |-> l.item] /\ l.decision \in DOMAIN decisions'
             /\ l.item \in Influential(decisions'[l.decision].response)
             /\ [step |-> decisions'[l.decision].step, key |-> Source(l.item), type |-> "consumed"]
                  \in events'
  <2>1. /\ l = [decision |-> l.decision, item |-> l.item] /\ l.decision \in DOMAIN decisions
        /\ l.item \in Influential(decisions[l.decision].response)
        /\ [step |-> decisions[l.decision].step, key |-> Source(l.item), type |-> "consumed"] \in events
    BY DEF LedgerRows
  <2>2. /\ l.decision \in DOMAIN decisions' /\ events \subseteq events'
        /\ decisions'[l.decision].step = decisions[l.decision].step
        /\ decisions'[l.decision].response = decisions[l.decision].response
    BY <2>1 DEF Grows
  <2> QED BY <2>1, <2>2
<1>2. ASSUME NEW d \in DOMAIN decisions
      PROVE  \E n \in 1 .. 4 : n <= Len(results') + 1 /\ decisions'[d].step = StepOrder[n]
  <2>1. PICK n \in 1 .. 4 : n <= Len(results) + 1 /\ decisions[d].step = StepOrder[n]
    BY DEF LedgerRows
  <2>2. decisions'[d].step = decisions[d].step
    BY DEF Grows
  <2> QED BY <2>1, <2>2
<1> QED BY <1>1, <1>2

\* LedgerRows is kept.
LEMMA RowsKept ==
  ASSUME LedgerTypes, StepProgress, LedgerRows, [Next]_vars
  PROVE  LedgerRows'
<1>0. Grows /\ LedgerTypes'
  BY NextGrows, TypesKept
<1>r. Len(results) \in Nat /\ Len(results') \in Nat
  <2>1. (LedgerTypes => Len(results) \in Nat)'
    BY ResultsFacts, PTL
  <2> QED BY <1>0, <2>1, ResultsFacts
<1>1. CASE UNCHANGED <<decisions, lineage>>
  <2>1. Len(results) <= Len(results')
    <3>1. CASE Checkpoint
      BY <1>r, <3>1, Checkpointing
    <3>2. CASE ~Checkpoint
      <4>1. results' = results
        BY <3>2 DEF Next, vars, StartStep, Link, Crash, RecordArtifact, RecordEvent, RecordDecision,
                    RecordLineage, RecordSystemEvent
      <4> QED BY <1>r, <4>1
    <3> QED BY <3>1, <3>2
  <2>2. \A d \in DOMAIN decisions' : decisions'[d].result <= Len(results')
    <3>1. \A d \in DOMAIN decisions : decisions[d].result <= Len(results) /\ decisions[d].result \in Nat
      BY ResultsFacts DEF LedgerRows
    <3> QED BY <1>1, <1>r, <2>1, <3>1
  <2>3. LedgerRows
    OBVIOUS
  <2> QED BY <1>0, <1>1, <1>r, <2>1, <2>2, <2>3, RowsStay DEF LedgerRows
<1>2. CASE Link
  <2>1. /\ DOMAIN decisions' = DOMAIN decisions /\ Len(results') = Len(results) /\ lineage' = lineage
        /\ \A d \in DOMAIN decisions :
             /\ decisions'[d].step = decisions[d].step /\ decisions'[d].response = decisions[d].response
             /\ decisions'[d].result = Len(results) \/ decisions'[d] = decisions[d]
    BY <1>2, Linked DEF Link
  <2>2. \A d \in DOMAIN decisions' : decisions'[d].result <= Len(results')
    <3>1. \A d \in DOMAIN decisions : decisions[d].result <= Len(results)
      BY DEF LedgerRows
    <3> QED BY <1>r, <2>1, <3>1
  <2>3. \A d, e \in DOMAIN decisions' :
          decisions'[d].step = decisions'[e].step /\ decisions'[d].response = decisions'[e].response => d = e
    BY <2>1 DEF LedgerRows
  <2>4. IsFiniteSet(lineage)
    BY DEF LedgerRows
  <2>5. Len(results) <= Len(results')
    BY <1>r, <2>1
  <2> QED BY <1>0, <1>r, <2>1, <2>2, <2>3, <2>4, <2>5, RowsStay DEF LedgerRows
<1>3. CASE RecordDecision
  <2>1. UNCHANGED <<results, lineage>> /\ Call.response = response /\ Len(results) < 4
    BY <1>3, DecisionNow DEF RecordDecision, Calling, Running, StepOrder
  <2>2. CASE DecisionOf(Step, response) # {}
    BY <1>1, <1>3, <2>1, <2>2 DEF RecordDecision
  <2>3. CASE DecisionOf(Step, response) = {}
    <3> DEFINE k == Len(decisions) + 1
    <3>1. /\ DOMAIN decisions' = DOMAIN decisions \cup {k} /\ k \notin DOMAIN decisions
          /\ \A d \in DOMAIN decisions : decisions'[d] = decisions[d]
          /\ decisions'[k] = [step |-> Step, response |-> response, result |-> 0]
      BY <1>3, <2>3, DecisionAdded
    <3> HIDE DEF k
    <3>2. decisions'[k].step = Step /\ decisions'[k].response = response /\ decisions'[k].result = 0
      BY <3>1
    <3>3. \A d \in DOMAIN decisions : ~(decisions[d].step = Step /\ decisions[d].response = response)
      BY <2>3 DEF DecisionOf
    <3>4. \A d, e \in DOMAIN decisions' :
            decisions'[d].step = decisions'[e].step /\ decisions'[d].response = decisions'[e].response => d = e
      BY <3>1, <3>2, <3>3 DEF LedgerRows
    <3>5. \A d \in DOMAIN decisions' : decisions'[d].result <= Len(results')
      BY <1>r, <2>1, <3>1, <3>2 DEF LedgerRows
    <3>6. Step = StepOrder[Len(results) + 1] /\ Len(results) + 1 \in 1 .. 4 /\ Len(results) + 1 <= Len(results') + 1
      BY <1>r, <2>1, ResultsFacts
    <3>7. \A d \in DOMAIN decisions' :
            \E n \in 1 .. 4 : n <= Len(results') + 1 /\ decisions'[d].step = StepOrder[n]
      BY <1>0, <1>r, <2>1, <3>1, <3>2, <3>6, RowsStay
    <3>8. Len(results) <= Len(results')
      BY <1>r, <2>1
    <3>9. IsFiniteSet(lineage)
      BY DEF LedgerRows
    <3> QED BY <1>0, <1>r, <2>1, <3>4, <3>5, <3>7, <3>8, <3>9, RowsStay DEF LedgerRows
  <2> QED BY <2>2, <2>3
<1>4. CASE RecordLineage
  <2>1. UNCHANGED <<results, decisions, events>> /\ Calling("lineage") /\ Len(results) <= Len(results')
    BY <1>4, <1>r DEF RecordLineage
  <2> DEFINE d == CHOOSE d \in DecisionOf(Step, response) : TRUE
             row == [decision |-> d, item |-> Call.item]
  <2>2. lineage' = lineage \/ lineage' = lineage \cup {row}
    BY <1>4 DEF RecordLineage
  <2>3. /\ d \in DecisionOf(Step, response) /\ Call.item \in Influential(response)
        /\ [step |-> Step, key |-> Source(Call.item), type |-> "consumed"] \in events
    BY <2>1, LineageNow
  <2>4. d \in DOMAIN decisions /\ decisions[d].step = Step /\ decisions[d].response = response
    BY <2>3 DEF DecisionOf
  <2>5. row.decision = d /\ row.item = Call.item /\ row = [decision |-> row.decision, item |-> row.item]
    OBVIOUS
  <2> HIDE DEF d, row
  <2>6. /\ row = [decision |-> row.decision, item |-> row.item] /\ row.decision \in DOMAIN decisions
        /\ row.item \in Influential(decisions[row.decision].response)
        /\ [step |-> decisions[row.decision].step, key |-> Source(row.item), type |-> "consumed"] \in events
    BY <2>3, <2>4, <2>5
  <2>7. \A l \in lineage' :
          /\ l = [decision |-> l.decision, item |-> l.item] /\ l.decision \in DOMAIN decisions'
          /\ l.item \in Influential(decisions'[l.decision].response)
          /\ [step |-> decisions'[l.decision].step, key |-> Source(l.item), type |-> "consumed"] \in events'
    BY <1>0, <1>r, <2>1, <2>2, <2>6, RowsStay
  <2>8. IsFiniteSet(lineage')
    BY <2>2, FS_AddElement DEF LedgerRows
  <2> QED BY <2>1, <2>7, <2>8 DEF LedgerRows
<1>5. \/ Link \/ RecordDecision \/ RecordLineage \/ UNCHANGED <<decisions, lineage>>
  BY DEF Next, vars, ledger, StartStep, Checkpoint, Crash, RecordArtifact, RecordEvent, RecordSystemEvent
<1> QED BY <1>1, <1>2, <1>3, <1>4, <1>5

\* EventTrail is kept.
LEMMA TrailKept ==
  ASSUME LedgerTypes, StepProgress, Checkpointed, EventTrail, [Next]_vars
  PROVE  EventTrail'
<1>0. Grows
  BY NextGrows
<1> DEFINE Good(e, es, arts) ==
      /\ e.key \in arts
      /\ e.type \in {"selected", "rejected"} =>
           e.step = "select_context" /\ \E f \in es : f.key = e.key /\ f.type = "retrieved"
      /\ e.type = "selected" => \E i \in DOMAIN Selected : e.key = Source(Selected[i])
      /\ e.type = "rejected" => \E i \in DOMAIN Rejected : e.key = Source(Rejected[i])
<1>1. \A e \in events : Good(e, events', artifacts')
  <2>1. \A e \in events : Good(e, events, artifacts)
    BY DEF EventTrail
  <2> QED BY <1>0, <2>1 DEF Grows
<1>2. Len(results) >= 2 => Len(results') >= 2
  <2>1. CASE Checkpoint
    <3>1. Len(results') = Len(results) + 1 /\ Len(results) \in Nat
      BY <2>1, Checkpointing, ResultsFacts
    <3> QED BY <3>1
  <2>2. CASE ~Checkpoint
    BY <2>2 DEF Next, vars, StartStep, Link, Crash, RecordArtifact, RecordEvent, RecordDecision,
                RecordLineage, RecordSystemEvent
  <2> QED BY <2>1, <2>2
<1> DEFINE Mounting(e, n) == e.type = "consumed" /\ e.key.role = "source_artifact" =>
             n >= 2 /\ \E item \in Mounted : e.key = Source(item)
<1>3. \A e \in events : Mounting(e, Len(results'))
  BY <1>2 DEF EventTrail
<1>4. CASE events' = events
  <2>1. \A e \in events' : Good(e, events', artifacts') /\ Mounting(e, Len(results'))
    BY <1>1, <1>3, <1>4
  <2> QED BY <2>1 DEF EventTrail
<1>5. CASE RecordEvent
  <2> DEFINE row == [step |-> Step, key |-> Call.key, type |-> Call.type]
  <2>1. events' = events \cup {row} /\ artifacts' = artifacts /\ results' = results /\ Calling("event")
    BY <1>5 DEF RecordEvent
  <2>2. row.step = Step /\ row.key = Call.key /\ row.type = Call.type
    OBVIOUS
  <2>3. /\ Call.key \in artifacts \/ \E item \in Mounted : Call.key = Source(item) /\ Len(results) >= 2
        /\ Call.type \in {"selected", "rejected"} =>
             /\ Step = "select_context"
             /\ [step |-> Step, key |-> Call.key, type |-> "retrieved"] \in events
        /\ Call.type = "selected" => \E i \in DOMAIN Selected : Call.key = Source(Selected[i])
        /\ Call.type = "rejected" => \E i \in DOMAIN Rejected : Call.key = Source(Rejected[i])
        /\ Call.type = "consumed" /\ Call.key.role = "source_artifact" =>
             Len(results) >= 2 /\ \E item \in Mounted : Call.key = Source(item)
    BY <2>1, EventNow
  <2>4. \A item \in Mounted : Len(results) >= 2 => Source(item) \in artifacts
    <3> TAKE item \in Mounted
    <3> HAVE Len(results) >= 2
    <3>1. item = Email \/ item \in Items
      BY MountedFacts, IdFacts
    <3>2. Len(results) >= 1
      BY ResultsFacts
    <3> QED BY <3>1, <3>2 DEF Checkpointed
  <2> HIDE DEF row
  <2>5. Good(row, events', artifacts')
    <3>1. row.key \in artifacts
      BY <2>2, <2>3, <2>4
    <3>2. row.type \in {"selected", "rejected"} =>
            row.step = "select_context" /\ \E f \in events' : f.key = row.key /\ f.type = "retrieved"
      <4> HAVE row.type \in {"selected", "rejected"}
      <4> DEFINE f == [step |-> Step, key |-> Call.key, type |-> "retrieved"]
      <4>1. f \in events' /\ f.key = row.key /\ f.type = "retrieved" /\ row.step = "select_context"
        BY <2>1, <2>2, <2>3
      <4> QED BY <4>1
    <3>3. /\ row.type = "selected" => \E i \in DOMAIN Selected : row.key = Source(Selected[i])
          /\ row.type = "rejected" => \E i \in DOMAIN Rejected : row.key = Source(Rejected[i])
      BY <2>2, <2>3
    <3> QED BY <2>1, <3>1, <3>2, <3>3
  <2>6. Mounting(row, Len(results'))
    BY <2>1, <2>2, <2>3
  <2>7. \A e \in events' : e = row \/ e \in events
    BY <2>1
  <2>8. \A e \in events' : Good(e, events', artifacts') /\ Mounting(e, Len(results'))
    BY <1>1, <1>3, <2>5, <2>6, <2>7
  <2> QED BY <2>8 DEF EventTrail
<1>6. events' = events \/ RecordEvent
  BY DEF Next, vars, ledger, StartStep, Checkpoint, Link, Crash, RecordArtifact, RecordDecision,
         RecordLineage, RecordSystemEvent
<1> QED BY <1>4, <1>5, <1>6

\* What Checkpointed says of one step.
LeftBy(n) ==
  /\ \A item \in Mounted :
       [step |-> StepOrder[n], key |-> Source(item), type |-> "consumed"] \in events
  /\ \E d \in DecisionOf(StepOrder[n], results[n].response) :
       \A item \in Influential(results[n].response) : [decision |-> d, item |-> item] \in lineage

\* What a step left stays.
LEMMA LeftStays ==
  ASSUME Grows, NEW n, results'[n] = results[n], LeftBy(n)
  PROVE  LeftBy(n)'
<1>1. \A item \in Mounted :
        [step |-> StepOrder[n], key |-> Source(item), type |-> "consumed"] \in events'
  BY DEF LeftBy, Grows
<1>2. PICK d \in DecisionOf(StepOrder[n], results[n].response) :
        \A item \in Influential(results[n].response) : [decision |-> d, item |-> item] \in lineage
  BY DEF LeftBy
<1>3. d \in DecisionOf(StepOrder[n], results[n].response)'
  BY <1>2 DEF DecisionOf, Grows
<1>4. \A item \in Influential(results[n].response)' : [decision |-> d, item |-> item] \in lineage'
  <2>1. Influential(results[n].response)' = Influential(results[n].response)
    BY DEF Influential
  <2> QED BY <1>2, <2>1 DEF Grows
<1> QED BY <1>1, <1>3, <1>4 DEF LeftBy

\* A step that returned from its last call left all that is expected of it.
LEMMA AllDone ==
  ASSUME LedgerTypes, StepProgress, LedgerRows, Running, at = Len(Calls)
  PROVE  /\ \A c : In(Calls, c) => Done(c)
         /\ Len(results) = 0 => Source(Email) \in artifacts
         /\ Len(results) = 1 =>
              /\ \A item \in Items : Source(item) \in artifacts /\ Observed(Source(item), "retrieved")
              /\ \A i \in DOMAIN Selected : Observed(Source(Selected[i]), "selected")
         /\ Prompted(Len(results) + 1) =>
              /\ \A item \in Mounted :
                   [step |-> Step, key |-> Source(item), type |-> "consumed"] \in events
              /\ \E d \in DecisionOf(Step, response) :
                   \A item \in Influential(response) : [decision |-> d, item |-> item] \in lineage
<1>0. Len(results) < 4 /\ at >= 0
  BY DEF Running, StepOrder
<1>1. \A c : In(Calls, c) => Done(c)
  <2> TAKE c
  <2> HAVE In(Calls, c)
  <2>1. PICK j \in DOMAIN Calls : Calls[j] = c
    BY DEF In
  <2>2. Calls \in Seq(CallSet)
    BY <1>0, CallsFacts DEF Shapely
  <2>3. j \in 1 .. at
    BY <2>2
  <2> QED BY <1>0, <2>1, <2>3 DEF StepProgress
<1>2. \A item : In(Calls, RecordSource(item)) => Source(item) \in artifacts
  <2> TAKE item
  <2>1. RecordSource(item).call = "artifact" /\ RecordSource(item).key = Source(item)
    BY DEF RecordSource, Artifact, Source
  <2> QED BY <1>1, <2>1 DEF Done
<1>3. \A key, type : In(Calls, Event(key, type)) => [step |-> Step, key |-> key, type |-> type] \in events
  BY <1>1, CallKinds DEF Done
<1>4. \A key, type : In(Calls, Event(key, type)) => Observed(key, type)
  <2> TAKE key, type
  <2> DEFINE e == [step |-> Step, key |-> key, type |-> type]
  <2>1. e.key = key /\ e.type = type
    OBVIOUS
  <2> QED BY <1>3, <2>1 DEF Observed
<1>5. Len(results) = 0 => Source(Email) \in artifacts
  BY <1>0, <1>2, CallsFacts
<1>6. ASSUME Len(results) = 1
      PROVE  /\ \A item \in Items : Source(item) \in artifacts /\ Observed(Source(item), "retrieved")
             /\ \A i \in DOMAIN Selected : Observed(Source(Selected[i]), "selected")
  <2>1. /\ \A i \in DOMAIN Selected : Source(Selected[i]) \in artifacts
             /\ Observed(Source(Selected[i]), "retrieved") /\ Observed(Source(Selected[i]), "selected")
        /\ \A i \in DOMAIN Rejected : Source(Rejected[i]) \in artifacts
             /\ Observed(Source(Rejected[i]), "retrieved")
    BY <1>0, <1>2, <1>4, <1>6, CallsFacts
  <2> QED BY <2>1, IdFacts
<1>7. ASSUME Prompted(Len(results) + 1)
      PROVE  /\ \A item \in Mounted :
                  [step |-> Step, key |-> Source(item), type |-> "consumed"] \in events
             /\ \E d \in DecisionOf(Step, response) :
                  \A item \in Influential(response) : [decision |-> d, item |-> item] \in lineage
  <2>1. /\ \A item \in Mounted : In(Calls, Event(Source(item), "consumed"))
        /\ In(Calls, Decide(response))
        /\ \A item \in Influential(response) : In(Calls, Credit(item))
    BY <1>0, <1>7, CallsFacts
  <2>d. Done(Decide(response)) /\ Decide(response).call = "decision" /\ Decide(response).response = response
    BY <1>1, <2>1, CallKinds
  <2>2. PICK d : d \in DecisionOf(Step, response)
    <3>1. DecisionOf(Step, response) # {}
      BY <2>d DEF Done
    <3> QED BY <3>1
  <2>3. \A e \in DecisionOf(Step, response) : e = d
    BY <2>2 DEF DecisionOf, LedgerRows
  <2>4. \A item \in Influential(response) : [decision |-> d, item |-> item] \in lineage
    <3> TAKE item \in Influential(response)
    <3>1. Done(Credit(item))
      BY <1>1, <2>1
    <3>2. PICK e \in DecisionOf(Step, response) : [decision |-> e, item |-> item] \in lineage
      BY <3>1, CallKinds DEF Done
    <3> QED BY <2>3, <3>2
  <2> QED BY <1>3, <2>1, <2>2, <2>4
<1> QED BY <1>1, <1>5, <1>6, <1>7

\* Checkpointed is kept.
LEMMA CheckpointedKept ==
  ASSUME LedgerTypes, StepProgress, LedgerRows, Checkpointed, [Next]_vars
  PROVE  Checkpointed'
<1>0. Grows
  BY NextGrows
<1>1. \A key, type : Observed(key, type) => \E e \in events' : e.key = key /\ e.type = type
  BY <1>0 DEF Observed, Grows
<1>2. \A n \in DOMAIN results : Prompted(n) => LeftBy(n)
  BY DEF Checkpointed, LeftBy
<1>3. CASE Checkpoint
  <2>1. /\ Len(results) < 4 /\ Len(results') = Len(results) + 1 /\ Len(results) \in {0, 1, 2, 3}
        /\ DOMAIN results' = DOMAIN results \cup {Len(results) + 1}
        /\ \A n \in DOMAIN results : results'[n] = results[n] /\ n \in 1 .. Len(results)
        /\ results'[Len(results) + 1] = [step |-> StepOrder[Len(results) + 1], response |-> response]
    BY <1>3, Checkpointing, ResultsFacts
  <2>2. Running /\ at = Len(Calls) /\ Step = StepOrder[Len(results) + 1]
    BY <1>3, <2>1, ResultsFacts DEF Checkpoint
  <2>3. Len(results') >= 1 => Source(Email) \in artifacts'
    <3>1. Source(Email) \in artifacts
      <4>1. CASE Len(results) = 0
        BY <2>2, <4>1, AllDone
      <4>2. CASE Len(results) # 0
        <5>1. Len(results) >= 1
          BY <2>1, <4>2
        <5> QED BY <5>1 DEF Checkpointed
      <4> QED BY <4>1, <4>2
    <3> QED BY <1>0, <3>1 DEF Grows
  <2>4. Len(results') >= 2 =>
          /\ \A item \in Items : Source(item) \in artifacts' /\ Observed(Source(item), "retrieved")'
          /\ \A i \in DOMAIN Selected : Observed(Source(Selected[i]), "selected")'
    <3> HAVE Len(results') >= 2
    <3>1. /\ \A item \in Items : Source(item) \in artifacts /\ Observed(Source(item), "retrieved")
          /\ \A i \in DOMAIN Selected : Observed(Source(Selected[i]), "selected")
      <4>1. CASE Len(results) = 1
        BY <2>2, <4>1, AllDone
      <4>2. CASE Len(results) # 1
        <5>1. Len(results) >= 2
          BY <2>1, <4>2
        <5> QED BY <5>1 DEF Checkpointed
      <4> QED BY <4>1, <4>2
    <3> QED BY <1>0, <1>1, <3>1 DEF Grows, Observed
  <2>5. ASSUME NEW n \in DOMAIN results', Prompted(n)'
        PROVE  LeftBy(n)'
    <3>1. Prompted(n)
      <4>1. CASE n = 3
        BY <4>1 DEF Prompted
      <4>2. CASE n = 4 /\ DraftWanted'
        <5>1. Len(results) = 3 /\ DOMAIN results = 1 .. Len(results)
          BY <2>1, <4>2, ResultsFacts
        <5>2. results'[3] = results[3]
          BY <2>1, <5>1
        <5> QED BY <4>2, <5>2 DEF Prompted, DraftWanted
      <4> QED BY <2>5, <4>1, <4>2 DEF Prompted
    <3>2. CASE n \in DOMAIN results
      BY <1>0, <1>2, <2>1, <3>1, <3>2, LeftStays
    <3>3. CASE n = Len(results) + 1
      <4>1. /\ \A item \in Mounted :
                 [step |-> StepOrder[n], key |-> Source(item), type |-> "consumed"] \in events
            /\ \E d \in DecisionOf(StepOrder[n], response) :
                 \A item \in Influential(response) : [decision |-> d, item |-> item] \in lineage
        BY <2>2, <3>1, <3>3, AllDone
      <4>2. results'[n].response = response /\ events' = events /\ lineage' = lineage /\ decisions' = decisions
        BY <1>3, <2>1, <3>3 DEF Checkpoint, ledger
      <4> QED BY <4>1, <4>2 DEF LeftBy, DecisionOf, Influential
    <3> QED BY <2>1, <3>2, <3>3
  <2> QED BY <2>3, <2>4, <2>5 DEF Checkpointed, LeftBy
<1>4. CASE results' = results
  <2>1. \A n \in DOMAIN results' : Prompted(n)' => LeftBy(n)'
    <3> TAKE n \in DOMAIN results'
    <3>1. Prompted(n)' => Prompted(n)
      BY <1>4 DEF Prompted, DraftWanted
    <3> QED BY <1>0, <1>2, <1>4, <3>1, LeftStays
  <2>2. Len(results') >= 1 => Source(Email) \in artifacts'
    BY <1>0, <1>4 DEF Grows, Checkpointed
  <2>3. Len(results') >= 2 =>
          /\ \A item \in Items : Source(item) \in artifacts' /\ Observed(Source(item), "retrieved")'
          /\ \A i \in DOMAIN Selected : Observed(Source(Selected[i]), "selected")'
    BY <1>0, <1>1, <1>4 DEF Grows, Checkpointed, Observed
  <2> QED BY <2>1, <2>2, <2>3 DEF Checkpointed, LeftBy
<1>5. results' = results \/ Checkpoint
  BY DEF Next, vars, StartStep, Link, Crash, RecordArtifact, RecordEvent, RecordDecision,
         RecordLineage, RecordSystemEvent
<1> QED BY <1>3, <1>4, <1>5

\* A set with at most one element more.
LEMMA AtMostOneMore ==
  ASSUME NEW A, NEW B, IsFiniteSet(A), NEW x, B \subseteq A \cup {x}
  PROVE  IsFiniteSet(B) /\ Cardinality(B) <= Cardinality(A) + 1 /\ Cardinality(A) \in Nat
         /\ Cardinality(B) \in Nat
<1>1. IsFiniteSet(A \cup {x}) /\ Cardinality(A \cup {x}) <= Cardinality(A) + 1 /\ Cardinality(A) \in Nat
  BY FS_AddElement, FS_CardinalityType
<1>2. IsFiniteSet(B) /\ Cardinality(B) <= Cardinality(A \cup {x})
  BY <1>1, FS_Subset
<1> QED BY <1>1, <1>2, FS_CardinalityType

\* A set with no element more.
LEMMA NoMore ==
  ASSUME NEW A, NEW B, IsFiniteSet(A), B \subseteq A
  PROVE  IsFiniteSet(B) /\ Cardinality(B) <= Cardinality(A) /\ Cardinality(A) \in Nat
         /\ Cardinality(B) \in Nat
BY FS_Subset, FS_CardinalityType

\* Three sets of gaps, one of which may have grown by one.
LEMMA GapsSum ==
  ASSUME NEW A1, NEW A2, NEW A3, NEW B1, NEW B2, NEW B3, IsFiniteSet(A1), IsFiniteSet(A2), IsFiniteSet(A3),
         NEW x,
         \/ B1 \subseteq A1 \cup {x} /\ B2 \subseteq A2 /\ B3 \subseteq A3
         \/ B1 \subseteq A1 /\ B2 \subseteq A2 \cup {x} /\ B3 \subseteq A3
         \/ B1 \subseteq A1 /\ B2 \subseteq A2 /\ B3 \subseteq A3 \cup {x}
  PROVE  /\ Cardinality(B1) + Cardinality(B2) + Cardinality(B3)
              <= Cardinality(A1) + Cardinality(A2) + Cardinality(A3) + 1
         /\ Cardinality(B1) + Cardinality(B2) + Cardinality(B3) \in Nat
         /\ Cardinality(A1) + Cardinality(A2) + Cardinality(A3) \in Nat
<1> DEFINE a1 == Cardinality(A1) a2 == Cardinality(A2) a3 == Cardinality(A3)
           b1 == Cardinality(B1) b2 == Cardinality(B2) b3 == Cardinality(B3)
<1> SUFFICES b1 + b2 + b3 <= a1 + a2 + a3 + 1 /\ b1 + b2 + b3 \in Nat /\ a1 + a2 + a3 \in Nat
  OBVIOUS
<1>1. CASE B1 \subseteq A1 \cup {x} /\ B2 \subseteq A2 /\ B3 \subseteq A3
  <2>1. a1 \in Nat /\ a2 \in Nat /\ a3 \in Nat /\ b1 \in Nat /\ b2 \in Nat /\ b3 \in Nat
        /\ b1 <= a1 + 1 /\ b2 <= a2 /\ b3 <= a3
    BY <1>1, AtMostOneMore, NoMore
  <2> HIDE DEF a1, a2, a3, b1, b2, b3
  <2> QED BY <2>1
<1>2. CASE B1 \subseteq A1 /\ B2 \subseteq A2 \cup {x} /\ B3 \subseteq A3
  <2>1. a1 \in Nat /\ a2 \in Nat /\ a3 \in Nat /\ b1 \in Nat /\ b2 \in Nat /\ b3 \in Nat
        /\ b1 <= a1 /\ b2 <= a2 + 1 /\ b3 <= a3
    BY <1>2, AtMostOneMore, NoMore
  <2> HIDE DEF a1, a2, a3, b1, b2, b3
  <2> QED BY <2>1
<1>3. CASE B1 \subseteq A1 /\ B2 \subseteq A2 /\ B3 \subseteq A3 \cup {x}
  <2>1. a1 \in Nat /\ a2 \in Nat /\ a3 \in Nat /\ b1 \in Nat /\ b2 \in Nat /\ b3 \in Nat
        /\ b1 <= a1 /\ b2 <= a2 /\ b3 <= a3 + 1
    BY <1>3, AtMostOneMore, NoMore
  <2> HIDE DEF a1, a2, a3, b1, b2, b3
  <2> QED BY <2>1
<1> QED BY <1>1, <1>2, <1>3

\* Three sets of gaps that did not grow.
LEMMA GapsSame ==
  ASSUME NEW A1, NEW A2, NEW A3, NEW B1, NEW B2, NEW B3, IsFiniteSet(A1), IsFiniteSet(A2), IsFiniteSet(A3),
         B1 \subseteq A1, B2 \subseteq A2, B3 \subseteq A3
  PROVE  Cardinality(B1) + Cardinality(B2) + Cardinality(B3)
              <= Cardinality(A1) + Cardinality(A2) + Cardinality(A3)
<1> DEFINE a1 == Cardinality(A1) a2 == Cardinality(A2) a3 == Cardinality(A3)
           b1 == Cardinality(B1) b2 == Cardinality(B2) b3 == Cardinality(B3)
<1>1. a1 \in Nat /\ a2 \in Nat /\ a3 \in Nat /\ b1 \in Nat /\ b2 \in Nat /\ b3 \in Nat
      /\ b1 <= a1 /\ b2 <= a2 /\ b3 <= a3
  BY NoMore
<1> HIDE DEF a1, a2, a3, b1, b2, b3
<1>2. b1 + b2 + b3 <= a1 + a2 + a3
  BY <1>1
<1> QED BY <1>2 DEF a1, a2, a3, b1, b2, b3

\* The gaps are finitely many.
LEMMA GapsAreFinite ==
  ASSUME LedgerTypes, LedgerRows
  PROVE  /\ IsFiniteSet(Unheard) /\ IsFiniteSet(UnheardLineage) /\ IsFiniteSet(UnlinkedSteps)
         /\ IsFiniteSet(Untold) /\ IsFiniteSet(UntoldRows) /\ IsFiniteSet(LeftUnlinked)
<1>1. IsFiniteSet(DOMAIN decisions)
  BY ResultsFacts, FS_Interval
<1>2. IsFiniteSet(StepNames)
  <2>1. \A x, y : IsFiniteSet({x, y})
    <3> TAKE x, y
    <3>1. {x, y} = {x} \cup {y} /\ IsFiniteSet({x}) /\ IsFiniteSet({y})
      BY FS_Singleton
    <3> QED BY <3>1, FS_Union
  <2> DEFINE A == {"ingest_email", "select_context"}
             B == {"triage_llm", "draft_reply"}
  <2>2. IsFiniteSet(A) /\ IsFiniteSet(B) /\ StepNames = A \cup B
    BY <2>1 DEF StepNames
  <2> HIDE DEF A, B
  <2> QED BY <2>2, FS_Union
<1>3. UnlinkedSteps \subseteq StepNames
  BY ResultsFacts DEF UnlinkedSteps, Unlinked
<1>4. Unheard \subseteq DOMAIN decisions /\ UnheardLineage \subseteq lineage /\ IsFiniteSet(lineage)
  BY DEF Unheard, UnheardLineage, LedgerRows
<1>5. Untold \subseteq Unheard /\ UntoldRows \subseteq UnheardLineage /\ LeftUnlinked \subseteq UnlinkedSteps
  BY DEF Untold, UntoldRows, LeftUnlinked
<1> QED BY <1>1, <1>2, <1>3, <1>4, <1>5, FS_Subset

\* The event that is owed names one row.
LEMMA OwedNames ==
  /\ \A d, e : OfDecision(d) = OfDecision(e) => d = e
  /\ \A l, m : OfRow(l) = OfRow(m) => l = m
  /\ \A d, l : OfDecision(d) # OfRow(l) /\ OfDecision(d) # Nobody /\ OfRow(l) # Nobody
<1>1. \A d, e : OfDecision(d) = OfDecision(e) => d = e
  BY DEF OfDecision
<1>2. \A l, m : OfRow(l) = OfRow(m) => l = m
  BY DEF OfRow
<1>3. \A d : OfDecision(d).kind = "decision_recorded"
  BY DEF OfDecision
<1>4. \A l : OfRow(l).kind = "lineage_recorded"
  BY DEF OfRow
<1>5. Nobody.kind = "none"
  BY DEF Nobody
<1> QED BY <1>1, <1>2, <1>3, <1>4, <1>5

\* The gaps that are being closed are the only ones a crash adds to those left.
LEMMA GapsBound ==
  ASSUME LedgerTypes, LedgerRows
  PROVE  \E x : \/ Unheard \subseteq Untold \cup {x} /\ UnheardLineage \subseteq UntoldRows /\ UnlinkedSteps \subseteq LeftUnlinked
                \/ Unheard \subseteq Untold /\ UnheardLineage \subseteq UntoldRows \cup {x} /\ UnlinkedSteps \subseteq LeftUnlinked
                \/ Unheard \subseteq Untold /\ UnheardLineage \subseteq UntoldRows /\ UnlinkedSteps \subseteq LeftUnlinked \cup {x}
<1>0. /\ Untold = {d \in Unheard : owed # OfDecision(d)}
      /\ UntoldRows = {l \in UnheardLineage : owed # OfRow(l)}
  BY DEF Untold, UntoldRows, OfDecision, OfRow
<1>1. CASE \E d \in Unheard : owed = OfDecision(d)
  <2>1. PICK d \in Unheard : owed = OfDecision(d)
    BY <1>1
  <2>2. Unheard \subseteq Untold \cup {d} /\ UnheardLineage \subseteq UntoldRows
    BY <1>0, <2>1, OwedNames
  <2>3. at # -2
    <3>1. owed # Nobody
      BY <2>1, OwedNames
    <3> QED BY <3>1 DEF LedgerTypes
  <2>4. UnlinkedSteps \subseteq LeftUnlinked
    BY <2>3 DEF LeftUnlinked
  <2> QED BY <2>2, <2>4
<1>2. CASE \E l \in UnheardLineage : owed = OfRow(l)
  <2>1. PICK l \in UnheardLineage : owed = OfRow(l)
    BY <1>2
  <2>2. UnheardLineage \subseteq UntoldRows \cup {l} /\ Unheard \subseteq Untold
    BY <1>0, <2>1, OwedNames
  <2>3. at # -2
    <3>1. owed # Nobody
      BY <2>1, OwedNames
    <3> QED BY <3>1 DEF LedgerTypes
  <2>4. UnlinkedSteps \subseteq LeftUnlinked
    BY <2>3 DEF LeftUnlinked
  <2> QED BY <2>2, <2>4
<1>3. CASE ~(\E d \in Unheard : owed = OfDecision(d)) /\ ~(\E l \in UnheardLineage : owed = OfRow(l))
  <2>1. Unheard \subseteq Untold /\ UnheardLineage \subseteq UntoldRows
    BY <1>0, <1>3
  <2>2. UnlinkedSteps \subseteq LeftUnlinked \cup {StepOrder[Len(results)]}
    BY DEF LeftUnlinked
  <2> QED BY <2>1, <2>2
<1> QED BY <1>1, <1>2, <1>3

\* No step but a crash leaves a gap.
LEMMA NoNewGap ==
  ASSUME LedgerTypes, StepProgress, LedgerRows, Next, ~Crash
  PROVE  Untold' \subseteq Untold /\ UntoldRows' \subseteq UntoldRows /\ LeftUnlinked' \subseteq LeftUnlinked
<1>0. /\ Untold = {d \in DOMAIN decisions : OfDecision(d) \notin told /\ owed # OfDecision(d)}
      /\ UntoldRows = {l \in lineage : OfRow(l) \notin told /\ owed # OfRow(l)}
      /\ Untold' = {d \in DOMAIN decisions' : OfDecision(d) \notin told' /\ owed' # OfDecision(d)}
      /\ UntoldRows' = {l \in lineage' : OfRow(l) \notin told' /\ owed' # OfRow(l)}
  BY DEF Untold, UntoldRows, Unheard, UnheardLineage, OfDecision, OfRow
<1>1. LedgerTypes'
  BY TypesKept
<1>2. /\ \A s : s \in LeftUnlinked <=> s \in UnlinkedSteps /\ ~(at = -2 /\ s = StepOrder[Len(results)])
      /\ \A s : s \in LeftUnlinked' <=> s \in UnlinkedSteps' /\ ~(at' = -2 /\ s = StepOrder[Len(results')])
  BY DEF LeftUnlinked
<1>3. /\ \A s : s \in UnlinkedSteps <=> \E d \in DOMAIN decisions : \E n \in DOMAIN results :
                 decisions[d].result = 0 /\ decisions[d].step = s /\ results[n].step = s
      /\ \A s : s \in UnlinkedSteps' <=> \E d \in DOMAIN decisions' : \E n \in DOMAIN results' :
                 decisions'[d].result = 0 /\ decisions'[d].step = s /\ results'[n].step = s
  BY DEF UnlinkedSteps, Unlinked
<1>4. CASE StartStep \/ RecordArtifact \/ RecordEvent
  <2>1. UNCHANGED <<told, decisions, lineage, results, owed>> /\ at # -2 /\ at' # -2
    BY <1>4, <1>1 DEF StartStep, RecordArtifact, RecordEvent, ledger, Calling, Running, LedgerTypes
  <2> QED BY <1>0, <1>2, <1>3, <2>1
<1>5. CASE Checkpoint
  <2>1. UNCHANGED <<told, decisions, lineage, owed>> /\ at # -2 /\ at' = -2
    BY <1>5 DEF Checkpoint, ledger, Running, LedgerTypes
  <2>2. /\ DOMAIN results' = DOMAIN results \cup {Len(results) + 1}
        /\ \A n \in DOMAIN results : results'[n] = results[n]
        /\ results'[Len(results) + 1].step = StepOrder[Len(results) + 1]
        /\ Len(results') = Len(results) + 1
    BY <1>5, Checkpointing
  <2> QED BY <1>0, <1>2, <1>3, <2>1, <2>2
<1>6. CASE Link
  <2>1. UNCHANGED <<told, lineage, results, owed>> /\ at = -2 /\ at' = -1
    BY <1>6 DEF Link
  <2>2. /\ DOMAIN decisions' = DOMAIN decisions /\ Len(results) \in 1 .. 4
        /\ \A d \in DOMAIN decisions :
             /\ decisions'[d].step = decisions[d].step
             /\ IF decisions[d].step = StepOrder[Len(results)] /\ decisions[d].result = 0
                THEN decisions'[d].result = Len(results) ELSE decisions'[d] = decisions[d]
    BY <1>6, Linked
  <2>3. Len(results) # 0
    BY <2>2
  <2>4. \A s : s \in LeftUnlinked' => s \in LeftUnlinked
    <3> TAKE s
    <3> HAVE s \in LeftUnlinked'
    <3>1. PICK d \in DOMAIN decisions, n \in DOMAIN results :
            decisions'[d].result = 0 /\ decisions'[d].step = s /\ results[n].step = s
      BY <1>2, <1>3, <2>1, <2>2
    <3>2. ~(decisions[d].step = StepOrder[Len(results)] /\ decisions[d].result = 0) /\ decisions'[d] = decisions[d]
      BY <2>2, <2>3, <3>1
    <3>3. decisions[d].result = 0 /\ decisions[d].step = s /\ s # StepOrder[Len(results)]
      BY <3>1, <3>2
    <3> QED BY <1>2, <1>3, <3>1, <3>3
  <2> QED BY <1>0, <2>1, <2>2, <2>4
<1>7. CASE RecordDecision
  <2>1. /\ UNCHANGED <<told, lineage, results>> /\ at >= 0 /\ at' # -2 /\ owed = Nobody
        /\ Call.response = response /\ Len(results) < 4
    BY <1>7, DecisionNow DEF RecordDecision, Calling, Running, StepOrder, LedgerTypes
  <2>2. CASE DecisionOf(Step, response) # {}
    <3>1. UNCHANGED <<decisions, owed>>
      BY <1>7, <2>1, <2>2 DEF RecordDecision
    <3> QED BY <1>0, <1>2, <1>3, <2>1, <3>1
  <2>3. CASE DecisionOf(Step, response) = {}
    <3> DEFINE k == Len(decisions) + 1
    <3>1. /\ DOMAIN decisions' = DOMAIN decisions \cup {k}
          /\ \A d \in DOMAIN decisions : decisions'[d] = decisions[d]
          /\ decisions'[k] = [step |-> Step, response |-> response, result |-> 0]
          /\ owed' = OfDecision(k)
      BY <1>7, <2>3, DecisionAdded
    <3> HIDE DEF k
    <3>2. decisions'[k].step = Step
      BY <3>1
    <3>3. Untold' \subseteq Untold
      BY <1>0, <2>1, <3>1, OwedNames
    <3>4. UntoldRows' \subseteq UntoldRows
      BY <1>0, <2>1, OwedNames
    <3>5. \A n \in DOMAIN results : results[n].step # Step
      BY <2>1, NewestName
    <3>6. \A s : s \in UnlinkedSteps' => s \in UnlinkedSteps
      BY <1>3, <2>1, <3>1, <3>2, <3>5
    <3> QED BY <1>2, <2>1, <3>3, <3>4, <3>6
  <2> QED BY <2>2, <2>3
<1>8. CASE RecordLineage
  <2>1. UNCHANGED <<told, decisions, results>> /\ at >= 0 /\ at' # -2 /\ owed = Nobody
    BY <1>8 DEF RecordLineage, Calling, Running, LedgerTypes
  <2>2. UNCHANGED <<lineage, owed>> \/ \E row : lineage' = lineage \cup {row} /\ owed' = OfRow(row)
    BY <1>8 DEF RecordLineage, OfRow
  <2> QED BY <1>0, <1>2, <1>3, <2>1, <2>2, OwedNames
<1>9. CASE RecordSystemEvent
  <2>1. /\ UNCHANGED <<decisions, lineage, results>> /\ at >= 0 /\ at' # -2
        /\ told' = told \cup {owed} /\ owed' = Nobody
    BY <1>9 DEF RecordSystemEvent, Running, LedgerTypes
  <2> QED BY <1>0, <1>2, <1>3, <2>1
<1> QED BY <1>4, <1>5, <1>6, <1>7, <1>8, <1>9 DEF Next

\* GapsCovered is kept.
LEMMA GapsKept ==
  ASSUME LedgerTypes, StepProgress, LedgerRows, GapsCovered, [Next]_vars
  PROVE  GapsCovered'
<1> DEFINE n == Cardinality(Untold) + Cardinality(UntoldRows) + Cardinality(LeftUnlinked)
           m == Cardinality(Untold') + Cardinality(UntoldRows') + Cardinality(LeftUnlinked')
<1>0. crashes \in Nat /\ n <= crashes
  BY LedgerAssumption DEF GapsCovered, LedgerTypes
<1>f. IsFiniteSet(Untold) /\ IsFiniteSet(UntoldRows) /\ IsFiniteSet(LeftUnlinked)
  BY GapsAreFinite
<1>1. CASE Crash
  <2>1. /\ UNCHANGED <<told, decisions, lineage, results>> /\ at' = -1 /\ owed' = Nobody
        /\ crashes' = crashes + 1
    BY <1>1 DEF Crash, ledger
  <2>2. /\ Untold' \subseteq Unheard /\ UntoldRows' \subseteq UnheardLineage
        /\ LeftUnlinked' \subseteq UnlinkedSteps
    BY <2>1 DEF Untold, UntoldRows, LeftUnlinked, Unheard, UnheardLineage, UnlinkedSteps, Unlinked
  <2>3. PICK x : \/ Untold' \subseteq Untold \cup {x} /\ UntoldRows' \subseteq UntoldRows /\ LeftUnlinked' \subseteq LeftUnlinked
                 \/ Untold' \subseteq Untold /\ UntoldRows' \subseteq UntoldRows \cup {x} /\ LeftUnlinked' \subseteq LeftUnlinked
                 \/ Untold' \subseteq Untold /\ UntoldRows' \subseteq UntoldRows /\ LeftUnlinked' \subseteq LeftUnlinked \cup {x}
    <3>1. PICK x : \/ Unheard \subseteq Untold \cup {x} /\ UnheardLineage \subseteq UntoldRows /\ UnlinkedSteps \subseteq LeftUnlinked
                   \/ Unheard \subseteq Untold /\ UnheardLineage \subseteq UntoldRows \cup {x} /\ UnlinkedSteps \subseteq LeftUnlinked
                   \/ Unheard \subseteq Untold /\ UnheardLineage \subseteq UntoldRows /\ UnlinkedSteps \subseteq LeftUnlinked \cup {x}
      BY GapsBound
    <3> QED BY <2>2, <3>1
  <2>4. m <= n + 1 /\ m \in Nat /\ n \in Nat
    BY <1>f, <2>3, GapsSum
  <2>5. m <= crashes + 1
    <3> HIDE DEF m, n
    <3> QED BY <1>0, <2>4
  <2> QED BY <2>1, <2>5 DEF GapsCovered
<1>2. CASE ~Crash /\ Next
  <2>1. Untold' \subseteq Untold /\ UntoldRows' \subseteq UntoldRows /\ LeftUnlinked' \subseteq LeftUnlinked
    BY <1>2, NoNewGap
  <2>2. m <= n
    BY <1>f, <2>1, GapsSame
  <2>3. m \in Nat /\ n \in Nat
    BY <1>f, <2>1, GapsSum
  <2>4. crashes' = crashes
    BY <1>2 DEF Next, StartStep, Checkpoint, Link, RecordArtifact, RecordEvent, RecordDecision,
                RecordLineage, RecordSystemEvent
  <2>5. m <= crashes
    <3> HIDE DEF m, n
    <3> QED BY <1>0, <2>2, <2>3
  <2> QED BY <2>4, <2>5 DEF GapsCovered
<1>3. CASE UNCHANGED vars
  BY <1>3 DEF GapsCovered, vars, ledger, memory, Untold, UntoldRows, LeftUnlinked, Unheard, UnheardLineage,
              UnlinkedSteps, Unlinked
<1> QED BY <1>1, <1>2, <1>3

\* A step that has not begun has no decision.
LEMMA NoDecisionAhead ==
  ASSUME LedgerTypes, LedgerRows, NEW n \in 1 .. 4, n > Len(results) + 1
  PROVE  DecisionsOf(StepOrder[n]) = {}
<1> SUFFICES ASSUME NEW d \in DOMAIN decisions, decisions[d].step = StepOrder[n] PROVE FALSE
  BY DEF DecisionsOf
<1>1. PICK m \in 1 .. 4 : m <= Len(results) + 1 /\ decisions[d].step = StepOrder[m]
  BY DEF LedgerRows
<1>2. m = n
  BY <1>1, StepOrderIs
<1> QED BY <1>1, <1>2, ResultsFacts

\* LastIsShown is kept.
LEMMA ShownKept ==
  ASSUME LedgerTypes, StepProgress, LedgerRows, LastIsShown, [Next]_vars
  PROVE  LastIsShown'
<1>0. crashes \in Nat /\ LedgerTypes' /\ at \in Int
  BY TypesKept, LedgerAssumption DEF LedgerTypes
<1> DEFINE Running1 == crashes = 0 => \A d \in DecisionsOf(Step) : at >= 0 /\ decisions[d].response = response
           Running2 == crashes = 1 => \/ \A d, e \in DecisionsOf(Step) : d = e
                                      \/ at >= 0 /\ IsLast(Step, response)
           Past == crashes < 2 => \A n \in DOMAIN results : Prompted(n) => IsLast(StepOrder[n], results[n].response)
<1>1. CASE UNCHANGED <<decisions, results>> /\ ~Crash
  <2>1. /\ crashes' = crashes /\ Step' = Step
        /\ at >= 0 => at' >= 0 /\ response' = response
    <3>1. crashes' = crashes
      BY <1>1 DEF Next, vars, StartStep, Checkpoint, Link, RecordArtifact, RecordEvent, RecordDecision,
                  RecordLineage, RecordSystemEvent
    <3>2. Step' = Step
      BY <1>1 DEF Step
    <3>3. ~Checkpoint
      <4> SUFFICES ASSUME Checkpoint PROVE FALSE
        OBVIOUS
      <4>1. Len(results') = Len(results) + 1 /\ Len(results) \in Nat
        BY Checkpointing, ResultsFacts
      <4> QED BY <1>1, <4>1
    <3>4. at >= 0 => at' >= 0 /\ response' = response
      <4>1. CASE StartStep \/ Link
        BY <4>1 DEF StartStep, Link
      <4>2. CASE RecordArtifact \/ RecordEvent
        BY <1>0, <4>2 DEF RecordArtifact, RecordEvent
      <4>3. CASE RecordDecision \/ RecordLineage \/ RecordSystemEvent
        BY <1>0, <4>3 DEF RecordDecision, RecordLineage, RecordSystemEvent
      <4>4. CASE UNCHANGED vars
        BY <4>4 DEF vars, memory
      <4> QED BY <1>1, <3>3, <4>1, <4>2, <4>3, <4>4 DEF Next
    <3> QED BY <3>1, <3>2, <3>4
  <2>2. \A step : DecisionsOf(step)' = DecisionsOf(step)
    BY <1>1 DEF DecisionsOf
  <2>3. \A step, r : IsLast(step, r) => IsLast(step, r)'
    BY <1>1, <2>2 DEF IsLast
  <2>4. \A n : Prompted(n)' <=> Prompted(n)
    BY <1>1 DEF Prompted, DraftWanted
  <2>5. Len(results) < 4 => Running1' /\ Running2'
    <3> HAVE Len(results) < 4
    <3>1. Running1 /\ Running2
      BY DEF LastIsShown
    <3>2. DecisionsOf(Step)' = DecisionsOf(Step)
      BY <1>1, <2>1 DEF DecisionsOf
    <3>3. Running1'
      BY <1>1, <2>1, <3>1, <3>2
    <3>4. IsLast(Step, response) /\ at >= 0 => IsLast(Step, response)'
      BY <1>1, <2>1, <3>2 DEF IsLast
    <3>5. Running2'
      BY <2>1, <3>1, <3>2, <3>4
    <3> QED BY <3>3, <3>5
  <2>6. Past'
    <3>1. Past
      BY DEF LastIsShown
    <3>2. ASSUME crashes < 2, NEW n \in DOMAIN results, Prompted(n)' PROVE IsLast(StepOrder[n], results[n].response)'
      <4>1. IsLast(StepOrder[n], results[n].response)
        BY <2>4, <3>1, <3>2
      <4>2. DecisionsOf(StepOrder[n])' = DecisionsOf(StepOrder[n])
        BY <2>2
      <4> QED BY <1>1, <4>1, <4>2 DEF IsLast
    <3> QED BY <1>1, <2>1, <3>2
  <2> QED BY <1>1, <2>5, <2>6 DEF LastIsShown
<1>2. CASE Crash
  <2>1. UNCHANGED <<decisions, results, response>> /\ at' = -1 /\ crashes' = crashes + 1
    BY <1>2 DEF Crash, ledger
  <2>2. Step' = Step /\ \A n : Prompted(n)' <=> Prompted(n)
    BY <2>1 DEF Step, Prompted, DraftWanted
  <2>3. DecisionsOf(Step)' = DecisionsOf(Step)
    BY <2>1, <2>2 DEF DecisionsOf
  <2>4. ASSUME Len(results) < 4, crashes = 0 PROVE \A d, e \in DecisionsOf(Step) : d = e
    <3>1. \A d \in DecisionsOf(Step) : decisions[d].response = response
      BY <2>4 DEF LastIsShown
    <3> QED BY <3>1 DEF DecisionsOf, LedgerRows
  <2>5. Past'
    <3>1. Past
      BY DEF LastIsShown
    <3>2. ASSUME crashes < 2, NEW n \in DOMAIN results, Prompted(n)' PROVE IsLast(StepOrder[n], results[n].response)'
      <4>1. IsLast(StepOrder[n], results[n].response)
        BY <2>2, <3>1, <3>2
      <4>2. DecisionsOf(StepOrder[n])' = DecisionsOf(StepOrder[n])
        BY <2>1 DEF DecisionsOf
      <4> QED BY <2>1, <4>1, <4>2 DEF IsLast
    <3>3. crashes' < 2 => crashes < 2
      BY <1>0, <2>1
    <3> QED BY <2>1, <3>2, <3>3
  <2>6. Len(results) < 4 => Running1' /\ Running2'
    <3>1. crashes' # 0 /\ (crashes' = 1 => crashes = 0)
      BY <1>0, <2>1
    <3> QED BY <2>3, <2>4, <3>1
  <2> QED BY <2>1, <2>5, <2>6 DEF LastIsShown
<1>3. CASE Checkpoint
  <2>1. UNCHANGED <<decisions, response, crashes>> /\ Running /\ at = Len(Calls)
    BY <1>3 DEF Checkpoint, ledger
  <2>2. /\ Len(results) < 4 /\ Len(results') = Len(results) + 1 /\ Len(results) \in Nat
        /\ DOMAIN results' = DOMAIN results \cup {Len(results) + 1}
        /\ \A n \in DOMAIN results : results'[n] = results[n] /\ n \in 1 .. Len(results)
        /\ results'[Len(results) + 1] = [step |-> StepOrder[Len(results) + 1], response |-> response]
        /\ Step = StepOrder[Len(results) + 1]
    BY <1>3, Checkpointing, ResultsFacts
  <2>3. \A step : DecisionsOf(step)' = DecisionsOf(step)
    BY <2>1 DEF DecisionsOf
  <2>4. Len(results') < 4 => DecisionsOf(Step)' = {}
    <3> HAVE Len(results') < 4
    <3>1. Step' = StepOrder[Len(results) + 2] /\ Len(results) + 2 \in 1 .. 4 /\ Len(results) + 2 > Len(results) + 1
      BY <2>2 DEF Step
    <3>2. DecisionsOf(StepOrder[Len(results) + 2]) = {}
      BY <3>1, NoDecisionAhead
    <3> QED BY <2>1, <3>1, <3>2 DEF DecisionsOf
  <2>5. ASSUME crashes < 2, NEW n \in DOMAIN results', Prompted(n)'
        PROVE  IsLast(StepOrder[n], results[n].response)'
    <3>1. Prompted(n)
      <4>1. CASE n = 3
        BY <4>1 DEF Prompted
      <4>2. CASE n = 4 /\ DraftWanted'
        <5>1. Len(results) = 3 /\ DOMAIN results = 1 .. Len(results)
          BY <2>2, <4>2, ResultsFacts
        <5>2. results'[3] = results[3]
          BY <2>2, <5>1
        <5> QED BY <4>2, <5>2 DEF Prompted, DraftWanted
      <4> QED BY <2>5, <4>1, <4>2 DEF Prompted
    <3>2. CASE n \in DOMAIN results
      <4>1. IsLast(StepOrder[n], results[n].response)
        BY <2>5, <3>1, <3>2 DEF LastIsShown
      <4>2. DecisionsOf(StepOrder[n])' = DecisionsOf(StepOrder[n]) /\ results'[n] = results[n]
        BY <2>2, <2>3, <3>2
      <4> QED BY <2>1, <4>1, <4>2 DEF IsLast
    <3>3. CASE n = Len(results) + 1
      <4>1. IsLast(Step, response)
        <5>1. PICK d : d \in DecisionOf(Step, response)
          BY <2>1, <3>1, <3>3, AllDone
        <5>2. d \in DecisionsOf(Step) /\ decisions[d].response = response
          BY <5>1 DEF DecisionOf, DecisionsOf
        <5>3. CASE crashes = 0
          <6>1. \A e \in DecisionsOf(Step) : decisions[e].response = response
            BY <2>2, <5>3 DEF LastIsShown
          <6>2. \A e \in DecisionsOf(Step) : e = d
            BY <5>2, <6>1 DEF LedgerRows, DecisionsOf
          <6> QED BY <5>2, <6>2, ResultsFacts DEF IsLast, DecisionsOf
        <5>4. CASE crashes = 1
          <6>1. (\A e, f \in DecisionsOf(Step) : e = f) \/ IsLast(Step, response)
            BY <2>2, <5>4 DEF LastIsShown
          <6>2. CASE \A e, f \in DecisionsOf(Step) : e = f
            BY <5>2, <6>2, ResultsFacts DEF IsLast, DecisionsOf
          <6> QED BY <6>1, <6>2
        <5> QED BY <1>0, <2>5, <5>3, <5>4
      <4>2. DecisionsOf(StepOrder[n])' = DecisionsOf(StepOrder[n]) /\ results'[n].response = response
        BY <2>2, <2>3, <3>3
      <4> QED BY <2>1, <2>2, <3>3, <4>1, <4>2 DEF IsLast
    <3> QED BY <2>2, <3>2, <3>3
  <2>6. Past'
    BY <2>1, <2>5
  <2>7. Len(results') < 4 => Running1' /\ Running2'
    BY <2>4
  <2> QED BY <2>6, <2>7 DEF LastIsShown
<1>4. CASE Link
  <2>1. UNCHANGED <<results, response, crashes>> /\ at = -2 /\ at' = -1
    BY <1>4 DEF Link
  <2>2. Step' = Step /\ \A n : Prompted(n)' <=> Prompted(n)
    BY <2>1 DEF Step, Prompted, DraftWanted
  <2>3. /\ \A step : DecisionsOf(step)' = DecisionsOf(step)
        /\ \A d \in DOMAIN decisions : decisions'[d].response = decisions[d].response
    BY <1>4, Linked DEF DecisionsOf
  <2>4. DecisionsOf(Step)' = DecisionsOf(Step)
    BY <1>4, <2>2, Linked DEF DecisionsOf
  <2>5. Len(results) < 4 => Running1' /\ Running2'
    <3> HAVE Len(results) < 4
    <3>1. Running1 /\ Running2
      BY DEF LastIsShown
    <3>2. (crashes = 0 => DecisionsOf(Step) = {}) /\ (crashes = 1 => \A d, e \in DecisionsOf(Step) : d = e)
      BY <2>1, <3>1
    <3> QED BY <2>1, <2>4, <3>2
  <2>6. Past'
    <3>1. Past
      BY DEF LastIsShown
    <3>2. ASSUME crashes < 2, NEW n \in DOMAIN results, Prompted(n)' PROVE IsLast(StepOrder[n], results[n].response)'
      <4>1. IsLast(StepOrder[n], results[n].response)
        BY <2>2, <3>1, <3>2
      <4>2. DecisionsOf(StepOrder[n])' = DecisionsOf(StepOrder[n])
        BY <2>3
      <4>3. \A d \in DecisionsOf(StepOrder[n]) : decisions'[d].response = decisions[d].response
        BY <2>3 DEF DecisionsOf
      <4> QED BY <2>1, <4>1, <4>2, <4>3 DEF IsLast
    <3> QED BY <2>1, <3>2
  <2> QED BY <2>1, <2>5, <2>6 DEF LastIsShown
<1>5. CASE RecordDecision /\ DecisionOf(Step, response) = {}
  <2> DEFINE k == Len(decisions) + 1
  <2>1. UNCHANGED <<results, response, crashes>> /\ at >= 0 /\ Len(results) < 4
    BY <1>5 DEF RecordDecision, Calling, Running, StepOrder
  <2>2. Step' = Step /\ \A n : Prompted(n)' <=> Prompted(n)
    BY <2>1 DEF Step, Prompted, DraftWanted
  <2>3. /\ DOMAIN decisions' = DOMAIN decisions \cup {k} /\ at' = at
        /\ \A d \in DOMAIN decisions : decisions'[d] = decisions[d] /\ d < k /\ d \in Nat
        /\ decisions'[k] = [step |-> Step, response |-> response, result |-> 0] /\ k \in Nat
    BY <1>5, DecisionAdded, ResultsFacts
  <2> HIDE DEF k
  <2>4. decisions'[k].step = Step /\ decisions'[k].response = response
    BY <2>3
  <2>5. DecisionsOf(Step)' = DecisionsOf(Step) \cup {k}
    BY <2>2, <2>3, <2>4 DEF DecisionsOf
  <2>6. Running1 /\ Running2
    BY <2>1 DEF LastIsShown
  <2>7. ~IsLast(Step, response) /\ \A d \in DecisionsOf(Step) : decisions[d].response # response
    BY <1>5 DEF IsLast, DecisionOf, DecisionsOf
  <2>8. Running1'
    <3>1. crashes = 0 => DecisionsOf(Step) = {}
      BY <2>6, <2>7
    <3> QED BY <2>1, <2>3, <2>4, <2>5, <3>1
  <2>9. Running2'
    <3>1. IsLast(Step, response)'
      <4>1. \A e \in DecisionsOf(Step)' : e <= k
        BY <2>3, <2>5 DEF DecisionsOf
      <4>2. k \in DecisionsOf(Step)' /\ decisions'[k].response = response'
        BY <2>1, <2>4, <2>5
      <4> QED BY <4>1, <4>2 DEF IsLast
    <3> QED BY <2>1, <2>3, <3>1
  <2>10. Past'
    <3>1. Past
      BY DEF LastIsShown
    <3>2. ASSUME crashes < 2, NEW n \in DOMAIN results, Prompted(n)' PROVE IsLast(StepOrder[n], results[n].response)'
      <4>1. IsLast(StepOrder[n], results[n].response)
        BY <2>2, <3>1, <3>2
      <4>2. StepOrder[n] # Step
        BY <2>1, NewestName
      <4>3. DecisionsOf(StepOrder[n])' = DecisionsOf(StepOrder[n])
        BY <2>3, <2>4, <4>2 DEF DecisionsOf
      <4>4. \A d \in DecisionsOf(StepOrder[n]) : decisions'[d].response = decisions[d].response
        BY <2>3 DEF DecisionsOf
      <4> QED BY <2>1, <4>1, <4>3, <4>4 DEF IsLast
    <3> QED BY <2>1, <3>2
  <2> QED BY <2>8, <2>9, <2>10 DEF LastIsShown
<1>6. \/ UNCHANGED <<decisions, results>> /\ ~Crash
      \/ Crash \/ Checkpoint \/ Link
      \/ RecordDecision /\ DecisionOf(Step, response) = {}
  <2>1. CASE RecordDecision
    <3>1. Call.response = response
      BY <2>1, DecisionNow DEF RecordDecision
    <3>2. CASE DecisionOf(Step, response) # {}
      <4>1. UNCHANGED <<decisions, results>> /\ at' # -1
        BY <1>0, <2>1, <3>1, <3>2 DEF RecordDecision, Calling, Running
      <4> QED BY <4>1 DEF Crash
    <3> QED BY <2>1, <3>2
  <2>2. CASE ~RecordDecision
    <3>1. UNCHANGED <<decisions, results>> \/ Crash \/ Checkpoint \/ Link
      <4>1. CASE StartStep \/ UNCHANGED vars
        BY <4>1 DEF vars, ledger, StartStep
      <4>2. CASE RecordArtifact \/ RecordEvent
        BY <4>2 DEF RecordArtifact, RecordEvent
      <4>3. CASE RecordLineage \/ RecordSystemEvent
        BY <4>3 DEF RecordLineage, RecordSystemEvent
      <4> QED BY <2>2, <4>1, <4>2, <4>3 DEF Next
    <3> QED BY <3>1
  <2> QED BY <2>1, <2>2
<1> QED BY <1>1, <1>2, <1>3, <1>4, <1>5, <1>6

-----------------------------------------------------------------------------
(* What follows from it.                                                   *)

\* A finite set of numbers has a largest one.
LEMMA LargestExists ==
  ASSUME NEW n \in Nat, NEW s \in SUBSET (1 .. n), s # {}
  PROVE  \E d \in s : \A other \in s : other <= d
<1> DEFINE T == {m \in Nat : \A t \in SUBSET (1 .. m) : t # {} => \E d \in t : \A other \in t : other <= d}
<1>1. 0 \in T
  <2>1. 1 .. 0 = {}
    OBVIOUS
  <2> QED BY <2>1
<1>2. ASSUME NEW m \in T PROVE m + 1 \in T
  <2> SUFFICES ASSUME NEW t \in SUBSET (1 .. m + 1), t # {} PROVE \E d \in t : \A other \in t : other <= d
    OBVIOUS
  <2>1. CASE m + 1 \in t
    BY <2>1
  <2>2. CASE m + 1 \notin t
    <3>1. t \in SUBSET (1 .. m)
      BY <2>2
    <3> QED BY <3>1
  <2> QED BY <2>1, <2>2
<1>3. Nat \subseteq T
  <2> HIDE DEF T
  <2> QED BY <1>1, <1>2, Induction
<1> QED BY <1>3

\* The invariant holds at first.
LEMMA InitCovered == Init => LedgerInv
<1> SUFFICES ASSUME Init PROVE LedgerInv
  OBVIOUS
<1> USE DEF Init
<1>1. LedgerTypes
  BY LedgerAssumption DEF LedgerTypes
<1>2. Len(results) = 0 /\ DOMAIN results = {} /\ DOMAIN decisions = {}
  OBVIOUS
<1>3. StepProgress
  BY DEF StepProgress
<1>4. LedgerRows
  BY <1>2, FS_EmptySet DEF LedgerRows
<1>5. EventTrail
  BY DEF EventTrail
<1>6. Checkpointed
  BY <1>2 DEF Checkpointed
<1>7. GapsCovered
  <2>1. Untold = {} /\ UntoldRows = {} /\ LeftUnlinked = {}
    BY <1>2 DEF Untold, UntoldRows, LeftUnlinked, Unheard, UnheardLineage, UnlinkedSteps, Unlinked
  <2> QED BY <2>1, FS_EmptySet DEF GapsCovered
<1>8. LastIsShown
  <2>1. \A step : DecisionsOf(step) = {}
    BY <1>2 DEF DecisionsOf
  <2> QED BY <1>2, <2>1 DEF LastIsShown
<1> QED BY <1>1, <1>3, <1>4, <1>5, <1>6, <1>7, <1>8 DEF LedgerInv

\* LedgerInv holds in every state of the ledger.
THEOREM LedgerCovered == Spec => []LedgerInv
<1>1. Init => LedgerInv
  BY InitCovered
<1>2. LedgerInv /\ [Next]_vars => LedgerInv'
  BY TypesKept, ProgressKept, RowsKept, TrailKept, CheckpointedKept, GapsKept, ShownKept DEF LedgerInv
<1> QED BY <1>1, <1>2, PTL DEF Spec

\* Every variable keeps its type, every lineage row names a decision and every event an artifact
\* that is there, and no decision is linked to a result that is not (ledger.py:93, 156, 290).
THEOREM TypeCorrect == Spec => []TypeOK
<1>1. LedgerInv => TypeOK
  <2> SUFFICES ASSUME LedgerInv PROVE TypeOK
    OBVIOUS
  <2> USE DEF LedgerInv
  <2>1. at \in Int /\ at >= -2 /\ crashes \in 0 .. MaxCrashes /\ response \in Responses
    BY DEF LedgerTypes
  <2>2. \A l \in lineage : l.decision \in DOMAIN decisions /\ l.item \in Items \cup {Email}
    <3> TAKE l \in lineage
    <3>1. l.decision \in DOMAIN decisions /\ l.item \in Mounted
      BY DEF LedgerRows, Influential
    <3> QED BY <3>1, MountedFacts, IdFacts
  <2>3. \A e \in events : e.key \in artifacts
    BY DEF EventTrail
  <2>4. \A d \in DOMAIN decisions : decisions[d].result \in 0 .. Len(results)
    BY ResultsFacts DEF LedgerRows
  <2> QED BY <2>1, <2>2, <2>3, <2>4 DEF TypeOK
<1> QED BY <1>1, LedgerCovered, PTL

\* For any number of crashes: each gap in the ledger - a decision or lineage row no event tells of,
\* a decision no result is linked to - was paid for by a crash between two transactions.
THEOREM GapsPaid == Spec => []GapsPaidByCrashes
<1>1. LedgerInv => GapsPaidByCrashes
  <2> SUFFICES ASSUME LedgerInv PROVE GapsPaidByCrashes
    OBVIOUS
  <2> USE DEF LedgerInv
  <2> DEFINE n == Cardinality(Untold) + Cardinality(UntoldRows) + Cardinality(LeftUnlinked)
             m == Cardinality(Unheard) + Cardinality(UnheardLineage) + Cardinality(UnlinkedSteps)
  <2>1. n <= crashes /\ crashes \in Nat
    BY LedgerAssumption DEF GapsCovered, LedgerTypes
  <2>2. IsFiniteSet(Untold) /\ IsFiniteSet(UntoldRows) /\ IsFiniteSet(LeftUnlinked)
    BY GapsAreFinite
  <2>3. m <= n + 1 /\ m \in Nat /\ n \in Nat
    BY <2>2, GapsBound, GapsSum
  <2>4. CASE owed # Nobody \/ at = -2
    <3>1. m <= crashes + 1
      <4> HIDE DEF m, n
      <4> QED BY <2>1, <2>3
    <3> QED BY <2>4, <3>1 DEF GapsPaidByCrashes
  <2>5. CASE ~(owed # Nobody \/ at = -2)
    <3>1. Unheard \subseteq Untold /\ UnheardLineage \subseteq UntoldRows /\ UnlinkedSteps \subseteq LeftUnlinked
      BY <2>5, OwedNames DEF Untold, UntoldRows, LeftUnlinked, OfDecision, OfRow
    <3>2. m <= n
      BY <2>2, <3>1, GapsSame
    <3>3. m <= crashes + 0
      <4> HIDE DEF m, n
      <4> QED BY <2>1, <2>3, <3>2
    <3> QED BY <2>5, <3>3 DEF GapsPaidByCrashes
  <2> QED BY <2>4, <2>5
<1> QED BY <1>1, LedgerCovered, PTL

\* A source key names its item.
LEMMA SourceNames ==
  /\ \A a, b : Source(a) = Source(b) => a = b
  /\ \A a : Source(a).role = "source_artifact" /\ Source(a).source = a
BY DEF Source

\* The decision that is shown is the last of its step.
LEMMA ShownFacts ==
  ASSUME LedgerTypes, NEW step
  PROVE  /\ DecisionsOf(step) = {} => Shown(step) = 0
         /\ DecisionsOf(step) # {} =>
              Shown(step) \in DecisionsOf(step) /\ \A e \in DecisionsOf(step) : e <= Shown(step)
<1> DEFINE ds == DecisionsOf(step)
<1>1. Shown(step) = IF ds = {} THEN 0 ELSE CHOOSE d \in ds : \A other \in ds : other <= d
  BY DEF Shown, DecisionsOf
<1>2. ds \in SUBSET (1 .. Len(decisions)) /\ Len(decisions) \in Nat
  BY ResultsFacts DEF DecisionsOf
<1>3. ds # {} => \E d \in ds : \A other \in ds : other <= d
  BY <1>2, LargestExists
<1> HIDE DEF ds
<1>4. ds # {} => Shown(step) \in ds /\ \A e \in ds : e <= Shown(step)
  BY <1>1, <1>3
<1> QED BY <1>1, <1>4 DEF ds

\* For every corpus, budget and model: the trail of a source only goes forward, however often a
\* step was run again, and credit goes to what was mounted into the prompt of that very step.
THEOREM TrailInOrder == Spec => []LifecycleOrder
<1>1. LedgerInv => LifecycleOrder
  <2> SUFFICES ASSUME LedgerInv PROVE LifecycleOrder
    OBVIOUS
  <2> USE DEF LedgerInv
  <2>1. \A type, key : key \in With(type) <=> \E e \in events : e.type = type /\ e.key = key
    BY DEF With
  <2>2. \A step, key, type : type \in Types(step, key) <=> \E e \in events : e.step = step /\ e.key = key /\ e.type = type
    BY DEF Types
  <2>3. ASSUME NEW step \in {"triage_llm", "draft_reply"}
        PROVE  /\ RejectedContext(step) = {}
               /\ \A d \in DOMAIN decisions : decisions[d].step = step =>
                    \A item \in CreditedTo(d) : "consumed" \in Types(step, Source(item))
               /\ \A key \in MountedContext(step) :
                    InfluenceLabel(step, key) = "influential" => "consumed" \in Types(step, key)
    <3>1. RejectedContext(step) = {}
      <4>1. \A key : "rejected" \notin Types(step, key)
        BY <2>2 DEF EventTrail
      <4> QED BY <4>1 DEF RejectedContext
    <3>2. ASSUME NEW d \in DOMAIN decisions, decisions[d].step = step, NEW item \in CreditedTo(d)
          PROVE  "consumed" \in Types(step, Source(item))
      <4>1. PICK l \in lineage : l.decision = d /\ l.item = item
        BY <3>2 DEF CreditedTo
      <4>2. [step |-> step, key |-> Source(item), type |-> "consumed"] \in events
        BY <3>2, <4>1 DEF LedgerRows
      <4> DEFINE e == [step |-> step, key |-> Source(item), type |-> "consumed"]
      <4>3. e \in events /\ e.step = step /\ e.key = Source(item) /\ e.type = "consumed"
        BY <4>2
      <4> QED BY <2>2, <4>3
    <3>3. ASSUME NEW key \in MountedContext(step), InfluenceLabel(step, key) = "influential"
          PROVE  "consumed" \in Types(step, key)
      <4>1. key.role = "source_artifact" /\ key.source \in CreditedTo(Shown(step))
        BY <3>3 DEF InfluenceLabel
      <4>2. PICK l \in lineage : l.decision = Shown(step) /\ l.item = key.source
        BY <4>1 DEF CreditedTo
      <4>3. Shown(step) \in DOMAIN decisions
        BY <4>2 DEF LedgerRows
      <4>4. decisions[Shown(step)].step = step
        <5>1. \A d \in DOMAIN decisions : d \in Nat /\ d # 0
          BY ResultsFacts
        <5>2. Shown(step) \in DecisionsOf(step)
          BY <4>3, <5>1, ShownFacts
        <5> QED BY <5>2 DEF DecisionsOf
      <4>5. "consumed" \in Types(step, Source(key.source))
        BY <3>2, <4>1, <4>3, <4>4
      <4>6. key = Source(key.source)
        <5>1. key \in Keys
          BY <3>3 DEF MountedContext, LedgerTypes
        <5>2. \A x, r : Prompt(x).role # "source_artifact" /\ Answer(x, r).role # "source_artifact"
          BY DEF Prompt, Answer
        <5>3. PICK x \in Names : key = Source(x)
          BY <4>1, <5>1, <5>2 DEF Keys
        <5> QED BY <5>3, SourceNames
      <4> QED BY <4>5, <4>6
    <3> QED BY <3>1, <3>2, <3>3
  <2>4. With("selected") \cup With("rejected") \subseteq With("retrieved")
    BY <2>1 DEF EventTrail
  <2>5. With("selected") \cap With("rejected") = {}
    <3> SUFFICES ASSUME NEW key \in With("selected"), key \in With("rejected") PROVE FALSE
      OBVIOUS
    <3>1. PICK i \in DOMAIN Selected : key = Source(Selected[i])
      BY <2>1 DEF EventTrail
    <3>2. PICK j \in DOMAIN Rejected : key = Source(Rejected[j])
      BY <2>1 DEF EventTrail
    <3> QED BY <3>1, <3>2, SourceNames, SelectionFacts
  <2>6. ASSUME NEW key \in With("consumed"), key.role = "source_artifact"
        PROVE  key \notin With("rejected") /\ (key = Source(Email) \/ key \in With("selected"))
    <3>1. Len(results) >= 2 /\ \E item \in Mounted : key = Source(item)
      BY <2>1, <2>6 DEF EventTrail
    <3>2. PICK item \in Mounted : key = Source(item)
      BY <3>1
    <3>3. key \notin With("rejected")
      <4>1. ASSUME NEW j \in DOMAIN Rejected PROVE key # Source(Rejected[j])
        <5>1. item # Rejected[j]
          BY MountedFacts, IdFacts, SelectionFacts
        <5> QED BY <3>2, <5>1, SourceNames
      <4> QED BY <2>1, <4>1 DEF EventTrail
    <3>4. CASE item = Email
      BY <3>2, <3>3, <3>4
    <3>5. CASE \E i \in DOMAIN Selected : item = Selected[i]
      <4>1. Observed(key, "selected")
        BY <3>1, <3>2, <3>5 DEF Checkpointed
      <4> QED BY <2>1, <3>3, <4>1 DEF Observed
    <3> QED BY <3>4, <3>5, MountedFacts
  <2> QED BY <2>3, <2>4, <2>5, <2>6 DEF LifecycleOrder
<1> QED BY <1>1, LedgerCovered, PTL

\* Once a step is checkpointed the ledger holds what its run should have left, whatever the
\* attempts before it left: no early return skips the rest.
THEOREM AuditIsComplete == Spec => []AuditComplete
<1>1. LedgerInv => AuditComplete
  <2> SUFFICES ASSUME LedgerInv PROVE AuditComplete
    OBVIOUS
  <2> USE DEF LedgerInv
  <2>1. ASSUME Len(results) >= 2
        PROVE  /\ Complete(Sources(Items), With("retrieved"))
               /\ Complete(Sources(Range(Selected)), With("selected"))
    <3>1. \A expected, observed : expected \subseteq observed => Complete(expected, observed)
      <4> TAKE expected, observed
      <4> HAVE expected \subseteq observed
      <4>1. expected \cap observed = expected
        OBVIOUS
      <4> QED BY <4>1 DEF Complete, Coverage
    <3>2. Sources(Items) \subseteq With("retrieved")
      BY <2>1 DEF Checkpointed, Observed, Sources, With
    <3>3. Sources(Range(Selected)) \subseteq With("selected")
      <4>1. \A x \in Range(Selected) : \E i \in DOMAIN Selected : x = Selected[i]
        BY DEF Range
      <4> QED BY <2>1, <4>1 DEF Checkpointed, Observed, Sources, With
    <3> QED BY <3>1, <3>2, <3>3
  <2>2. ASSUME NEW n \in DOMAIN results, n = 3 \/ (n = 4 /\ DraftWanted)
        PROVE  LET step == results[n].step
                   mine == DecisionOf(step, results[n].response)
               IN  /\ \A item \in Mounted : "consumed" \in Types(step, Source(item))
                   /\ Cardinality(mine) = 1
                   /\ \A d \in mine : CreditedTo(d) = Influential(results[n].response)
    <3> DEFINE step == results[n].step
               r == results[n].response
               mine == DecisionOf(step, r)
    <3>1. /\ step = StepOrder[n]
          /\ \A item \in Mounted : [step |-> step, key |-> Source(item), type |-> "consumed"] \in events
          /\ \E d \in mine : \A item \in Influential(r) : [decision |-> d, item |-> item] \in lineage
      BY <2>2 DEF LedgerTypes, Checkpointed, Prompted
    <3> HIDE DEF step, r
    <3>2. \A item \in Mounted : "consumed" \in Types(step, Source(item))
      <4> TAKE item \in Mounted
      <4> DEFINE e == [step |-> step, key |-> Source(item), type |-> "consumed"]
      <4>1. e \in events /\ e.step = step /\ e.key = Source(item) /\ e.type = "consumed"
        BY <3>1
      <4> QED BY <4>1 DEF Types
    <3>3. PICK d \in mine : \A item \in Influential(r) : [decision |-> d, item |-> item] \in lineage
      BY <3>1
    <3>4. mine = {d}
      BY <3>3 DEF DecisionOf, LedgerRows
    <3>5. Cardinality(mine) = 1
      BY <3>4, FS_Singleton
    <3>6. CreditedTo(d) = Influential(r)
      <4>1. ASSUME NEW item \in Influential(r) PROVE item \in CreditedTo(d)
        <5> DEFINE l == [decision |-> d, item |-> item]
        <5>1. l \in lineage /\ l.decision = d /\ l.item = item
          BY <3>3
        <5> QED BY <5>1 DEF CreditedTo
      <4>2. ASSUME NEW item \in CreditedTo(d) PROVE item \in Influential(r)
        <5>1. PICK l \in lineage : l.decision = d /\ l.item = item
          BY <4>2 DEF CreditedTo
        <5>2. decisions[d].response = r
          BY <3>3 DEF DecisionOf
        <5> QED BY <5>1, <5>2 DEF LedgerRows
      <4> QED BY <4>1, <4>2
    <3> QED BY <3>2, <3>4, <3>5, <3>6 DEF step, r
  <2> QED BY <2>1, <2>2 DEF AuditComplete
<1> QED BY <1>1, LedgerCovered, PTL

\* With at most one crash the decision the audit shows is the one the checkpointed response made.
THEOREM CheckpointShown == Spec => []AuditShowsCheckpoint
<1>1. LedgerInv => AuditShowsCheckpoint
  <2> SUFFICES ASSUME LedgerInv, crashes < 2, NEW n \in DOMAIN results, n = 3 \/ (n = 4 /\ DraftWanted)
               PROVE  /\ Shown(results[n].step) # 0
                      /\ decisions[Shown(results[n].step)].response = results[n].response
    BY DEF AuditShowsCheckpoint
  <2> USE DEF LedgerInv
  <2>1. results[n].step = StepOrder[n] /\ IsLast(StepOrder[n], results[n].response)
    BY DEF LedgerTypes, LastIsShown, Prompted
  <2>2. PICK d \in DecisionsOf(StepOrder[n]) :
          decisions[d].response = results[n].response /\ \A e \in DecisionsOf(StepOrder[n]) : e <= d
    BY <2>1 DEF IsLast
  <2>3. Shown(StepOrder[n]) \in DecisionsOf(StepOrder[n]) /\ d <= Shown(StepOrder[n])
    BY <2>2, ShownFacts
  <2>4. \A e \in DecisionsOf(StepOrder[n]) : e \in Nat /\ e # 0
    BY ResultsFacts DEF DecisionsOf
  <2>5. Shown(StepOrder[n]) = d
    BY <2>2, <2>3, <2>4
  <2> QED BY <2>1, <2>2, <2>4, <2>5
<1> QED BY <1>1, LedgerCovered, PTL
-----------------------------------------------------------------------------
(* The selector by itself, for every corpus and budget.                    *)

\* Whether the k-th candidate has room when u tokens are used.
HasRoom(u, c, budget) == c.item.tokens > 0 /\ u + c.item.tokens <= budget

\* p has the fields of a packing.
Whole(p) ==
  p = [selected |-> p.selected, rejected |-> p.rejected, reason |-> p.reason, used |-> p.used]

\* The fields of what Take returns, and of what Reject returns.
LEMMA TakeFields ==
  ASSUME NEW p, NEW c, Whole(p)
  PROVE  /\ Take(p, c).selected = Append(p.selected, c) /\ Take(p, c).rejected = p.rejected
         /\ Take(p, c).used = p.used + c.item.tokens
<1>1. \A a, b, r, u :
        LET x == [selected |-> a, rejected |-> b, reason |-> r, used |-> u]
        IN  x.selected = a /\ x.rejected = b /\ x.used = u
  OBVIOUS
<1>2. Take(p, c) = [selected |-> Append(p.selected, c), rejected |-> p.rejected,
                    reason |-> p.reason, used |-> p.used + c.item.tokens]
  BY TakeIs DEF Whole
<1> QED BY <1>1, <1>2

LEMMA RejectFields ==
  ASSUME NEW p, NEW c, NEW why, Whole(p)
  PROVE  /\ Reject(p, c, why).selected = p.selected
         /\ Reject(p, c, why).rejected = Append(p.rejected, c)
         /\ Reject(p, c, why).used = p.used
<1>1. \A a, b, r, u :
        LET x == [selected |-> a, rejected |-> b, reason |-> r, used |-> u]
        IN  x.selected = a /\ x.rejected = b /\ x.used = u
  OBVIOUS
<1>2. Reject(p, c, why) = [selected |-> p.selected, rejected |-> Append(p.rejected, c),
                           reason |-> Append(p.reason, why), used |-> p.used]
  BY TakeIs DEF Whole
<1> QED BY <1>1, <1>2

\* Pack adds a candidate to what is selected when it has room, else to what is rejected.
LEMMA PackSorts ==
  ASSUME NEW n \in Nat, NEW seq, IsRanking(seq, n), NEW k \in 1 .. n, NEW p, NEW budget \in Int,
         Splits(p, seq, k - 1), seq[k].item.tokens \in Int, p.used \in Int
  PROVE  IF HasRoom(p.used, seq[k], budget)
         THEN /\ Pack(p, seq[k], budget).used = p.used + seq[k].item.tokens
              /\ In(Pack(p, seq[k], budget).selected, seq[k])
         ELSE /\ Pack(p, seq[k], budget).used = p.used
              /\ In(Pack(p, seq[k], budget).rejected, seq[k])
<1> DEFINE S == {seq[r] : r \in 1 .. k - 1}
           c == seq[k]
           q == Pack(p, c, budget)
<1>1. p.selected \in Seq(S) /\ p.rejected \in Seq(S) /\ Whole(p)
  BY DEF Splits, Whole
<1>2. In(Append(p.selected, c), c) /\ In(Append(p.rejected, c), c)
  <2>1. \A x \in Seq(S) : In(Append(x, c), c)
    <3> TAKE x \in Seq(S)
    <3>1. S \subseteq S \cup {c} /\ c \in S \cup {c}
      OBVIOUS
    <3> HIDE DEF S, c
    <3>2. \A z : In(Append(x, c), z) <=> In(x, z) \/ z = c
      BY <3>1, AppendHas
    <3> QED BY <3>2
  <2> QED BY <1>1, <2>1
<1> HIDE DEF S, c
<1>3. Take(p, c).selected = Append(p.selected, c) /\ Take(p, c).used = p.used + c.item.tokens
  BY <1>1, TakeFields
<1>4. ASSUME NEW why
      PROVE  Reject(p, c, why).rejected = Append(p.rejected, c) /\ Reject(p, c, why).used = p.used
  BY <1>1, RejectFields
<1>5. IF HasRoom(p.used, c, budget) THEN q = Take(p, c) ELSE \E why : q = Reject(p, c, why)
  <2>1. c.item.tokens \in Int /\ p.used \in Int
    BY DEF c
  <2> QED BY <2>1 DEF HasRoom, Pack
<1>6. IF HasRoom(p.used, c, budget)
      THEN q.used = p.used + c.item.tokens /\ In(q.selected, c)
      ELSE q.used = p.used /\ In(q.rejected, c)
  <2> HIDE DEF q
  <2> QED BY <1>2, <1>3, <1>4, <1>5
<1> QED BY <1>6 DEF c, q

\* What is selected stays selected while the next candidate is packed.
LEMMA PackKeeps ==
  ASSUME NEW n \in Nat, NEW seq, IsRanking(seq, n), NEW k \in 1 .. n, NEW p, NEW budget,
         Splits(p, seq, k - 1)
  PROVE  \A x : /\ In(p.selected, x) => In(Pack(p, seq[k], budget).selected, x)
                /\ In(p.rejected, x) => In(Pack(p, seq[k], budget).rejected, x)
<1> DEFINE S == {seq[r] : r \in 1 .. k - 1}
           c == seq[k]
           q == Pack(p, c, budget)
<1>1. p.selected \in Seq(S) /\ p.rejected \in Seq(S) /\ Whole(p)
  BY DEF Splits, Whole
<1>2. \A x : /\ In(p.selected, x) => In(Append(p.selected, c), x)
             /\ In(p.rejected, x) => In(Append(p.rejected, c), x)
  <2>1. \A y \in Seq(S) : \A x : In(y, x) => In(Append(y, c), x)
    <3> TAKE y \in Seq(S)
    <3>1. S \subseteq S \cup {c} /\ c \in S \cup {c}
      OBVIOUS
    <3> HIDE DEF S, c
    <3> QED BY <3>1, AppendHas
  <2> QED BY <1>1, <2>1
<1> HIDE DEF S, c
<1>3. Take(p, c).selected = Append(p.selected, c) /\ Take(p, c).rejected = p.rejected
  BY <1>1, TakeFields
<1>4. ASSUME NEW why
      PROVE  /\ Reject(p, c, why).rejected = Append(p.rejected, c)
             /\ Reject(p, c, why).selected = p.selected
  BY <1>1, RejectFields
<1>5. q = Take(p, c) \/ \E why : q = Reject(p, c, why)
  BY DEF Pack
<1> HIDE DEF q
<1>6. \A x : /\ In(p.selected, x) => In(q.selected, x)
             /\ In(p.rejected, x) => In(q.rejected, x)
  BY <1>2, <1>3, <1>4, <1>5
<1> QED BY <1>6 DEF c, q

\* Every candidate is where its room says, and the tokens are counted.
LEMMA PackAllSorts ==
  ASSUME NEW n \in Nat, NEW seq, IsRanking(seq, n), NEW budget \in Nat,
         \A r \in 1 .. n : seq[r].item.tokens \in Int
  PROVE  /\ Splits(PackAll(seq, budget), seq, n)
         /\ \E u \in [0 .. n -> 0 .. budget] :
              /\ u[0] = 0 /\ u[n] = PackAll(seq, budget).used
              /\ \A m \in 1 .. n :
                   IF HasRoom(u[m - 1], seq[m], budget)
                   THEN u[m] = u[m - 1] + seq[m].item.tokens /\ In(PackAll(seq, budget).selected, seq[m])
                   ELSE u[m] = u[m - 1] /\ In(PackAll(seq, budget).rejected, seq[m])
<1> DEFINE P(k) == PackedUpTo(seq, budget, n, k)
           S(k) == /\ P(k).used \in 0 .. budget /\ Splits(P(k), seq, k)
                   /\ \A m \in 1 .. k :
                        IF HasRoom(P(m - 1).used, seq[m], budget)
                        THEN P(m).used = P(m - 1).used + seq[m].item.tokens /\ In(P(k).selected, seq[m])
                        ELSE P(m).used = P(m - 1).used /\ In(P(k).rejected, seq[m])
           T == {k \in Nat : k <= n => S(k)}
<1>d. DOMAIN seq = 1 .. n
  BY DEF IsRanking
<1>e. \A m \in 1 .. n : P(m) = Pack(P(m - 1), seq[m], budget)
  <2> SUFFICES ASSUME NEW m \in 1 .. n PROVE P(m) = Pack(P(m - 1), seq[m], budget)
    OBVIOUS
  <2> QED BY <1>d, FoldStep
<1>1. 0 \in T
  <2>1. P(0) = Nothing
    BY <1>d, FoldIsPacking
  <2>2. Splits(Nothing, seq, 0) /\ Nothing.used = 0
    BY DEF Splits, Nothing
  <2>3. 1 .. 0 = {} /\ 0 \in 0 .. budget
    OBVIOUS
  <2> HIDE DEF P
  <2> QED BY <2>1, <2>2, <2>3
<1>2. ASSUME NEW k \in T PROVE k + 1 \in T
  <2> SUFFICES ASSUME k + 1 <= n PROVE S(k + 1)
    BY <1>2
  <2>1. /\ k \in Nat /\ k + 1 \in 1 .. n /\ (k + 1) - 1 = k /\ S(k)
        /\ \A m \in 1 .. k + 1 : m \in 1 .. k \/ m = k + 1
    BY <1>2
  <2>2. P(k + 1) = Pack(P(k), seq[k + 1], budget)
    <3>1. P(k + 1) = Pack(P((k + 1) - 1), seq[k + 1], budget)
      <4> HIDE DEF P
      <4> QED BY <1>e, <2>1
    <3> HIDE DEF P
    <3> QED BY <2>1, <3>1
  <2> HIDE DEF P
  <2>3. Splits(P(k), seq, (k + 1) - 1) /\ P(k).used \in Int /\ P(k).used \in 0 .. budget
    BY <2>1
  <2>4. seq[k + 1].item.tokens \in Int
    BY <2>1
  <2>5. Splits(P(k + 1), seq, k + 1)
    BY <2>1, <2>2, <2>3, PackSplits
  <2>6. IF HasRoom(P(k).used, seq[k + 1], budget)
        THEN P(k + 1).used = P(k).used + seq[k + 1].item.tokens /\ In(P(k + 1).selected, seq[k + 1])
        ELSE P(k + 1).used = P(k).used /\ In(P(k + 1).rejected, seq[k + 1])
    BY <2>1, <2>2, <2>3, <2>4, PackSorts
  <2>7. \A x : /\ In(P(k).selected, x) => In(P(k + 1).selected, x)
               /\ In(P(k).rejected, x) => In(P(k + 1).rejected, x)
    <3>1. \A x : /\ In(P(k).selected, x) => In(Pack(P(k), seq[k + 1], budget).selected, x)
                 /\ In(P(k).rejected, x) => In(Pack(P(k), seq[k + 1], budget).rejected, x)
      BY <2>1, <2>3, PackKeeps
    <3> QED BY <2>2, <3>1
  <2>8. P(k + 1).used \in 0 .. budget
    <3>1. \A u, t \in Int : u \in 0 .. budget /\ t > 0 /\ u + t <= budget => u + t \in 0 .. budget
      OBVIOUS
    <3> QED BY <2>3, <2>4, <2>6, <3>1 DEF HasRoom
  <2>9. ASSUME NEW m \in 1 .. k + 1
        PROVE  IF HasRoom(P(m - 1).used, seq[m], budget)
               THEN P(m).used = P(m - 1).used + seq[m].item.tokens /\ In(P(k + 1).selected, seq[m])
               ELSE P(m).used = P(m - 1).used /\ In(P(k + 1).rejected, seq[m])
    <3>1. CASE m \in 1 .. k
      BY <2>1, <2>7, <3>1
    <3>2. CASE m = k + 1
      BY <2>1, <2>6, <3>2
    <3> QED BY <2>1, <3>1, <3>2
  <2> QED BY <2>5, <2>8, <2>9
<1>3. Nat \subseteq T
  <2> HIDE DEF T
  <2> QED BY <1>1, <1>2, Induction DEF T
<1>4. \A k \in 0 .. n : S(k)
  BY <1>3
<1>5. PackAll(seq, budget) = P(n) /\ P(0).used = 0
  BY <1>d, FoldIsPacking DEF Nothing
<1> DEFINE u == [k \in 0 .. n |-> P(k).used]
<1> HIDE DEF P
<1>6. /\ u \in [0 .. n -> 0 .. budget] /\ u[0] = 0 /\ u[n] = P(n).used
      /\ \A m \in 1 .. n : u[m] = P(m).used /\ u[m - 1] = P(m - 1).used
  BY <1>4, <1>5
<1> HIDE DEF u
<1>7. \A m \in 1 .. n :
        IF HasRoom(u[m - 1], seq[m], budget)
        THEN u[m] = u[m - 1] + seq[m].item.tokens /\ In(P(n).selected, seq[m])
        ELSE u[m] = u[m - 1] /\ In(P(n).rejected, seq[m])
  <2>1. S(n)
    BY <1>4
  <2> QED BY <1>6, <2>1
<1>8. Splits(P(n), seq, n)
  BY <1>4
<1> QED BY <1>5, <1>6, <1>7, <1>8

\* a is ranked no later than b: its score is higher, or the same and it is not older.
NotAfter(a, b) == a.score >= b.score /\ (a.score = b.score => a.time >= b.time)

\* Ranked lists every item, none after a better one.
LEMMA RankedInOrder ==
  ASSUME NEW n \in Nat, NEW corpus, DOMAIN corpus = 1 .. n, IsScored(corpus)
  PROVE  /\ Ranked(TRUE, corpus) = [r \in 1 .. n |-> corpus[AtRank(corpus, r)]]
         /\ \A r \in 1 .. n : AtRank(corpus, r) \in 1 .. n
         /\ \A i \in 1 .. n : \E r \in 1 .. n : AtRank(corpus, r) = i
         /\ \A r, s \in 1 .. n :
              r < s => NotAfter(corpus[AtRank(corpus, r)], corpus[AtRank(corpus, s)])
<1>1. \A r \in 1 .. n : AtRank(corpus, r) \in 1 .. n /\ Place(corpus, AtRank(corpus, r)) = r
  BY PlacesPermute DEF AtRank
<1>2. Ranked(TRUE, corpus) = [r \in 1 .. n |-> corpus[AtRank(corpus, r)]]
  BY RankedPermutes
<1>3. ASSUME NEW i \in 1 .. n PROVE \E r \in 1 .. n : AtRank(corpus, r) = i
  <2>1. Place(corpus, i) \in 1 .. n
    BY PlacesPermute
  <2>2. \A j \in 1 .. n : Place(corpus, j) = Place(corpus, i) => j = i
    BY PlacesPermute
  <2>3. AtRank(corpus, Place(corpus, i)) = i
    BY <1>1, <2>1, <2>2
  <2> QED BY <2>1, <2>3
<1>4. ASSUME NEW r \in 1 .. n, NEW s \in 1 .. n, r < s
      PROVE  NotAfter(corpus[AtRank(corpus, r)], corpus[AtRank(corpus, s)])
  <2> DEFINE i == AtRank(corpus, r)
             j == AtRank(corpus, s)
  <2>1. i \in 1 .. n /\ j \in 1 .. n /\ Place(corpus, i) = r /\ Place(corpus, j) = s
    BY <1>1
  <2> HIDE DEF i, j
  <2>2. Before(corpus[j], j, corpus[i], i) => Place(corpus, j) < Place(corpus, i)
    BY <2>1, AheadGrows
  <2>3. ~Before(corpus[j], j, corpus[i], i)
    BY <1>4, <2>1, <2>2
  <2>4. i # j
    BY <1>4, <2>1
  <2>5. 1 .. n \subseteq Nat
    OBVIOUS
  <2>6. i # j => Before(corpus[i], i, corpus[j], j) \/ Before(corpus[j], j, corpus[i], i)
    BY <2>1, <2>5, BeforeIsTotal
  <2>7. /\ corpus[i].score \in Int /\ corpus[j].score \in Int
        /\ corpus[i].time \in Int /\ corpus[j].time \in Int
    BY <2>1 DEF IsScored
  <2>8. Before(corpus[i], i, corpus[j], j)
    BY <2>3, <2>4, <2>6
  <2>9. \/ corpus[i].score > corpus[j].score
        \/ corpus[i].score = corpus[j].score /\ corpus[i].time >= corpus[j].time
    BY <2>7, <2>8 DEF Before
  <2>10. NotAfter(corpus[i], corpus[j])
    BY <2>7, <2>9 DEF NotAfter
  <2> QED BY <2>10 DEF i, j
<1> QED BY <1>1, <1>2, <1>3, <1>4

\* Candidates gives each item its rank.
LEMMA CandidatesRank ==
  ASSUME NEW n \in Nat, NEW items, DOMAIN items = 1 .. n
  PROVE  /\ IsRanking(Candidates(items), n)
         /\ \A r \in 1 .. n : Candidates(items)[r].item = items[r]
<1>1. \A x, y : [item |-> x, rank |-> y].item = x /\ [item |-> x, rank |-> y].rank = y
  OBVIOUS
<1>2. Candidates(items) = [r \in 1 .. n |-> [item |-> items[r], rank |-> r]]
  BY DEF Candidates, Candidate
<1>3. DOMAIN Candidates(items) = 1 .. n
      /\ \A r \in 1 .. n : Candidates(items)[r] = [item |-> items[r], rank |-> r]
  BY <1>2
<1> QED BY <1>1, <1>3 DEF IsRanking

\* A corpus of n mails.
IsCorpus(corpus, names, n) ==
  /\ DOMAIN corpus = 1 .. n
  /\ \A i \in 1 .. n : corpus[i] \in [id : names, score : Int, time : Int, tokens : Int]

\* What Ranked leaves of it.
LEMMA RankedItems ==
  ASSUME NEW names, NEW n \in Nat, NEW corpus, IsCorpus(corpus, names, n), NEW query \in BOOLEAN
  PROVE  /\ DOMAIN Ranked(query, corpus) = 1 .. n
         /\ \A r \in 1 .. n : Ranked(query, corpus)[r].tokens \in Int
         /\ \A i \in 1 .. n : \E r \in 1 .. n : Ranked(query, corpus)[r].id = corpus[i].id
         /\ query => \A r, s \in 1 .. n :
              r < s => NotAfter(Ranked(query, corpus)[r], Ranked(query, corpus)[s])
<1>1. \A x \in [id : names, score : Int, time : Int, tokens : Int] :
        /\ x.score \in Int /\ x.time \in Int /\ x.tokens \in Int
        /\ [x EXCEPT !.score = 0].id = x.id /\ [x EXCEPT !.score = 0].tokens = x.tokens
  OBVIOUS
<1>2. \A i \in 1 .. n :
        /\ corpus[i].score \in Int /\ corpus[i].time \in Int /\ corpus[i].tokens \in Int
        /\ [corpus[i] EXCEPT !.score = 0].id = corpus[i].id
        /\ [corpus[i] EXCEPT !.score = 0].tokens = corpus[i].tokens
  BY <1>1 DEF IsCorpus
<1>3. IsScored(corpus) /\ DOMAIN corpus = 1 .. n
  BY <1>2 DEF IsScored, IsCorpus
<1>4. CASE query = TRUE
  <2> DEFINE L == Ranked(TRUE, corpus)
  <2>1. L = [r \in 1 .. n |-> corpus[AtRank(corpus, r)]]
    BY <1>3, RankedInOrder
  <2>2. \A r \in 1 .. n : AtRank(corpus, r) \in 1 .. n
    BY <1>3, RankedInOrder
  <2>3. \A i \in 1 .. n : \E r \in 1 .. n : AtRank(corpus, r) = i
    BY <1>3, RankedInOrder
  <2>4. \A r, s \in 1 .. n :
          r < s => NotAfter(corpus[AtRank(corpus, r)], corpus[AtRank(corpus, s)])
    BY <1>3, RankedInOrder
  <2> HIDE DEF L
  <2>5. DOMAIN L = 1 .. n /\ \A r \in 1 .. n : L[r] = corpus[AtRank(corpus, r)]
    BY <2>1
  <2>6. \A r \in 1 .. n : L[r].tokens \in Int
    BY <1>2, <2>2, <2>5
  <2>7. \A i \in 1 .. n : \E r \in 1 .. n : L[r].id = corpus[i].id
    BY <2>3, <2>5
  <2>8. \A r, s \in 1 .. n : r < s => NotAfter(L[r], L[s])
    BY <2>4, <2>5
  <2> QED BY <1>4, <2>5, <2>6, <2>7, <2>8 DEF L
<1>5. CASE query = FALSE
  <2> DEFINE L == Ranked(FALSE, corpus)
  <2>1. L = [i \in 1 .. n |-> [corpus[i] EXCEPT !.score = 0]]
    BY <1>3 DEF Ranked, Unranked
  <2> HIDE DEF L
  <2>2. DOMAIN L = 1 .. n /\ \A r \in 1 .. n : L[r] = [corpus[r] EXCEPT !.score = 0]
    BY <2>1
  <2>3. \A r \in 1 .. n : L[r].tokens \in Int /\ L[r].id = corpus[r].id
    BY <1>2, <2>2
  <2> QED BY <1>5, <2>2, <2>3 DEF L
<1> QED BY <1>4, <1>5

\* The selector, for every corpus and budget, with or without query terms: each item of the
\* corpus has a rank, with none after a better one; every candidate is selected or rejected, not
\* both; and it is selected exactly when it has tokens and they fit into what the selected ones
\* ranked before it leave of the budget (select_context, _pack_budget).
THEOREM SelectorIsGreedy ==
  ASSUME NEW names, NEW n \in Nat \ {0}, NEW corpus, IsCorpus(corpus, names, n),
         NEW budget \in Nat \ {0}, NEW query \in BOOLEAN
  PROVE  LET cs == Candidates(Ranked(query, corpus))
             answer == Select(query, corpus, budget)
         IN  /\ \A i \in 1 .. n : \E r \in 1 .. n : cs[r].item.id = corpus[i].id
             /\ query => \A r, s \in 1 .. n : r < s => NotAfter(cs[r].item, cs[s].item)
             /\ \A r \in 1 .. n : ~(In(answer.selected, cs[r]) /\ In(answer.rejected, cs[r]))
             /\ \E u \in [0 .. n -> 0 .. budget] :
                  /\ u[0] = 0 /\ u[n] = answer.used
                  /\ \A k \in 1 .. n :
                       IF HasRoom(u[k - 1], cs[k], budget)
                       THEN u[k] = u[k - 1] + cs[k].item.tokens /\ In(answer.selected, cs[k])
                       ELSE u[k] = u[k - 1] /\ In(answer.rejected, cs[k])
<1> DEFINE L == Ranked(query, corpus)
           cs == Candidates(L)
           answer == Select(query, corpus, budget)
<1>0. n \in Nat /\ budget \in Nat
  OBVIOUS
<1>1. DOMAIN L = 1 .. n
  BY <1>0, RankedItems
<1>2. \A r \in 1 .. n : L[r].tokens \in Int
  BY <1>0, RankedItems
<1>3. \A i \in 1 .. n : \E r \in 1 .. n : L[r].id = corpus[i].id
  BY <1>0, RankedItems
<1>4. query => \A r, s \in 1 .. n : r < s => NotAfter(L[r], L[s])
  BY <1>0, RankedItems
<1>5. answer = PackAll(cs, budget)
  <2>1. ~(budget <= 0)
    OBVIOUS
  <2>2. corpus # <<>>
    <3>1. DOMAIN <<>> = 1 .. 0 /\ 1 \in 1 .. n
      OBVIOUS
    <3> QED BY <3>1 DEF IsCorpus
  <2> QED BY <2>1, <2>2 DEF Select, PackAll
<1> HIDE DEF L, answer
<1>6. IsRanking(cs, n) /\ \A r \in 1 .. n : cs[r].item = L[r]
  BY <1>0, <1>1, CandidatesRank
<1> HIDE DEF cs
<1>7. \A r \in 1 .. n : cs[r].item.tokens \in Int
  BY <1>2, <1>6
<1>8. Splits(PackAll(cs, budget), cs, n)
  BY <1>0, <1>6, <1>7, PackAllSorts
<1>9. \E u \in [0 .. n -> 0 .. budget] :
        /\ u[0] = 0 /\ u[n] = PackAll(cs, budget).used
        /\ \A k \in 1 .. n :
             IF HasRoom(u[k - 1], cs[k], budget)
             THEN u[k] = u[k - 1] + cs[k].item.tokens /\ In(PackAll(cs, budget).selected, cs[k])
             ELSE u[k] = u[k - 1] /\ In(PackAll(cs, budget).rejected, cs[k])
  BY <1>0, <1>6, <1>7, PackAllSorts
<1>10. \A r \in 1 .. n : ~(In(answer.selected, cs[r]) /\ In(answer.rejected, cs[r]))
  BY <1>5, <1>8 DEF Splits
<1>11. \A i \in 1 .. n : \E r \in 1 .. n : cs[r].item.id = corpus[i].id
  BY <1>3, <1>6
<1>12. query => \A r, s \in 1 .. n : r < s => NotAfter(cs[r].item, cs[s].item)
  BY <1>4, <1>6
<1>13. \E u \in [0 .. n -> 0 .. budget] :
         /\ u[0] = 0 /\ u[n] = answer.used
         /\ \A k \in 1 .. n :
              IF HasRoom(u[k - 1], cs[k], budget)
              THEN u[k] = u[k - 1] + cs[k].item.tokens /\ In(answer.selected, cs[k])
              ELSE u[k] = u[k - 1] /\ In(answer.rejected, cs[k])
  BY <1>5, <1>9
<1> QED BY <1>10, <1>11, <1>12, <1>13 DEF cs, answer, L
=============================================================================
