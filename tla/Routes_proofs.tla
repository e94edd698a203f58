---------------------------- MODULE Routes_proofs ----------------------------
(***************************************************************************)
(* Proofs about Routes, for every universe of tokens, every set of prices, *)
(* every bound of the search, of a log weight and of a position, and every *)
(* minimum the optimizer may ask for.                                      *)
(*                                                                         *)
(* The modules compute with recursive functions.  Each of them is met once *)
(* here, in a lemma that says what it computes: that the function exists   *)
(* and what its values are follows from an induction over the steps, which *)
(* is stated with sets and functions (StepsStay, Computes, Stays).         *)
(***************************************************************************)
EXTENDS Routes, WellFoundedInduction, TLAPS

\* A non-empty set of naturals has a least element.
LEMMA LeastNatural ==
  ASSUME NEW T, T \subseteq Nat, T # {}
  PROVE  \E n \in T : \A m \in T : n <= m
<1> DEFINE R == OpToRel(<, Nat)
<1>1. IsWellFoundedOn(R, Nat)
  BY NatLessThanWellFounded
<1>2. \A x, y \in Nat : <<y, x>> \in R <=> y < x
  BY DEF OpToRel
<1> HIDE DEF R
<1>3. PICK n \in T : \A m \in T : ~(<<m, n>> \in R)
  BY <1>1, WFMin
<1>4. ASSUME NEW m \in T PROVE n <= m
  <2>1. n \in Nat /\ m \in Nat
    OBVIOUS
  <2>2. ~(m < n)
    BY <1>2, <1>3, <1>4, <2>1
  <2> QED
    BY <2>1, <2>2
<1> QED
  BY <1>4

\* Induction from b to n, with the property as the set of the numbers that have it.
LEMMA Induction ==
  ASSUME NEW b \in Nat, NEW n \in Nat, NEW T,
         b \in T, \A k \in b .. n - 1 : k \in T => k + 1 \in T
  PROVE  b .. n \subseteq T
<1> SUFFICES ASSUME (b .. n) \ T # {} PROVE FALSE
  OBVIOUS
<1>1. PICK k \in (b .. n) \ T : \A m \in (b .. n) \ T : k <= m
  <2>1. (b .. n) \ T \subseteq Nat
    OBVIOUS
  <2> QED
    BY <2>1, LeastNatural
<1>2. k # b /\ k - 1 \in b .. n - 1 /\ k - 1 \in b .. n
  BY <1>1
<1>3. k - 1 \in T
  BY <1>1, <1>2
<1>4. (k - 1) + 1 \in T
  BY <1>2, <1>3
<1> QED
  BY <1>1, <1>4

\* The values a function may take step by step, from start on: I[k] are those at k.
StepsStay(b, n, I, start, step) ==
  /\ start \in I[b]
  /\ \A k \in b .. n : k # b => \A x \in I[k - 1] : step[k][x] \in I[k]

Computes(f, b, n, start, step) ==
  f = [k \in b .. n |-> IF k = b THEN start ELSE step[k][f[k - 1]]]

Stays(b, n, I, g) ==
  /\ b <= n => g[b] \in I[b]
  /\ \A k \in b .. n : k # b /\ g[k - 1] \in I[k - 1] => g[k] \in I[k]

\* A function that is defined step by step exists, and its values stay where the steps do.
LEMMA RecursionExists ==
  ASSUME NEW b \in Nat, NEW n \in Nat, NEW I, NEW start, NEW step,
         StepsStay(b, n, I, start, step)
  PROVE  \E f : Computes(f, b, n, start, step) /\ \A k \in b .. n : f[k] \in I[k]
<1> USE DEF StepsStay, Computes
<1> DEFINE P(m, f) ==
      /\ f = [k \in b .. m |-> IF k = b THEN start ELSE step[k][f[k - 1]]]
      /\ \A k \in b .. m : f[k] \in I[k]
           T == {m \in Nat : \E f : P(m, f)}
<1>1. b \in T
  <2>1. P(b, [k \in {b} |-> start])
    <3>1. b .. b = {b}
      OBVIOUS
    <3> QED
      BY <3>1
  <2> QED
    BY <2>1
<1>2. ASSUME NEW m \in b .. n - 1, m \in T PROVE m + 1 \in T
  <2>1. PICK f : P(m, f)
    BY <1>2
  <2> DEFINE g == [k \in b .. m + 1 |-> IF k = m + 1 THEN step[m + 1][f[m]] ELSE f[k]]
  <2>2. m \in b .. m /\ m + 1 \in b .. n /\ m + 1 # b /\ (m + 1) - 1 = m /\ m \in Nat
    OBVIOUS
  <2>3. f[m] \in I[m] /\ g[m + 1] \in I[m + 1]
    BY <2>1, <2>2
  <2>4. g[m + 1] = step[m + 1][f[m]] /\ \A k \in b .. m : g[k] = f[k]
    OBVIOUS
  <2>5. g = [k \in b .. m + 1 |-> g[k]]
    OBVIOUS
  <2> HIDE DEF g
  <2>6. ASSUME NEW k \in b .. m + 1
        PROVE  g[k] \in I[k] /\ g[k] = IF k = b THEN start ELSE step[k][g[k - 1]]
    <3>1. CASE k = m + 1
      <4>1. k # b /\ k - 1 = m
        BY <2>2, <3>1
      <4> QED
        BY <2>2, <2>3, <2>4, <3>1, <4>1
    <3>2. CASE k # m + 1
      <4>1. k \in b .. m
        BY <3>2
      <4>2. f[k] \in I[k] /\ f[k] = IF k = b THEN start ELSE step[k][f[k - 1]]
        BY <2>1, <4>1
      <4>3. CASE k = b
        BY <2>4, <4>1, <4>2, <4>3
      <4>4. CASE k # b
        <5>1. k - 1 \in b .. m
          BY <4>1, <4>4
        <5> QED
          BY <2>4, <4>1, <4>2, <4>4, <5>1
      <4> QED
        BY <4>3, <4>4
    <3> QED
      BY <3>1, <3>2
  <2>7. P(m + 1, g)
    <3> DEFINE h == [k \in b .. m + 1 |-> IF k = b THEN start ELSE step[k][g[k - 1]]]
    <3>1. \A k \in b .. m + 1 : g[k] = h[k]
      BY <2>6
    <3>2. g = h
      BY <2>5, <3>1
    <3> QED
      BY <2>6, <3>2
  <2> HIDE DEF P
  <2> QED
    BY <2>2, <2>7
<1>3. n \in b .. n => n \in T
  <2> HIDE DEF T
  <2> QED
    BY <1>1, <1>2, Induction
<1>4. CASE n < b
  <2>1. P(n, [k \in b .. n |-> start])
    BY <1>4
  <2> QED
    BY <2>1
<1>5. CASE ~(n < b)
  BY <1>3, <1>5
<1> QED
  BY <1>4, <1>5

\* A function that makes such steps, from values where they are defined, stays there.
LEMMA RecursionStays ==
  ASSUME NEW b \in Nat, NEW n \in Nat, NEW I, NEW g, Stays(b, n, I, g)
  PROVE  \A k \in b .. n : g[k] \in I[k]
<1> USE DEF Stays
<1> DEFINE T == {k \in Nat : g[k] \in I[k]}
<1>1. b <= n => b \in T
  OBVIOUS
<1>2. ASSUME NEW k \in b .. n - 1, k \in T PROVE k + 1 \in T
  <2>1. k + 1 \in b .. n /\ k + 1 # b /\ (k + 1) - 1 = k
    OBVIOUS
  <2> QED
    BY <1>2, <2>1
<1>3. b <= n => b .. n \subseteq T
  <2> HIDE DEF T
  <2> QED
    BY <1>1, <1>2, Induction
<1> QED
  BY <1>3

-----------------------------------------------------------------------------
(* Sequences.                                                                *)

LEMMA Joined ==
  ASSUME NEW S, NEW s \in Seq(S), NEW t \in Seq(S)
  PROVE  /\ s \o t \in Seq(S) /\ Len(s \o t) = Len(s) + Len(t)
         /\ \A i \in 1 .. Len(s) : (s \o t)[i] = s[i]
         /\ \A i \in 1 .. Len(t) : (s \o t)[Len(s) + i] = t[i]
OBVIOUS

Occurs(x, s) == \E i \in 1 .. Len(s) : s[i] = x

\* FlattenSeq loses no member and adds none.
LEMMA Flattened ==
  ASSUME NEW S, NEW ss \in Seq(Seq(S))
  PROVE  /\ FlattenSeq(ss) \in Seq(S)
         /\ \A k \in 1 .. Len(ss) : \A i \in 1 .. Len(ss[k]) : Occurs(ss[k][i], FlattenSeq(ss))
<1> DEFINE N == Len(ss)
           P(g) == g = [k \in 1 .. N |-> IF k = 1 THEN ss[k] ELSE g[k - 1] \o ss[k]]
           G == CHOOSE g : P(g)
           I == [k \in 1 .. N |->
                   {s \in Seq(S) : \A h \in 1 .. k : \A i \in 1 .. Len(ss[h]) : Occurs(ss[h][i], s)}]
           step == [k \in 2 .. N |-> [x \in I[k - 1] |-> x \o ss[k]]]
<1>1. CASE N = 0
  <2>1. FlattenSeq(ss) = ss /\ ss = << >>
    BY <1>1 DEF FlattenSeq
  <2> QED
    BY <1>1, <2>1
<1>2. CASE N # 0
  <2>1. N \in Nat /\ 1 \in 1 .. N
    BY <1>2
  <2>2. ss[1] \in I[1]
    <3>1. ss[1] \in Seq(S)
      BY <2>1
    <3>2. \A h \in 1 .. 1 : h = 1
      OBVIOUS
    <3>3. \A i \in 1 .. Len(ss[1]) : Occurs(ss[1][i], ss[1])
      BY DEF Occurs
    <3> QED
      BY <2>1, <3>1, <3>2, <3>3
  <2>3. ASSUME NEW k \in 2 .. N, NEW x \in I[k - 1] PROVE x \o ss[k] \in I[k]
    <3>1. k \in 1 .. N /\ k - 1 \in 1 .. N
      OBVIOUS
    <3>2. x \in Seq(S) /\ ss[k] \in Seq(S)
      BY <2>3, <3>1
    <3>3. x \o ss[k] \in Seq(S)
      BY <3>2
    <3>4. ASSUME NEW h \in 1 .. k, NEW i \in 1 .. Len(ss[h])
          PROVE  Occurs(ss[h][i], x \o ss[k])
      <4>1. CASE h = k
        <5>1. i \in 1 .. Len(ss[k]) /\ Len(x) + i \in 1 .. Len(x \o ss[k])
          BY <3>2, <3>4, <4>1, Joined
        <5>2. (x \o ss[k])[Len(x) + i] = ss[k][i]
          BY <3>2, <5>1, Joined
        <5> QED
          BY <4>1, <5>1, <5>2 DEF Occurs
      <4>2. CASE h # k
        <5>1. h \in 1 .. k - 1
          BY <4>2
        <5>2. PICK j \in 1 .. Len(x) : x[j] = ss[h][i]
          <6>1. Occurs(ss[h][i], x)
            BY <2>3, <3>1, <3>4, <5>1
          <6> QED
            BY <6>1 DEF Occurs
        <5>3. j \in 1 .. Len(x \o ss[k]) /\ (x \o ss[k])[j] = x[j]
          BY <3>2, <5>2, Joined
        <5> QED
          BY <5>2, <5>3 DEF Occurs
      <4> QED
        BY <4>1, <4>2
    <3> QED
      BY <3>1, <3>3, <3>4
  <2>4. ASSUME NEW s \in I[N]
        PROVE  /\ s \in Seq(S)
               /\ \A k \in 1 .. N : \A i \in 1 .. Len(ss[k]) : Occurs(ss[k][i], s)
    BY <2>1
  <2>5. 1 \in Nat
    OBVIOUS
  <2> HIDE DEF I
  <2>6. PICK f : Computes(f, 1, N, ss[1], step) /\ \A k \in 1 .. N : f[k] \in I[k]
    <3>1. StepsStay(1, N, I, ss[1], step)
      <4>1. ASSUME NEW k \in 1 .. N, k # 1
            PROVE  \A x \in I[k - 1] : step[k][x] \in I[k]
        <5>1. k \in 2 .. N
          BY <4>1
        <5> QED
          BY <2>3, <5>1
      <4> HIDE DEF step
      <4> QED
        BY <2>2, <4>1 DEF StepsStay
    <3> HIDE DEF step
    <3> QED
      BY <2>1, <2>5, <3>1, RecursionExists
  <2>7. P(f)
    <3>1. ASSUME NEW k \in 1 .. N
          PROVE  f[k] = IF k = 1 THEN ss[k] ELSE f[k - 1] \o ss[k]
      <4>1. CASE k = 1
        BY <2>6, <4>1 DEF Computes
      <4>2. CASE k # 1
        <5>1. k \in 2 .. N /\ k - 1 \in 1 .. N
          BY <4>2
        <5>2. f[k - 1] \in I[k - 1] /\ f[k] = step[k][f[k - 1]]
          BY <2>6, <4>2, <5>1 DEF Computes
        <5> QED
          BY <4>2, <5>1, <5>2
      <4> QED
        BY <4>1, <4>2
    <3> QED
      BY <2>6, <3>1 DEF Computes
  <2>8. FlattenSeq(ss) = G[N]
    BY <1>2 DEF FlattenSeq
  <2> HIDE DEF P
  <2>9. P(G)
    BY <2>7
  <2> HIDE DEF G
  <2>10. ASSUME NEW k \in 1 .. N, k # 1, G[k - 1] \in I[k - 1] PROVE G[k] \in I[k]
    <3>1. k \in 2 .. N
      BY <2>10
    <3>2. G[k] = G[k - 1] \o ss[k]
      BY <2>9, <2>10, Zenon DEF P
    <3> QED
      BY <2>3, <2>10, <3>1, <3>2, Zenon
  <2>11. G[1] \in I[1]
    BY <2>1, <2>2, <2>9 DEF P
  <2>12. G[N] \in I[N]
    <3>1. Stays(1, N, I, G)
      BY <2>10, <2>11 DEF Stays
    <3> QED
      BY <2>1, <2>5, <3>1, RecursionStays
  <2> QED
    BY <2>4, <2>8, <2>12
<1> QED
  BY <1>1, <1>2

\* The rows of a function, as sequences, laid end to end.
LEMMA RowsJoined ==
  ASSUME NEW S, NEW n \in Nat, NEW f \in [1 .. n -> Seq(S)]
  PROVE  /\ FlattenSeq(f) \in Seq(S)
         /\ \A k \in 1 .. n : \A i \in 1 .. Len(f[k]) : Occurs(f[k][i], FlattenSeq(f))
<1>1. f \in Seq(Seq(S)) /\ Len(f) = n
  OBVIOUS
<1> QED
  BY <1>1, Flattened

LEMMA KeepType ==
  ASSUME NEW S, NEW s \in Seq(S), NEW I
  PROVE  /\ Keep(s, I) \in Seq({s[i] : i \in I \cap (1 .. Len(s))})
         /\ \A i \in I \cap (1 .. Len(s)) : Occurs(s[i], Keep(s, I))
<1> DEFINE kept == {s[i] : i \in I \cap (1 .. Len(s))}
           f == [n \in 1 .. Len(s) |-> IF n \in I THEN <<s[n]>> ELSE << >>]
<1>1. Len(s) \in Nat
  OBVIOUS
<1>2. f \in [1 .. Len(s) -> Seq(kept)]
  <2>1. ASSUME NEW n \in 1 .. Len(s) PROVE f[n] \in Seq(kept)
    <3>1. CASE n \in I
      <4>1. s[n] \in kept
        BY <3>1
      <4> HIDE DEF kept
      <4> QED
        BY <3>1, <4>1
    <3>2. CASE n \notin I
      BY <3>2
    <3> QED
      BY <3>1, <3>2
  <2> HIDE DEF kept
  <2> QED
    BY <2>1
<1>3. Keep(s, I) = FlattenSeq(f)
  BY DEF Keep
<1>4. ASSUME NEW i \in I \cap (1 .. Len(s)) PROVE Len(f[i]) = 1 /\ f[i][1] = s[i]
  BY <1>4
<1> HIDE DEF f, kept
<1>5. /\ FlattenSeq(f) \in Seq(kept)
      /\ \A k \in 1 .. Len(s) : \A i \in 1 .. Len(f[k]) : Occurs(f[k][i], FlattenSeq(f))
  BY <1>1, <1>2, RowsJoined
<1>6. ASSUME NEW i \in I \cap (1 .. Len(s)) PROVE Occurs(s[i], Keep(s, I))
  <2>1. 1 \in 1 .. Len(f[i]) /\ i \in 1 .. Len(s)
    BY <1>4
  <2>2. Occurs(f[i][1], FlattenSeq(f))
    BY <1>5, <2>1
  <2> QED
    BY <1>3, <1>4, <2>2
<1> QED
  BY <1>3, <1>5, <1>6 DEF kept

-----------------------------------------------------------------------------
(* The search.                                                               *)

Arcs(n) == {p \in Vertices(n) \X Vertices(n) : p[1] # p[2]}

\* Pairs visits every ordered pair of different vertices, and nothing else.
LEMMA PairsType ==
  ASSUME NEW n \in Nat
  PROVE  /\ Pairs(n) \in Seq(Arcs(n))
         /\ \A u, v \in Vertices(n) : u # v => Occurs(<<u, v>>, Pairs(n))
<1> DEFINE row(u) == [c \in 1 .. n - 1 |-> <<u - 1, IF c < u THEN c - 1 ELSE c>>]
           f == [u \in 1 .. n |-> row(u)]
<1>1. ASSUME NEW u \in 1 .. n
      PROVE  row(u) \in Seq(Arcs(n)) /\ Len(row(u)) = n - 1
  <2>1. n - 1 \in Nat
    OBVIOUS
  <2>2. ASSUME NEW c \in 1 .. n - 1 PROVE row(u)[c] \in Arcs(n)
    <3>1. u - 1 \in Vertices(n)
      BY DEF Vertices
    <3>2. CASE c < u
      <4>1. c - 1 \in Vertices(n) /\ c - 1 # u - 1 /\ row(u)[c] = <<u - 1, c - 1>>
        BY <3>2 DEF Vertices
      <4> QED
        BY <3>1, <4>1 DEF Arcs
    <3>3. CASE ~(c < u)
      <4>1. c \in Vertices(n) /\ c # u - 1 /\ row(u)[c] = <<u - 1, c>>
        BY <3>3 DEF Vertices
      <4> QED
        BY <3>1, <4>1 DEF Arcs
    <3> QED
      BY <3>2, <3>3
  <2>3. row(u) \in [1 .. n - 1 -> Arcs(n)]
    BY <2>2
  <2> HIDE DEF row
  <2> QED
    BY <2>1, <2>3
<1>2. f \in [1 .. n -> Seq(Arcs(n))]
  <2> HIDE DEF row
  <2> QED
    BY <1>1
<1>3. Pairs(n) = FlattenSeq(f)
  BY DEF Pairs
<1>4. ASSUME NEW u \in Vertices(n), NEW v \in Vertices(n), u # v
      PROVE  Occurs(<<u, v>>, Pairs(n))
  <2> DEFINE c == IF v < u THEN v + 1 ELSE v
  <2>1. u + 1 \in 1 .. n /\ c \in 1 .. n - 1 /\ (u + 1) - 1 = u
    BY <1>4 DEF Vertices
  <2>2. (IF c < u + 1 THEN c - 1 ELSE c) = v
    BY <1>4 DEF Vertices
  <2> HIDE DEF c
  <2>3. f[u + 1] = row(u + 1) /\ row(u + 1)[c] = <<u, v>>
    BY <2>1, <2>2
  <2>4. c \in 1 .. Len(f[u + 1])
    BY <1>1, <2>1, <2>3
  <2> HIDE DEF f
  <2>5. Occurs(f[u + 1][c], FlattenSeq(f))
    BY <1>2, <2>1, <2>4, RowsJoined
  <2> QED
    BY <1>3, <2>3, <2>5
<1> QED
  <2> HIDE DEF f
  <2> QED
    BY <1>2, <1>3, <1>4, RowsJoined

LEMMA Product ==
  ASSUME NEW a \in Nat, NEW b \in Nat
  PROVE  a * b \in Nat
OBVIOUS

LEMMA Remainder ==
  ASSUME NEW k \in Nat, NEW l \in Nat, l # 0
  PROVE  (k % l) + 1 \in 1 .. l
OBVIOUS

\* The weights between different vertices; those of a vertex to itself are never used.
Weighted(m) ==
  /\ m.n \in Nat
  /\ \A u, v \in Vertices(m.n) : u # v => m.weight[u][v] \in Int \cup {Infinity}

\* A predecessor is a vertex, if there is one.
LEMMA PredecessorsAreVertices ==
  ASSUME NEW m, Weighted(m), m.n >= 2, NEW src \in Vertices(m.n)
  PROVE  BellmanFord(m, src).pred \in [Vertices(m.n) -> Vertices(m.n) \cup {Infinity}]
<1> DEFINE V == Vertices(m.n)
           pairs == Pairs(m.n)
           N == Len(pairs) * (m.n - 1)
           State == [dist : [V -> Int \cup {Infinity}], pred : [V -> V \cup {Infinity}]]
           start == [dist |-> [v \in V |-> IF v = src THEN 0 ELSE Infinity],
                     pred |-> [v \in V |-> Infinity]]
           move(k, s) == LET p == pairs[((k - 1) % Len(pairs)) + 1] IN Relax(m, s, p[1], p[2])
           P(g) == g = [k \in 0 .. N |-> IF k = 0 THEN start ELSE move(k, g[k - 1])]
           G == CHOOSE g : P(g)
           I == [k \in 0 .. N |-> State]
           step == [k \in 0 .. N |-> [s \in State |-> move(k, s)]]
<1>1. pairs \in Seq(Arcs(m.n)) /\ Len(pairs) \in Nat \ {0} /\ N \in Nat
  <2>1. m.n \in Nat /\ m.n - 1 \in Nat
    BY DEF Weighted
  <2>2. pairs \in Seq(Arcs(m.n)) /\ Occurs(<<0, 1>>, pairs)
    <3>1. 0 \in Vertices(m.n) /\ 1 \in Vertices(m.n) /\ 0 # 1
      BY <2>1 DEF Vertices
    <3> QED
      BY <2>1, <3>1, PairsType
  <2> HIDE DEF pairs
  <2>3. Len(pairs) \in Nat \ {0}
    BY <2>2 DEF Occurs
  <2> QED
    BY <2>1, <2>2, <2>3, Product
<1> HIDE DEF N, pairs
<1>2. start \in State
  <2>1. /\ [v \in V |-> IF v = src THEN 0 ELSE Infinity] \in [V -> Int \cup {Infinity}]
        /\ [v \in V |-> Infinity] \in [V -> V \cup {Infinity}]
    <3> HIDE DEF V
    <3> QED
      OBVIOUS
  <2> HIDE DEF V
  <2> QED
    BY <2>1
<1>3. ASSUME NEW k \in 0 .. N, k # 0, NEW s \in State PROVE move(k, s) \in State
  <2> DEFINE p == pairs[((k - 1) % Len(pairs)) + 1]
             d == Plus(s.dist[p[1]], m.weight[p[1]][p[2]])
  <2>1. p \in Arcs(m.n)
    <3>1. k - 1 \in Nat
      BY <1>1, <1>3
    <3>2. ((k - 1) % Len(pairs)) + 1 \in 1 .. Len(pairs)
      BY <1>1, <3>1, Remainder
    <3> QED
      BY <1>1, <3>2
  <2> HIDE DEF p
  <2>2. p[1] \in V /\ p[2] \in V /\ p[1] # p[2]
    BY <2>1 DEF Arcs
  <2>3. d \in Int \cup {Infinity}
    <3>1. m.weight[p[1]][p[2]] \in Int \cup {Infinity}
      BY <2>2 DEF Weighted
    <3>2. s.dist[p[1]] \in Int \cup {Infinity}
      BY <2>2
    <3> QED
      BY <3>1, <3>2 DEF Plus
  <2> HIDE DEF d, V
  <2>4. [dist |-> [s.dist EXCEPT ![p[2]] = d], pred |-> [s.pred EXCEPT ![p[2]] = p[1]]] \in State
    <3>1. s.dist \in [V -> Int \cup {Infinity}] /\ s.pred \in [V -> V \cup {Infinity}]
      OBVIOUS
    <3>2. [s.dist EXCEPT ![p[2]] = d] \in [V -> Int \cup {Infinity}]
      BY <2>3, <3>1
    <3>3. [s.pred EXCEPT ![p[2]] = p[1]] \in [V -> V \cup {Infinity}]
      BY <2>2, <3>1
    <3> QED
      BY <3>2, <3>3
  <2>5. \/ move(k, s) = s
        \/ move(k, s) = [dist |-> [s.dist EXCEPT ![p[2]] = d],
                         pred |-> [s.pred EXCEPT ![p[2]] = p[1]]]
    BY DEF Relax, d, p
  <2> HIDE DEF State, move
  <2> QED
    BY <2>4, <2>5
<1>4. BellmanFord(m, src) = G[N]
  BY DEF BellmanFord, N, pairs
<1>5. \A s \in State : s.pred \in [V -> V \cup {Infinity}]
  OBVIOUS
<1> HIDE DEF State, move, start
<1>6. 0 \in Nat /\ 0 \in 0 .. N /\ \A k \in 0 .. N : k # 0 => k - 1 \in 0 .. N
  BY <1>1
<1>7. PICK f : Computes(f, 0, N, start, step) /\ \A k \in 0 .. N : f[k] \in I[k]
  <2>1. StepsStay(0, N, I, start, step)
    BY <1>2, <1>3, <1>6 DEF StepsStay
  <2> HIDE DEF I, step
  <2> QED
    BY <1>1, <1>6, <2>1, RecursionExists
<1>8. P(f)
  <2>1. ASSUME NEW k \in 0 .. N PROVE f[k] = IF k = 0 THEN start ELSE move(k, f[k - 1])
    BY <1>6, <1>7 DEF Computes
  <2> QED
    BY <1>7, <2>1 DEF Computes
<1> HIDE DEF P
<1>9. P(G)
  BY <1>8
<1> HIDE DEF G
<1>10. G[N] \in State
  <2>1. Stays(0, N, I, G)
    BY <1>2, <1>3, <1>6, <1>9 DEF P, Stays
  <2>2. G[N] \in I[N] /\ N \in 0 .. N
    <3> HIDE DEF I
    <3> QED
      BY <1>1, <1>6, <2>1, RecursionStays
  <2> QED
    BY <2>2
<1> QED
  BY <1>4, <1>5, <1>10

LEMMA EndpointsAreArcs ==
  ASSUME NEW m, m.n \in Nat, NEW s, NEW maxHops \in Nat
  PROVE  CycleEndpoints(m, s, maxHops) \in Seq(Arcs(m.n))
<1> DEFINE pairs == Pairs(m.n)
           I == {k \in DOMAIN pairs :
                   Less(Plus(s.dist[pairs[k][1]], m.weight[pairs[k][1]][pairs[k][2]]),
                        s.dist[pairs[k][2]])}
           open == Keep(pairs, I)
           length == IF Len(open) < maxHops THEN Len(open) ELSE maxHops
<1>1. pairs \in Seq(Arcs(m.n))
  BY PairsType
<1>2. CycleEndpoints(m, s, maxHops) = [i \in 1 .. length |-> open[i]]
  BY DEF CycleEndpoints
<1> HIDE DEF pairs, I
<1>3. open \in Seq(Arcs(m.n))
  <2> DEFINE kept == {pairs[i] : i \in I \cap (1 .. Len(pairs))}
  <2>1. kept \subseteq Arcs(m.n)
    BY <1>1
  <2>2. open \in Seq(kept)
    BY <1>1, KeepType
  <2> HIDE DEF kept, open
  <2> QED
    BY <2>1, <2>2
<1> HIDE DEF open
<1>4. length \in Nat /\ length <= Len(open)
  BY <1>3
<1> HIDE DEF length
<1>5. [i \in 1 .. length |-> open[i]] \in [1 .. length -> Arcs(m.n)]
  BY <1>3, <1>4
<1> QED
  BY <1>2, <1>4, <1>5

LEMMA ChainType ==
  ASSUME NEW V, NEW pred \in [V -> V \cup {Infinity}], NEW src, NEW u \in V,
         NEW maxHops \in Nat
  PROVE  /\ Chain(pred, src, u, maxHops) \in Seq(V)
         /\ Len(Chain(pred, src, u, maxHops)) \in 1 .. maxHops + 1
<1> DEFINE next(done) == LET cur == Last(done)
                         IN IF cur = src \/ pred[cur] = Infinity THEN done
                            ELSE Append(done, pred[cur])
           P(g) == g = [k \in 0 .. maxHops |-> IF k = 0 THEN <<u>> ELSE next(g[k - 1])]
           G == CHOOSE g : P(g)
           I == [k \in 0 .. maxHops |-> {c \in Seq(V) : Len(c) \in 1 .. k + 1}]
           step == [k \in 0 .. maxHops |-> [c \in Seq(V) |-> next(c)]]
<1>1. 0 \in Nat /\ 0 \in 0 .. maxHops /\ maxHops \in 0 .. maxHops
      /\ \A k \in 0 .. maxHops : k # 0 => k - 1 \in 0 .. maxHops
  OBVIOUS
<1>2. <<u>> \in I[0]
  BY <1>1
<1>3. ASSUME NEW k \in 0 .. maxHops, k # 0, NEW c \in I[k - 1]
      PROVE  next(c) \in I[k]
  <2>1. c \in Seq(V) /\ Len(c) \in 1 .. k
    BY <1>1, <1>3
  <2>2. Last(c) \in V
    BY <2>1 DEF Last
  <2>3. CASE next(c) = c
    <3>1. Len(c) \in 1 .. k + 1
      BY <2>1
    <3> QED
      BY <2>1, <2>3, <3>1
  <2>4. CASE next(c) # c
    <3>1. next(c) = Append(c, pred[Last(c)]) /\ pred[Last(c)] \in V
      BY <2>2, <2>4
    <3>2. Append(c, pred[Last(c)]) \in Seq(V) /\ Len(Append(c, pred[Last(c)])) = Len(c) + 1
      BY <2>1, <3>1
    <3>3. Len(c) + 1 \in 1 .. k + 1
      BY <2>1
    <3> HIDE DEF next
    <3> QED
      BY <3>1, <3>2, <3>3
  <2> QED
    BY <2>3, <2>4
<1>4. \A k \in 0 .. maxHops : I[k] \subseteq Seq(V)
  OBVIOUS
<1>5. ASSUME NEW c \in I[maxHops] PROVE c \in Seq(V) /\ Len(c) \in 1 .. maxHops + 1
  BY <1>1
<1>6. Chain(pred, src, u, maxHops) = G[maxHops]
  BY DEF Chain
<1> HIDE DEF next, I
<1>7. PICK f : Computes(f, 0, maxHops, <<u>>, step) /\ \A k \in 0 .. maxHops : f[k] \in I[k]
  <2>1. ASSUME NEW k \in 0 .. maxHops, k # 0, NEW c \in I[k - 1] PROVE step[k][c] \in I[k]
    BY <1>1, <1>3, <1>4, <2>1
  <2> HIDE DEF step
  <2>2. StepsStay(0, maxHops, I, <<u>>, step)
    BY <1>2, <2>1 DEF StepsStay
  <2> QED
    BY <1>1, <2>2, RecursionExists
<1>8. P(f)
  <2>1. ASSUME NEW k \in 0 .. maxHops PROVE f[k] = IF k = 0 THEN <<u>> ELSE next(f[k - 1])
    <3>1. CASE k = 0
      BY <1>7, <3>1 DEF Computes
    <3>2. CASE k # 0
      <4>1. f[k - 1] \in Seq(V) /\ f[k] = step[k][f[k - 1]]
        BY <1>1, <1>4, <1>7, <3>2 DEF Computes
      <4> QED
        BY <3>2, <4>1
    <3> QED
      BY <3>1, <3>2
  <2> QED
    BY <1>7, <2>1 DEF Computes
<1> HIDE DEF P
<1>9. P(G)
  BY <1>8
<1> HIDE DEF G
<1>10. G[maxHops] \in I[maxHops]
  <2>1. Stays(0, maxHops, I, G)
    BY <1>1, <1>2, <1>3, <1>9 DEF P, Stays
  <2> QED
    BY <1>1, <2>1, RecursionStays
<1> QED
  BY <1>5, <1>6, <1>10

\* No vertex follows itself.
Moves(p) == \A i \in 1 .. Len(p) - 1 : p[i] # p[i + 1]

\* Dedup keeps the first and the last vertex.
LEMMA DedupType ==
  ASSUME NEW V, NEW s \in Seq(V), Len(s) # 0
  PROVE  LET d == Dedup(s)
         IN /\ d \in Seq(V) /\ Len(d) \in 1 .. Len(s) /\ Moves(d)
            /\ d[1] = s[1] /\ d[Len(d)] = s[Len(s)]
<1> DEFINE N == Len(s)
           next(k, d) == IF s[k] = s[k - 1] THEN d ELSE Append(d, s[k])
           P(g) == g = [k \in 1 .. N |-> IF k = 1 THEN <<s[1]>> ELSE next(k, g[k - 1])]
           G == CHOOSE g : P(g)
           Good(k, d) == /\ Len(d) \in 1 .. k /\ Moves(d)
                         /\ d[1] = s[1] /\ d[Len(d)] = s[k]
           I == [k \in 1 .. N |-> {d \in Seq(V) : Good(k, d)}]
           step == [k \in 1 .. N |-> [d \in Seq(V) |-> next(k, d)]]
<1>1. N \in Nat /\ 1 \in Nat /\ 1 \in 1 .. N /\ N \in 1 .. N
      /\ \A k \in 1 .. N : k # 1 => k - 1 \in 1 .. N
  OBVIOUS
<1>2. <<s[1]>> \in I[1]
  <2>1. <<s[1]>> \in Seq(V) /\ Len(<<s[1]>>) = 1 /\ <<s[1]>>[1] = s[1]
    BY <1>1
  <2>2. Good(1, <<s[1]>>)
    BY <2>1 DEF Moves
  <2> HIDE DEF Good
  <2> QED
    BY <1>1, <2>1, <2>2
<1>3. ASSUME NEW k \in 1 .. N, k # 1, NEW d \in I[k - 1] PROVE next(k, d) \in I[k]
  <2>1. d \in Seq(V) /\ Good(k - 1, d) /\ k - 1 \in 1 .. N
    BY <1>1, <1>3
  <2>2. CASE s[k] = s[k - 1]
    <3>1. Good(k, d)
      BY <2>1, <2>2
    <3> HIDE DEF Good
    <3> QED
      BY <2>1, <2>2, <3>1
  <2>3. CASE s[k] # s[k - 1]
    <3> DEFINE e == Append(d, s[k])
    <3>1. /\ e \in Seq(V) /\ Len(e) = Len(d) + 1 /\ e[Len(d) + 1] = s[k]
          /\ \A i \in 1 .. Len(d) : e[i] = d[i]
      BY <2>1
    <3> HIDE DEF e
    <3>2. Len(d) \in 1 .. k - 1 /\ d[1] = s[1] /\ d[Len(d)] = s[k - 1] /\ Moves(d)
      BY <2>1
    <3>3. Moves(e)
      <4> SUFFICES ASSUME NEW i \in 1 .. Len(e) - 1 PROVE e[i] # e[i + 1]
        BY DEF Moves
      <4>1. CASE i = Len(d)
        BY <2>3, <3>1, <3>2, <4>1
      <4>2. CASE i # Len(d)
        <5>1. i \in 1 .. Len(d) - 1 /\ i \in 1 .. Len(d) /\ i + 1 \in 1 .. Len(d)
          BY <3>1, <3>2, <4>2
        <5> QED
          BY <3>1, <3>2, <5>1 DEF Moves
      <4> QED
        BY <4>1, <4>2
    <3>4. Good(k, e)
      BY <3>1, <3>2, <3>3
    <3>5. next(k, d) = e
      BY <2>3 DEF e
    <3> HIDE DEF Good, next
    <3> QED
      BY <3>1, <3>4, <3>5
  <2> QED
    BY <2>2, <2>3
<1>4. \A k \in 1 .. N : I[k] \subseteq Seq(V)
  OBVIOUS
<1>5. ASSUME NEW d \in I[N] PROVE d \in Seq(V) /\ Good(N, d)
  <2> HIDE DEF Good
  <2> QED
    BY <1>1
<1>6. Dedup(s) = G[N]
  BY DEF Dedup
<1> HIDE DEF next, I
<1>7. PICK f : Computes(f, 1, N, <<s[1]>>, step) /\ \A k \in 1 .. N : f[k] \in I[k]
  <2>1. ASSUME NEW k \in 1 .. N, k # 1, NEW d \in I[k - 1] PROVE step[k][d] \in I[k]
    BY <1>1, <1>3, <1>4, <2>1
  <2> HIDE DEF step, N
  <2>2. StepsStay(1, N, I, <<s[1]>>, step)
    BY <1>2, <2>1 DEF StepsStay
  <2> QED
    BY <1>1, <2>2, RecursionExists
<1>8. P(f)
  <2>1. ASSUME NEW k \in 1 .. N PROVE f[k] = IF k = 1 THEN <<s[1]>> ELSE next(k, f[k - 1])
    <3>1. CASE k = 1
      BY <1>7, <3>1 DEF Computes
    <3>2. CASE k # 1
      <4>1. f[k - 1] \in Seq(V) /\ f[k] = step[k][f[k - 1]]
        BY <1>1, <1>4, <1>7, <3>2 DEF Computes
      <4> QED
        BY <3>2, <4>1
    <3> QED
      BY <3>1, <3>2
  <2> QED
    BY <1>7, <2>1 DEF Computes
<1> HIDE DEF P
<1>9. P(G)
  BY <1>8
<1> HIDE DEF G, N
<1>10. G[N] \in I[N]
  <2>1. Stays(1, N, I, G)
    BY <1>1, <1>2, <1>3, <1>9 DEF P, Stays
  <2> QED
    BY <1>1, <2>1, RecursionStays
<1> QED
  BY <1>5, <1>6, <1>10 DEF N

\* The paths the search returns: closed, of three to hops + 4 vertices, without a stop.
Walks(n, hops) ==
  {p \in Seq(Vertices(n)) : /\ Len(p) \in 3 .. hops + 4
                            /\ p[1] = p[Len(p)]
                            /\ Moves(p)}

\* Whatever the predecessors are, the path starts and ends at the source.
LEMMA ReconstructedIsClosed ==
  ASSUME NEW V, NEW pred \in [V -> V \cup {Infinity}], NEW src \in V,
         NEW u \in V, NEW v \in V, NEW maxHops \in Nat
  PROVE  LET p == ReconstructPath(pred, src, u, v, maxHops)
         IN /\ p \in Seq(V) /\ Len(p) \in 1 .. maxHops + 4 /\ Moves(p)
            /\ p[1] = src /\ p[Len(p)] = src
<1> DEFINE c == Chain(pred, src, u, maxHops)
           chain == Reverse(c)
           led == IF chain[1] = src THEN chain ELSE <<src>> \o chain
           end == IF v = src THEN << >> ELSE <<src>>
           closed == Append(led, v) \o end
<1>1. c \in Seq(V) /\ Len(c) \in 1 .. maxHops + 1
  BY ChainType
<1>2. ReconstructPath(pred, src, u, v, maxHops) = Dedup(closed)
  BY DEF ReconstructPath
<1> HIDE DEF c
<1>3. chain \in Seq(V) /\ Len(chain) = Len(c)
  <2>1. chain \in [1 .. Len(c) -> V]
    BY <1>1 DEF Reverse
  <2> QED
    BY <1>1, <2>1
<1> HIDE DEF chain
<1>4. led \in Seq(V) /\ Len(led) \in 1 .. maxHops + 2 /\ led[1] = src
  <2>1. CASE chain[1] = src
    <3>1. led = chain
      BY <2>1
    <3> HIDE DEF led
    <3> QED
      BY <1>1, <1>3, <2>1, <3>1
  <2>2. CASE chain[1] # src
    <3>1. led = <<src>> \o chain
      BY <2>2
    <3> HIDE DEF led
    <3>2. <<src>> \in Seq(V) /\ Len(<<src>>) = 1 /\ <<src>>[1] = src
      OBVIOUS
    <3>3. led \in Seq(V) /\ Len(led) = 1 + Len(chain) /\ led[1] = src
      BY <1>3, <3>1, <3>2, Joined
    <3> QED
      BY <1>1, <1>3, <3>3
  <2> QED
    BY <2>1, <2>2
<1> HIDE DEF led
<1>5. /\ Append(led, v) \in Seq(V) /\ Len(Append(led, v)) = Len(led) + 1
      /\ Append(led, v)[1] = src /\ Append(led, v)[Len(led) + 1] = v
  BY <1>4
<1>6. closed \in Seq(V) /\ Len(closed) \in 1 .. maxHops + 4
      /\ closed[1] = src /\ closed[Len(closed)] = src
  <2> DEFINE a == Append(led, v)
  <2>1. a \in Seq(V) /\ Len(a) \in 1 .. maxHops + 3 /\ a[1] = src /\ a[Len(a)] = v
    BY <1>4, <1>5
  <2>2. end \in Seq(V) /\ Len(end) = (IF v = src THEN 0 ELSE 1)
        /\ (v # src => end[1] = src)
    OBVIOUS
  <2>3. closed = a \o end
    OBVIOUS
  <2> HIDE DEF a, end, closed
  <2>4. /\ closed \in Seq(V) /\ Len(closed) = Len(a) + Len(end)
        /\ \A i \in 1 .. Len(a) : closed[i] = a[i]
        /\ \A i \in 1 .. Len(end) : closed[Len(a) + i] = end[i]
    <3>1. a \in Seq(V) /\ end \in Seq(V)
      BY <2>1, <2>2
    <3>2. /\ a \o end \in Seq(V) /\ Len(a \o end) = Len(a) + Len(end)
          /\ \A i \in 1 .. Len(a) : (a \o end)[i] = a[i]
          /\ \A i \in 1 .. Len(end) : (a \o end)[Len(a) + i] = end[i]
      BY <3>1, Joined
    <3> QED
      BY <2>3, <3>2, Zenon
  <2>5. 1 \in 1 .. Len(a) /\ Len(a) \in 1 .. Len(a)
    BY <2>1
  <2>6. CASE v = src
    BY <2>1, <2>2, <2>4, <2>5, <2>6
  <2>7. CASE v # src
    <3>1. 1 \in 1 .. Len(end) /\ Len(closed) = Len(a) + 1
      BY <2>2, <2>4, <2>7
    <3> QED
      BY <2>1, <2>2, <2>4, <2>5, <2>7, <3>1
  <2> QED
    BY <2>6, <2>7
<1> HIDE DEF closed
<1>7. Len(closed) # 0
  BY <1>6
<1>8. LET d == Dedup(closed)
      IN /\ d \in Seq(V) /\ Len(d) \in 1 .. Len(closed) /\ Moves(d)
         /\ d[1] = closed[1] /\ d[Len(d)] = closed[Len(closed)]
  BY <1>6, <1>7, DedupType
<1> QED
  BY <1>2, <1>6, <1>8

\* Every cycle the search reports is a closed walk over the matrix.
LEMMA CyclesAreWalks ==
  ASSUME NEW m, Weighted(m), NEW hops \in Nat, Infinity \notin Int
  PROVE  DetectCycles(m, hops) \in Seq({ArbPath(m, p) : p \in Walks(m.n, hops)})
<1> DEFINE V == Vertices(m.n)
           W == {ArbPath(m, p) : p \in Walks(m.n, hops)}
           path(src, e) == ReconstructPath(BellmanFord(m, src).pred, src, e[1], e[2], hops)
           found(src, e) == IF Len(path(src, e)) < 3 THEN << >> ELSE <<ArbPath(m, path(src, e))>>
           ends(src) == CycleEndpoints(m, BellmanFord(m, src), hops)
           rows(src) == [i \in 1 .. Len(ends(src)) |-> found(src, ends(src)[i])]
           from(src) == FlattenSeq(rows(src))
           f == [k \in 1 .. m.n |-> from(k - 1)]
<1>1. CASE m.n < 2
  BY <1>1 DEF DetectCycles
<1>2. CASE ~(m.n < 2)
  <2>1. m.n \in Nat /\ m.n >= 2
    BY <1>2 DEF Weighted
  <2>2. ASSUME NEW src \in V, NEW e \in Arcs(m.n) PROVE found(src, e) \in Seq(W)
    <3>1. e[1] \in V /\ e[2] \in V
      BY DEF Arcs
    <3>2. BellmanFord(m, src).pred \in [V -> V \cup {Infinity}]
      BY <2>1, PredecessorsAreVertices
    <3>3. /\ path(src, e) \in Seq(V) /\ Len(path(src, e)) \in 1 .. hops + 4
          /\ Moves(path(src, e))
          /\ path(src, e)[1] = src /\ path(src, e)[Len(path(src, e))] = src
      <4> HIDE DEF V
      <4> QED
        BY <3>1, <3>2, ReconstructedIsClosed
    <3> HIDE DEF path
    <3>4. CASE Len(path(src, e)) < 3
      BY <3>4
    <3>5. CASE ~(Len(path(src, e)) < 3)
      <4>1. Len(path(src, e)) \in 3 .. hops + 4
        BY <3>3, <3>5
      <4>2. path(src, e) \in Walks(m.n, hops)
        BY <3>3, <4>1 DEF Walks
      <4>3. ArbPath(m, path(src, e)) \in W
        BY <4>2
      <4>4. found(src, e) = <<ArbPath(m, path(src, e))>>
        BY <3>5
      <4> HIDE DEF W, found
      <4> QED
        BY <4>3, <4>4
    <3> QED
      BY <3>4, <3>5
  <2> HIDE DEF found, W
  <2>3. ASSUME NEW src \in V PROVE from(src) \in Seq(W)
    <3>1. ends(src) \in Seq(Arcs(m.n))
      BY <2>1, EndpointsAreArcs
    <3> HIDE DEF ends
    <3>2. rows(src) \in [1 .. Len(ends(src)) -> Seq(W)] /\ Len(ends(src)) \in Nat
      BY <2>2, <3>1
    <3> HIDE DEF rows
    <3> QED
      BY <3>2, RowsJoined
  <2>4. DetectCycles(m, hops) = FlattenSeq(f)
    BY <1>2 DEF DetectCycles, found
  <2> HIDE DEF from
  <2>5. f \in [1 .. m.n -> Seq(W)]
    <3>1. ASSUME NEW k \in 1 .. m.n PROVE f[k] \in Seq(W)
      <4>1. k - 1 \in V
        BY <2>1 DEF Vertices
      <4> QED
        BY <2>3, <4>1
    <3> QED
      BY <3>1
  <2> HIDE DEF f
  <2> QED
    BY <2>1, <2>4, <2>5, RowsJoined DEF W
<1> QED
  BY <1>1, <1>2

-----------------------------------------------------------------------------
(* The edges of a batch and the matrix.                                      *)

\* A non-empty set of positions has a greatest.
LEMMA GreatestPosition ==
  ASSUME NEW n \in Nat, NEW T, T \subseteq 1 .. n, T # {}
  PROVE  \E k \in T : \A j \in T : j <= k
<1> DEFINE U == {n - k : k \in T}
<1>1. U \subseteq Nat /\ U # {}
  <2>1. PICK k : k \in T
    OBVIOUS
  <2>2. n - k \in U
    BY <2>1
  <2>3. ASSUME NEW j \in T PROVE n - j \in Nat
    <3>1. j \in 1 .. n
      OBVIOUS
    <3> QED
      BY <3>1
  <2> QED
    BY <2>2, <2>3
<1>2. PICK u \in U : \A w \in U : u <= w
  BY <1>1, LeastNatural
<1>3. PICK k \in T : u = n - k
  OBVIOUS
<1>4. ASSUME NEW j \in T PROVE j <= k
  <2>1. u <= n - j
    BY <1>2
  <2> QED
    BY <1>3, <2>1
<1> QED
  BY <1>4

\* The edges of a batch join priced tokens, each of them to every other.
LEMMA EdgesOfBatch ==
  ASSUME NEW q, TOKENS \in Seq(ToSet(TOKENS)), DOMAIN q \subseteq ToSet(TOKENS)
  PROVE  /\ Len(BuildEdges(q)) \in Nat /\ DOMAIN BuildEdges(q) = 1 .. Len(BuildEdges(q))
         /\ \A k \in 1 .. Len(BuildEdges(q)) :
              LET e == BuildEdges(q)[k]
              IN /\ e.from \in DOMAIN q /\ e.to \in DOMAIN q
                 /\ e.log_weight = LogWeight(q, e.from, e.to)
         /\ \A a, b \in DOMAIN q : a # b =>
              \E k \in 1 .. Len(BuildEdges(q)) :
                BuildEdges(q)[k].from = a /\ BuildEdges(q)[k].to = b
<1> DEFINE I == {i \in DOMAIN TOKENS : TOKENS[i] \in DOMAIN q}
           priced == Keep(TOKENS, I)
           pairs == Pairs(Len(priced))
           a(k) == priced[pairs[k][1] + 1]
           b(k) == priced[pairs[k][2] + 1]
           edges == [k \in 1 .. Len(pairs) |->
                       [from |-> a(k), to |-> b(k), log_weight |-> LogWeight(q, a(k), b(k))]]
<1>1. BuildEdges(q) = edges
  BY DEF BuildEdges
<1>2. priced \in Seq(DOMAIN q)
  <2> DEFINE kept == {TOKENS[i] : i \in I \cap (1 .. Len(TOKENS))}
  <2>1. kept \subseteq DOMAIN q
    OBVIOUS
  <2>2. priced \in Seq(kept)
    BY KeepType
  <2> HIDE DEF kept, priced
  <2> QED
    BY <2>1, <2>2
<1>3. ASSUME NEW t \in DOMAIN q PROVE Occurs(t, priced)
  <2>1. PICK i \in 1 .. Len(TOKENS) : TOKENS[i] = t
    BY DEF ToSet
  <2>2. i \in I \cap (1 .. Len(TOKENS))
    BY <2>1
  <2> HIDE DEF I
  <2> QED
    BY <2>1, <2>2, KeepType
<1> HIDE DEF priced
<1>4. Len(priced) \in Nat
  BY <1>2
<1>5. /\ pairs \in Seq(Arcs(Len(priced)))
      /\ \A u, v \in Vertices(Len(priced)) : u # v => Occurs(<<u, v>>, pairs)
  BY <1>4, PairsType
<1> HIDE DEF pairs
<1>6. Len(pairs) \in Nat /\ Len(edges) = Len(pairs) /\ DOMAIN edges = 1 .. Len(edges)
  BY <1>5
<1>7. ASSUME NEW k \in 1 .. Len(pairs) PROVE a(k) \in DOMAIN q /\ b(k) \in DOMAIN q
  <2>1. pairs[k] \in Arcs(Len(priced))
    BY <1>5
  <2>2. pairs[k][1] + 1 \in 1 .. Len(priced) /\ pairs[k][2] + 1 \in 1 .. Len(priced)
    <3>1. pairs[k][1] \in Vertices(Len(priced)) /\ pairs[k][2] \in Vertices(Len(priced))
      BY <2>1 DEF Arcs
    <3>2. \A v \in Vertices(Len(priced)) : v + 1 \in 1 .. Len(priced)
      BY <1>4 DEF Vertices
    <3> QED
      BY <3>1, <3>2
  <2> QED
    BY <1>2, <2>2
<1>8. ASSUME NEW s \in DOMAIN q, NEW t \in DOMAIN q, s # t
      PROVE  \E k \in 1 .. Len(pairs) : a(k) = s /\ b(k) = t
  <2>1. PICK i \in 1 .. Len(priced) : priced[i] = s
    BY <1>3 DEF Occurs
  <2>2. PICK j \in 1 .. Len(priced) : priced[j] = t
    BY <1>3 DEF Occurs
  <2>3. i - 1 \in Vertices(Len(priced)) /\ j - 1 \in Vertices(Len(priced)) /\ i - 1 # j - 1
        /\ (i - 1) + 1 = i /\ (j - 1) + 1 = j
    BY <1>4, <1>8, <2>1, <2>2 DEF Vertices
  <2>4. PICK k \in 1 .. Len(pairs) : pairs[k] = <<i - 1, j - 1>>
    BY <1>5, <2>3 DEF Occurs
  <2>5. a(k) = s /\ b(k) = t
    BY <2>1, <2>2, <2>3, <2>4
  <2> QED
    BY <2>5
<1>9. ASSUME NEW k \in 1 .. Len(edges)
      PROVE  /\ edges[k].from = a(k) /\ edges[k].to = b(k)
             /\ edges[k].log_weight = LogWeight(q, a(k), b(k))
  BY <1>6
<1> HIDE DEF edges, a, b
<1>10. ASSUME NEW s \in DOMAIN q, NEW t \in DOMAIN q, s # t
       PROVE  \E k \in 1 .. Len(edges) : edges[k].from = s /\ edges[k].to = t
  BY <1>6, <1>8, <1>9, <1>10
<1> QED
  BY <1>1, <1>6, <1>7, <1>9, <1>10

\* The matrix holds the weight of the prices between any two different tokens.
LEMMA WeightOfPrices ==
  ASSUME NEW q, TOKENS \in Seq(ToSet(TOKENS)), DOMAIN q \subseteq ToSet(TOKENS),
         NEW a \in DOMAIN q, NEW b \in DOMAIN q, a # b
  PROVE  Weight(BuildEdges(q), a, b) = LogWeight(q, a, b)
<1> DEFINE es == BuildEdges(q)
           ks == {k \in DOMAIN es : es[k].from = a /\ es[k].to = b}
           last == CHOOSE k \in ks : \A j \in ks : j <= k
<1>1. Weight(es, a, b) = IF ks = {} THEN Infinity ELSE es[last].log_weight
  BY DEF Weight
<1> HIDE DEF es
<1>2. Len(es) \in Nat /\ DOMAIN es = 1 .. Len(es)
  BY EdgesOfBatch DEF es
<1>3. ks \subseteq 1 .. Len(es) /\ ks # {}
  <2>1. \E k \in 1 .. Len(es) : es[k].from = a /\ es[k].to = b
    BY EdgesOfBatch DEF es
  <2> QED
    BY <1>2, <2>1
<1>4. \A k \in ks : es[k].log_weight = LogWeight(q, a, b)
  <2>1. \A k \in 1 .. Len(es) : es[k].log_weight = LogWeight(q, es[k].from, es[k].to)
    BY EdgesOfBatch DEF es
  <2> QED
    BY <1>2, <2>1
<1> HIDE DEF ks
<1>5. \E k \in ks : \A j \in ks : j <= k
  BY <1>2, <1>3, GreatestPosition
<1>6. last \in ks
  BY <1>5
<1> HIDE DEF last
<1> QED
  BY <1>1, <1>3, <1>4, <1>6 DEF es

Distinct(s) == \A i, j \in 1 .. Len(s) : s[i] = s[j] => i = j

LEMMA RegisterTokenType ==
  ASSUME NEW D, NEW s \in Seq(D), Distinct(s), NEW t \in D
  PROVE  RegisterToken(s, t) \in Seq(D) /\ Distinct(RegisterToken(s, t))
<1>1. CASE Contains(s, t)
  BY <1>1 DEF RegisterToken
<1>2. CASE ~Contains(s, t)
  <2> DEFINE e == Append(s, t)
  <2>1. /\ e \in Seq(D) /\ Len(e) = Len(s) + 1 /\ e[Len(s) + 1] = t
        /\ \A i \in 1 .. Len(s) : e[i] = s[i]
    OBVIOUS
  <2>2. \A i \in 1 .. Len(s) : s[i] # t
    BY <1>2 DEF Contains
  <2>3. RegisterToken(s, t) = e
    BY <1>2 DEF RegisterToken
  <2> HIDE DEF e
  <2>4. ASSUME NEW i \in 1 .. Len(e), NEW j \in 1 .. Len(e), e[i] = e[j] PROVE i = j
    <3>1. \A k \in 1 .. Len(e) : k \in 1 .. Len(s) \/ k = Len(s) + 1
      BY <2>1
    <3> QED
      BY <2>1, <2>2, <2>4, <3>1 DEF Distinct
  <2> QED
    BY <2>1, <2>3, <2>4 DEF Distinct
<1> QED
  BY <1>1, <1>2

\* The tokens stay numbered: none is numbered twice, and only tokens of edges are.
LEMMA RegisterAllType ==
  ASSUME NEW D, NEW s \in Seq(D), Distinct(s), NEW es, Len(es) \in Nat,
         \A k \in 1 .. Len(es) : es[k].from \in D /\ es[k].to \in D
  PROVE  RegisterAll(s, es) \in Seq(D) /\ Distinct(RegisterAll(s, es))
<1> DEFINE N == Len(es)
           next(k, x) == RegisterToken(RegisterToken(x, es[k].from), es[k].to)
           P(g) == g = [k \in 0 .. N |-> IF k = 0 THEN s ELSE next(k, g[k - 1])]
           G == CHOOSE g : P(g)
           J == {x \in Seq(D) : Distinct(x)}
           I == [k \in 0 .. N |-> J]
           step == [k \in 0 .. N |-> [x \in J |-> next(k, x)]]
<1>1. N \in Nat /\ 0 \in Nat /\ 0 \in 0 .. N /\ N \in 0 .. N
      /\ \A k \in 0 .. N : k # 0 => k - 1 \in 0 .. N
  OBVIOUS
<1>2. s \in J
  OBVIOUS
<1>3. ASSUME NEW k \in 0 .. N, k # 0, NEW x \in J PROVE next(k, x) \in J
  <2>1. es[k].from \in D /\ es[k].to \in D
    BY <1>3
  <2>2. RegisterToken(x, es[k].from) \in Seq(D) /\ Distinct(RegisterToken(x, es[k].from))
    BY <2>1, RegisterTokenType
  <2> QED
    BY <2>1, <2>2, RegisterTokenType
<1>4. RegisterAll(s, es) = G[N]
  BY DEF RegisterAll
<1>5. ASSUME NEW x \in J PROVE x \in Seq(D) /\ Distinct(x)
  OBVIOUS
<1> HIDE DEF next, J, N
<1>6. PICK f : Computes(f, 0, N, s, step) /\ \A k \in 0 .. N : f[k] \in I[k]
  <2>1. StepsStay(0, N, I, s, step)
    BY <1>1, <1>2, <1>3 DEF StepsStay
  <2> HIDE DEF I, step
  <2> QED
    BY <1>1, <2>1, RecursionExists
<1>7. P(f)
  <2>1. ASSUME NEW k \in 0 .. N PROVE f[k] = IF k = 0 THEN s ELSE next(k, f[k - 1])
    BY <1>1, <1>6 DEF Computes
  <2> QED
    BY <1>6, <2>1 DEF Computes
<1> HIDE DEF P
<1>8. P(G)
  BY <1>7
<1> HIDE DEF G
<1>9. G[N] \in J
  <2>1. Stays(0, N, I, G)
    BY <1>1, <1>2, <1>3, <1>8 DEF P, Stays
  <2>2. G[N] \in I[N]
    <3> HIDE DEF I
    <3> QED
      BY <1>1, <2>1, RecursionStays
  <2> QED
    BY <1>1, <2>2
<1> QED
  BY <1>4, <1>5, <1>9

\* A matrix whose weights are those of the prices q, for the tokens names.
Prices(m, names, q) ==
  /\ m.n = Len(names)
  /\ \A i, j \in Vertices(Len(names)) :
       i # j => m.weight[i][j] = LogWeight(q, names[i + 1], names[j + 1])

LEMMA MatrixPrices ==
  ASSUME NEW q, TOKENS \in Seq(ToSet(TOKENS)), DOMAIN q \subseteq ToSet(TOKENS),
         NEW names \in Seq(DOMAIN q), Distinct(names)
  PROVE  Prices(PriceMatrix(names, BuildEdges(q)), names, q)
<1> DEFINE es == BuildEdges(q)
           m == PriceMatrix(names, es)
<1>1. m.n = Len(names) /\ Len(names) \in Nat
  BY DEF PriceMatrix
<1>2. ASSUME NEW i \in Vertices(Len(names)), NEW j \in Vertices(Len(names)), i # j
      PROVE  m.weight[i][j] = LogWeight(q, names[i + 1], names[j + 1])
  <2>1. m.weight[i][j] = Weight(es, names[i + 1], names[j + 1])
    <3> HIDE DEF es
    <3> QED
      BY DEF PriceMatrix, Vertices
  <2>2. i + 1 \in 1 .. Len(names) /\ j + 1 \in 1 .. Len(names) /\ i + 1 # j + 1
    BY <1>1, <1>2 DEF Vertices
  <2>3. names[i + 1] \in DOMAIN q /\ names[j + 1] \in DOMAIN q /\ names[i + 1] # names[j + 1]
    BY <2>2 DEF Distinct
  <2> QED
    BY <2>1, <2>3, WeightOfPrices
<1> HIDE DEF m
<1> QED
  BY <1>1, <1>2 DEF Prices, m

-----------------------------------------------------------------------------
(* The sum of logarithms along a walk.                                       *)

WeightAt(m, p, i) == m.weight[p[i]][p[i + 1]]

LEMMA TotalEquation ==
  ASSUME NEW m, NEW p, Hops(p) \in Nat, Infinity \notin Int,
         \A i \in 1 .. Hops(p) : WeightAt(m, p, i) \in Int
  PROVE  \E sum : /\ TotalLog(m, p) = sum[Hops(p)] /\ sum[0] = 0
                  /\ \A k \in 0 .. Hops(p) : sum[k] \in Int
                  /\ \A k \in 1 .. Hops(p) : sum[k] = sum[k - 1] + WeightAt(m, p, k)
<1> DEFINE N == Hops(p)
           weight(i) == m.weight[p[i]][p[i + 1]]
           P(g) == g = [k \in 0 .. N |-> IF k = 0 THEN 0 ELSE Plus(g[k - 1], weight(k))]
           G == CHOOSE g : P(g)
           I == [k \in 0 .. N |-> Int]
           step == [k \in 0 .. N |-> [x \in Int |-> Plus(x, weight(k))]]
<1>1. N \in Nat /\ 0 \in Nat /\ 0 \in Int /\ 0 \in 0 .. N /\ N \in 0 .. N
      /\ \A k \in 0 .. N : k # 0 => k - 1 \in 0 .. N
  OBVIOUS
<1>2. ASSUME NEW k \in 0 .. N, k # 0, NEW x \in Int
      PROVE  Plus(x, weight(k)) = x + WeightAt(m, p, k) /\ x + WeightAt(m, p, k) \in Int
  <2>1. weight(k) = WeightAt(m, p, k) /\ WeightAt(m, p, k) \in Int
    BY <1>2 DEF WeightAt
  <2> HIDE DEF weight
  <2> QED
    BY <2>1 DEF Plus
<1>3. TotalLog(m, p) = G[N]
  BY DEF TotalLog
<1> HIDE DEF weight, N
<1>4. PICK f : Computes(f, 0, N, 0, step) /\ \A k \in 0 .. N : f[k] \in I[k]
  <2>1. StepsStay(0, N, I, 0, step)
    BY <1>1, <1>2 DEF StepsStay
  <2> HIDE DEF I, step
  <2> QED
    BY <1>1, <2>1, RecursionExists
<1>5. P(f)
  <2>1. ASSUME NEW k \in 0 .. N PROVE f[k] = IF k = 0 THEN 0 ELSE Plus(f[k - 1], weight(k))
    BY <1>1, <1>4 DEF Computes
  <2> QED
    BY <1>4, <2>1 DEF Computes
<1> HIDE DEF P
<1>6. P(G)
  BY <1>5
<1> HIDE DEF G
<1>7. \A k \in 0 .. N : G[k] \in Int
  <2>1. Stays(0, N, I, G)
    <3>1. G[0] \in I[0]
      BY <1>1, <1>6 DEF P
    <3>2. ASSUME NEW k \in 0 .. N, k # 0, G[k - 1] \in I[k - 1] PROVE G[k] \in I[k]
      <4>1. G[k - 1] \in Int
        BY <1>1, <3>2
      <4>2. G[k] = Plus(G[k - 1], weight(k))
        BY <1>6, <3>2 DEF P
      <4>3. G[k] \in Int
        BY <1>2, <3>2, <4>1, <4>2
      <4> QED
        BY <4>3
    <3> HIDE DEF I
    <3> QED
      BY <3>1, <3>2 DEF Stays
  <2>2. \A k \in 0 .. N : G[k] \in I[k]
    <3> HIDE DEF I
    <3> QED
      BY <1>1, <2>1, RecursionStays
  <2> QED
    BY <2>2
<1>8. G[0] = 0
  BY <1>1, <1>6 DEF P
<1>9. ASSUME NEW k \in 1 .. N PROVE G[k] = G[k - 1] + WeightAt(m, p, k)
  <2>1. k \in 0 .. N /\ k # 0 /\ k - 1 \in 0 .. N
    BY <1>1
  <2>2. G[k] = Plus(G[k - 1], weight(k))
    BY <1>6, <2>1 DEF P
  <2> QED
    BY <1>2, <1>7, <2>1, <2>2
<1> QED
  BY <1>3, <1>7, <1>8, <1>9 DEF N

\* What a walk over prices needs to be read as one.
PricedWalk(m, names, q, p, hops) ==
  /\ Prices(m, names, q) /\ names \in Seq(DOMAIN q)
  /\ \A t \in DOMAIN q : q[t] \in Int
  /\ p \in Walks(Len(names), hops) /\ hops \in Nat
  /\ MAX_LOG_WEIGHT \in Nat /\ Infinity \notin Int

TokenAt(names, p, i) == names[p[i] + 1]

\* Each hop of a walk joins two priced tokens and weighs what their prices say.
LEMMA HopsArePriced ==
  ASSUME NEW m, NEW names, NEW q, NEW p, NEW hops, PricedWalk(m, names, q, p, hops)
  PROVE  /\ Hops(p) \in 2 .. hops + 3
         /\ \A i \in 1 .. Hops(p) + 1 :
              /\ p[i] \in Vertices(Len(names)) /\ TokenAt(names, p, i) \in DOMAIN q
              /\ q[TokenAt(names, p, i)] \in Int
         /\ \A i \in 1 .. Hops(p) :
              /\ WeightAt(m, p, i)
                   = LogWeight(q, TokenAt(names, p, i), TokenAt(names, p, i + 1))
              /\ WeightAt(m, p, i) \in Int
<1>1. p \in Seq(Vertices(Len(names))) /\ Len(p) \in 3 .. hops + 4 /\ Moves(p) /\ hops \in Nat
  BY DEF PricedWalk, Walks
<1>2. Hops(p) \in 2 .. hops + 3 /\ Len(p) = Hops(p) + 1
  BY <1>1 DEF Hops
<1>3. ASSUME NEW i \in 1 .. Hops(p) + 1
      PROVE  /\ p[i] \in Vertices(Len(names)) /\ TokenAt(names, p, i) \in DOMAIN q
             /\ q[TokenAt(names, p, i)] \in Int
  <2>1. p[i] \in Vertices(Len(names))
    BY <1>1, <1>2
  <2>2. names \in Seq(DOMAIN q)
    BY DEF PricedWalk
  <2>3. p[i] + 1 \in 1 .. Len(names)
    BY <2>1, <2>2 DEF Vertices
  <2>4. TokenAt(names, p, i) \in DOMAIN q
    BY <2>2, <2>3 DEF TokenAt
  <2> QED
    BY <2>1, <2>4 DEF PricedWalk
<1>4. ASSUME NEW i \in 1 .. Hops(p)
      PROVE  /\ WeightAt(m, p, i)
                  = LogWeight(q, TokenAt(names, p, i), TokenAt(names, p, i + 1))
             /\ WeightAt(m, p, i) \in Int
  <2>1. i \in 1 .. Hops(p) + 1 /\ i + 1 \in 1 .. Hops(p) + 1 /\ i \in 1 .. Len(p) - 1
    BY <1>2
  <2>2. p[i] \in Vertices(Len(names)) /\ p[i + 1] \in Vertices(Len(names)) /\ p[i] # p[i + 1]
    BY <1>1, <1>3, <2>1 DEF Moves
  <2>3. WeightAt(m, p, i)
          = LogWeight(q, TokenAt(names, p, i), TokenAt(names, p, i + 1))
    BY <2>2 DEF WeightAt, TokenAt, PricedWalk, Prices
  <2>4. q[TokenAt(names, p, i)] \in Int /\ q[TokenAt(names, p, i + 1)] \in Int
    BY <1>3, <2>1
  <2>5. MAX_LOG_WEIGHT \in Nat
    BY DEF PricedWalk
  <2> QED
    BY <2>3, <2>4, <2>5 DEF LogWeight, Clamp
<1> QED
  BY <1>2, <1>3, <1>4

\* Logarithms of prices cancel along a closed walk: uncut, they add up to nothing.
LEMMA UncutWalkSumsToZero ==
  ASSUME NEW m, NEW names, NEW q, NEW p, NEW hops, PricedWalk(m, names, q, p, hops),
         \A i \in 1 .. Hops(p) :
           WeightAt(m, p, i) = q[TokenAt(names, p, i)] - q[TokenAt(names, p, i + 1)]
  PROVE  TotalLog(m, p) = 0
<1> DEFINE N == Hops(p)
           price(i) == q[TokenAt(names, p, i)]
<1>1. N \in Nat /\ 0 \in Nat /\ \A i \in 1 .. N + 1 : price(i) \in Int
  <2>1. hops \in Nat
    BY DEF PricedWalk
  <2> QED
    BY <2>1, HopsArePriced
<1>2. p[1] = p[N + 1]
  BY DEF PricedWalk, Walks, Hops
<1>3. price(1) = price(N + 1)
  BY <1>2 DEF TokenAt
<1>4. PICK sum : /\ TotalLog(m, p) = sum[N] /\ sum[0] = 0
                 /\ \A k \in 0 .. N : sum[k] \in Int
                 /\ \A k \in 1 .. N : sum[k] = sum[k - 1] + WeightAt(m, p, k)
  <2>1. \A i \in 1 .. N : WeightAt(m, p, i) \in Int
    BY HopsArePriced
  <2>2. Infinity \notin Int
    BY DEF PricedWalk
  <2> QED
    BY <1>1, <2>1, <2>2, TotalEquation
<1>5. \A i \in 1 .. N : WeightAt(m, p, i) = price(i) - price(i + 1)
  OBVIOUS
<1> HIDE DEF N, price
<1> DEFINE T == {k \in 0 .. N : sum[k] = price(1) - price(k + 1)}
<1>6. 0 \in T
  BY <1>1, <1>4
<1>7. ASSUME NEW k \in 0 .. N - 1, k \in T PROVE k + 1 \in T
  <2>1. /\ k + 1 \in 1 .. N /\ k + 1 \in 0 .. N /\ (k + 1) - 1 = k
        /\ 1 \in 1 .. N + 1 /\ k + 1 \in 1 .. N + 1 /\ (k + 1) + 1 \in 1 .. N + 1
    BY <1>1
  <2>2. sum[k + 1] = sum[k] + WeightAt(m, p, k + 1)
    BY <1>4, <2>1
  <2>3. sum[k] = price(1) - price(k + 1)
    BY <1>7
  <2>4. sum[k + 1] = price(1) - price((k + 1) + 1)
    BY <1>1, <1>5, <2>1, <2>2, <2>3
  <2> QED
    BY <2>1, <2>4
<1>8. N \in T
  <2>1. 0 .. N \subseteq T
    <3> HIDE DEF T
    <3> QED
      BY <1>1, <1>6, <1>7, Induction
  <2> QED
    BY <1>1, <2>1
<1>9. sum[N] = price(1) - price(N + 1) /\ price(1) \in Int
  BY <1>1, <1>8
<1> QED
  BY <1>3, <1>4, <1>9

-----------------------------------------------------------------------------
(* Powers of two.                                                            *)

LEMMA PowerSteps ==
  ASSUME NEW n \in Nat
  PROVE  \E power : /\ Pow2(n) = power[n] /\ power[0] = 1
                    /\ \A k \in 0 .. n : power[k] \in Nat \ {0}
                    /\ \A k \in 1 .. n : power[k] = 2 * power[k - 1]
<1> DEFINE P(g) == g = [k \in 0 .. n |-> IF k = 0 THEN 1 ELSE 2 * g[k - 1]]
           G == CHOOSE g : P(g)
           J == Nat \ {0}
           I == [k \in 0 .. n |-> J]
           step == [k \in 0 .. n |-> [x \in J |-> 2 * x]]
<1>1. 0 \in Nat /\ 0 \in 0 .. n /\ n \in 0 .. n /\ 1 \in J
      /\ (\A k \in 0 .. n : k # 0 => k - 1 \in 0 .. n) /\ (\A x \in J : 2 * x \in J)
  OBVIOUS
<1>2. Pow2(n) = G[n]
  BY DEF Pow2
<1>3. \A x \in J : x \in Nat \ {0}
  OBVIOUS
<1> HIDE DEF J
<1>4. PICK f : Computes(f, 0, n, 1, step) /\ \A k \in 0 .. n : f[k] \in I[k]
  <2>1. StepsStay(0, n, I, 1, step)
    BY <1>1 DEF StepsStay
  <2> HIDE DEF I, step
  <2> QED
    BY <1>1, <2>1, RecursionExists
<1>5. P(f)
  <2>1. ASSUME NEW k \in 0 .. n PROVE f[k] = IF k = 0 THEN 1 ELSE 2 * f[k - 1]
    BY <1>1, <1>4 DEF Computes
  <2> QED
    BY <1>4, <2>1 DEF Computes
<1> HIDE DEF P
<1>6. P(G)
  BY <1>5
<1> HIDE DEF G
<1>7. \A k \in 0 .. n : G[k] \in J
  <2>1. Stays(0, n, I, G)
    BY <1>1, <1>6 DEF P, Stays
  <2>2. \A k \in 0 .. n : G[k] \in I[k]
    <3> HIDE DEF I
    <3> QED
      BY <1>1, <2>1, RecursionStays
  <2> QED
    BY <2>2
<1>8. G[0] = 1
  BY <1>1, <1>6 DEF P
<1>9. ASSUME NEW k \in 1 .. n PROVE G[k] = 2 * G[k - 1]
  <2>1. k \in 0 .. n /\ k # 0
    OBVIOUS
  <2> QED
    BY <1>6, <2>1 DEF P
<1> QED
  BY <1>2, <1>3, <1>7, <1>8, <1>9

LEMMA PowerType ==
  ASSUME NEW n \in Nat
  PROVE  Pow2(n) \in Nat \ {0}
<1>1. n \in 0 .. n
  OBVIOUS
<1> QED
  BY <1>1, PowerSteps

LEMMA PowerZero == Pow2(0) = 1
<1>1. 0 \in Nat
  OBVIOUS
<1> QED
  BY <1>1, PowerSteps

\* The two functions that Pow2(n) and Pow2(n + 1) define agree as far as both go.
LEMMA PowerNext ==
  ASSUME NEW n \in Nat
  PROVE  Pow2(n + 1) = 2 * Pow2(n)
<1>1. PICK g : /\ Pow2(n) = g[n] /\ g[0] = 1
               /\ \A k \in 1 .. n : g[k] = 2 * g[k - 1]
  BY PowerSteps
<1>2. PICK h : /\ Pow2(n + 1) = h[n + 1] /\ h[0] = 1
               /\ \A k \in 1 .. n + 1 : h[k] = 2 * h[k - 1]
  <2>1. n + 1 \in Nat
    OBVIOUS
  <2> QED
    BY <2>1, PowerSteps
<1> DEFINE T == {k \in 0 .. n : g[k] = h[k]}
<1>3. 0 \in Nat /\ 0 \in T /\ n \in 0 .. n
  BY <1>1, <1>2
<1>4. ASSUME NEW k \in 0 .. n - 1, k \in T PROVE k + 1 \in T
  <2>1. k + 1 \in 1 .. n /\ k + 1 \in 1 .. n + 1 /\ k + 1 \in 0 .. n /\ (k + 1) - 1 = k
    OBVIOUS
  <2>2. g[k + 1] = 2 * g[k] /\ h[k + 1] = 2 * h[k]
    BY <1>1, <1>2, <2>1
  <2> QED
    BY <1>4, <2>1, <2>2
<1>5. n \in T
  <2>1. 0 .. n \subseteq T
    <3> HIDE DEF T
    <3> QED
      BY <1>3, <1>4, Induction
  <2> QED
    BY <1>3, <2>1
<1>6. n + 1 \in 1 .. n + 1 /\ (n + 1) - 1 = n
  OBVIOUS
<1>7. h[n + 1] = 2 * h[n]
  BY <1>2, <1>6
<1> QED
  BY <1>1, <1>2, <1>5, <1>7

LEMMA PowerOfSum ==
  ASSUME NEW a \in Nat, NEW b \in Nat
  PROVE  Pow2(a + b) = Pow2(a) * Pow2(b)
<1> DEFINE T == {k \in 0 .. b : Pow2(a + k) = Pow2(a) * Pow2(k)}
<1>1. 0 \in Nat /\ b \in 0 .. b
  OBVIOUS
<1>2. 0 \in T
  <2>1. a + 0 = a /\ Pow2(a) \in Nat
    BY PowerType
  <2> QED
    BY <2>1, PowerZero
<1>3. ASSUME NEW k \in 0 .. b - 1, k \in T PROVE k + 1 \in T
  <2> DEFINE x == Pow2(a)
             y == Pow2(k)
             z == Pow2(a + k)
  <2>1. k \in Nat /\ a + k \in Nat /\ k + 1 \in 0 .. b /\ a + (k + 1) = (a + k) + 1
    OBVIOUS
  <2>2. x \in Nat /\ y \in Nat /\ z \in Nat
    BY <2>1, PowerType
  <2>3. Pow2((a + k) + 1) = 2 * z /\ Pow2(k + 1) = 2 * y /\ z = x * y
    BY <1>3, <2>1, PowerNext
  <2> HIDE DEF x, y, z
  <2>4. 2 * (x * y) = x * (2 * y)
    BY <2>2
  <2>5. Pow2(a + (k + 1)) = x * Pow2(k + 1)
    BY <2>1, <2>3, <2>4
  <2> QED
    BY <2>1, <2>5 DEF x
<1>4. 0 .. b \subseteq T
  <2> HIDE DEF T
  <2> QED
    BY <1>1, <1>2, <1>3, Induction
<1> QED
  BY <1>1, <1>4

-----------------------------------------------------------------------------
(* The simulation.                                                           *)

\* Division rounds down.
LEMMA Quotient ==
  ASSUME NEW a \in Nat, NEW b \in Nat \ {0}
  PROVE  a \div b \in Nat /\ b * (a \div b) <= a
OBVIOUS

LEMMA Scaled ==
  ASSUME NEW a \in Nat, NEW b \in Nat, NEW c \in Nat, a <= b
  PROVE  a * c <= b * c /\ a * c \in Nat /\ b * c \in Nat
OBVIOUS

LEMMA Cancelled ==
  ASSUME NEW a \in Nat, NEW b \in Nat, NEW c \in Nat \ {0}, a * c <= b * c
  PROVE  a <= b
<1> SUFFICES ASSUME b + 1 <= a PROVE FALSE
  OBVIOUS
<1>1. (b + 1) * c <= a * c
  BY Scaled
<1>2. (b + 1) * c = b * c + c /\ b * c \in Nat /\ a * c \in Nat
  BY Scaled
<1> QED
  BY <1>1, <1>2

Fees == 10 .. 30

\* A hop multiplies by the rate and takes its fee, or less: the rounding is to its cost.
LEMMA HopOnlyCosts ==
  ASSUME NEW x \in Nat, NEW fee \in Fees, NEW w \in Int
  PROVE  LET y == SimulateAmmSwap(x, fee, w)
         IN /\ y \in Nat
            /\ w <= 0 => y <= x * Pow2(-w)
            /\ w > 0 => y * Pow2(w) <= x
<1> DEFINE y == SimulateAmmSwap(x, fee, w)
           kept == 10000 - fee
<1>1. kept \in Nat /\ kept <= 10000
  BY DEF Fees
<1>2. CASE w <= 0
  <2> DEFINE z == x * Pow2(-w)
             n == (x * kept) * Pow2(-w)
  <2>1. -w \in Nat
    BY <1>2
  <2>2. Pow2(-w) \in Nat
    BY <2>1, PowerType
  <2>3. y = n \div 10000
    BY <1>2 DEF SimulateAmmSwap
  <2> DEFINE e == Pow2(-w)
  <2>4. e \in Nat /\ z = x * e /\ n = (x * kept) * e
    BY <2>2
  <2> HIDE DEF y, z, n, e, kept
  <2>5. n = kept * z /\ z \in Nat
    BY <1>1, <2>4
  <2>6. n <= 10000 * z /\ n \in Nat
    BY <1>1, <2>5, Scaled
  <2>7. y \in Nat /\ 10000 * y <= n
    BY <2>3, <2>6, Quotient
  <2>8. y <= z
    BY <2>5, <2>6, <2>7
  <2> QED
    BY <1>2, <2>7, <2>8 DEF y, z
<1>3. CASE w > 0
  <2> DEFINE e == Pow2(w)
  <2>1. w \in Nat
    BY <1>3
  <2>2. e \in Nat \ {0}
    BY <2>1, PowerType
  <2>3. y = (x * kept) \div (10000 * e)
    BY <1>3 DEF SimulateAmmSwap
  <2> HIDE DEF y, e, kept
  <2>4. x * kept \in Nat /\ x * kept <= 10000 * x
    BY <1>1, Scaled
  <2>5. 10000 * e \in Nat \ {0}
    BY <2>2
  <2>6. y \in Nat /\ (10000 * e) * y <= x * kept
    BY <2>3, <2>4, <2>5, Quotient
  <2>7. (10000 * e) * y = 10000 * (y * e) /\ y * e \in Nat
    BY <2>2, <2>6
  <2>8. y * e <= x
    BY <2>4, <2>6, <2>7
  <2> QED
    BY <1>3, <2>6, <2>8 DEF y, e
<1> QED
  BY <1>2, <1>3

\* Hops with a fee and a whole logarithm.
Hopping(hops) ==
  /\ Len(hops) \in Nat
  /\ \A k \in 1 .. Len(hops) : hops[k].fee_bps \in Fees /\ hops[k].log_weight \in Int

LEMMA RunningSteps ==
  ASSUME NEW initial \in Nat, NEW hops, Hopping(hops)
  PROVE  LET run == Running(initial, hops)
         IN /\ run[0] = initial
            /\ \A k \in 0 .. Len(hops) : run[k] \in Nat
            /\ \A k \in 1 .. Len(hops) :
                 run[k] = SimulateAmmSwap(run[k - 1], hops[k].fee_bps, hops[k].log_weight)
<1> DEFINE N == Len(hops)
           next(k, x) == SimulateAmmSwap(x, IF hops[k].fee_bps = 0 THEN 30 ELSE hops[k].fee_bps,
                                         hops[k].log_weight)
           P(g) == g = [k \in 0 .. N |-> IF k = 0 THEN initial ELSE next(k, g[k - 1])]
           G == CHOOSE g : P(g)
           I == [k \in 0 .. N |-> Nat]
           step == [k \in 0 .. N |-> [x \in Nat |-> next(k, x)]]
<1>1. N \in Nat /\ 0 \in Nat /\ 0 \in 0 .. N
      /\ \A k \in 0 .. N : k # 0 => k - 1 \in 0 .. N
  BY DEF Hopping
<1>2. ASSUME NEW k \in 0 .. N, k # 0, NEW x \in Nat
      PROVE  /\ next(k, x) = SimulateAmmSwap(x, hops[k].fee_bps, hops[k].log_weight)
             /\ next(k, x) \in Nat
  <2>1. k \in 1 .. Len(hops)
    BY <1>2
  <2>2. hops[k].fee_bps \in Fees /\ hops[k].log_weight \in Int
    BY <2>1 DEF Hopping
  <2>3. hops[k].fee_bps # 0
    <3>1. \A f \in Fees : f # 0
      BY DEF Fees
    <3> QED
      BY <2>2, <3>1
  <2>4. next(k, x) = SimulateAmmSwap(x, hops[k].fee_bps, hops[k].log_weight)
    BY <2>3
  <2> HIDE DEF next
  <2> QED
    BY <2>2, <2>4, HopOnlyCosts
<1>3. Running(initial, hops) = G
  BY DEF Running
<1> HIDE DEF next, N
<1>4. PICK f : Computes(f, 0, N, initial, step) /\ \A k \in 0 .. N : f[k] \in I[k]
  <2>1. StepsStay(0, N, I, initial, step)
    BY <1>1, <1>2 DEF StepsStay
  <2> HIDE DEF I, step
  <2> QED
    BY <1>1, <2>1, RecursionExists
<1>5. P(f)
  <2>1. ASSUME NEW k \in 0 .. N PROVE f[k] = IF k = 0 THEN initial ELSE next(k, f[k - 1])
    BY <1>1, <1>4 DEF Computes
  <2> QED
    BY <1>4, <2>1 DEF Computes
<1> HIDE DEF P
<1>6. P(G)
  BY <1>5
<1> HIDE DEF G
<1>7. \A k \in 0 .. N : G[k] \in Nat
  <2>1. Stays(0, N, I, G)
    BY <1>1, <1>2, <1>6 DEF P, Stays
  <2>2. \A k \in 0 .. N : G[k] \in I[k]
    <3> HIDE DEF I
    <3> QED
      BY <1>1, <2>1, RecursionStays
  <2> QED
    BY <2>2
<1>8. G[0] = initial
  BY <1>1, <1>6 DEF P
<1>9. ASSUME NEW k \in 1 .. N
      PROVE  G[k] = SimulateAmmSwap(G[k - 1], hops[k].fee_bps, hops[k].log_weight)
  <2>1. k \in 0 .. N /\ k # 0 /\ k - 1 \in 0 .. N
    BY <1>1
  <2>2. G[k] = next(k, G[k - 1])
    BY <1>6, <2>1 DEF P
  <2> QED
    BY <1>2, <1>7, <2>1, <2>2
<1> QED
  BY <1>3, <1>7, <1>8, <1>9 DEF N

\* y is at most x times 2^(-s), without a fraction.
AtMost(y, x, s) ==
  \E a, b \in Nat : b - a = s /\ y * Pow2(b) <= x * Pow2(a)

LEMMA HopKeepsBound ==
  ASSUME NEW x \in Nat, NEW y \in Nat, NEW s \in Int, AtMost(y, x, s),
         NEW z \in Nat, NEW w \in Int,
         w <= 0 => z <= y * Pow2(-w),
         w > 0 => z * Pow2(w) <= y
  PROVE  AtMost(z, x, s + w)
<1>1. PICK a \in Nat, b \in Nat : b - a = s /\ y * Pow2(b) <= x * Pow2(a)
  BY DEF AtMost
<1> DEFINE A == Pow2(a)
           B == Pow2(b)
<1>2. A \in Nat /\ B \in Nat /\ y * B <= x * A
  BY <1>1, PowerType
<1>3. CASE w <= 0
  <2> DEFINE e == Pow2(-w)
  <2>1. -w \in Nat /\ a + (-w) \in Nat /\ b - (a + (-w)) = s + w
    BY <1>1, <1>3
  <2>2. e \in Nat /\ Pow2(a + (-w)) = A * e /\ z <= y * e
    BY <1>3, <2>1, PowerType, PowerOfSum
  <2> HIDE DEF A, B, e
  <2>3. y * e \in Nat /\ y * B \in Nat /\ x * A \in Nat
    BY <1>2, <2>2, Product
  <2>4. z * B <= (y * e) * B
    BY <1>2, <2>2, <2>3, Scaled
  <2>5. (y * B) * e <= (x * A) * e
    BY <1>2, <2>2, <2>3, Scaled
  <2>6. (y * e) * B = (y * B) * e /\ (x * A) * e = x * (A * e)
    BY <1>2, <2>2
  <2>7. z * B \in Nat /\ (y * B) * e \in Nat /\ x * (A * e) \in Nat
    BY <1>2, <2>2, <2>3, <2>6, Product
  <2>8. z * B <= x * (A * e)
    BY <2>4, <2>5, <2>6, <2>7
  <2>9. z * Pow2(b) <= x * Pow2(a + (-w))
    BY <2>2, <2>8 DEF B
  <2> QED
    BY <2>1, <2>9 DEF AtMost
<1>4. CASE w > 0
  <2> DEFINE e == Pow2(w)
  <2>1. w \in Nat /\ b + w \in Nat /\ (b + w) - a = s + w
    BY <1>1, <1>4
  <2>2. e \in Nat /\ Pow2(b + w) = B * e /\ z * e <= y
    BY <1>4, <2>1, PowerType, PowerOfSum
  <2> HIDE DEF A, B, e
  <2>3. z * e \in Nat
    BY <2>2, Product
  <2>4. (z * e) * B <= y * B
    BY <1>2, <2>2, <2>3, Scaled
  <2>5. (z * e) * B = z * (B * e)
    BY <1>2, <2>2
  <2>6. z * (B * e) \in Nat /\ y * B \in Nat /\ x * A \in Nat
    BY <1>2, <2>2, Product
  <2>7. z * (B * e) <= x * A
    BY <1>2, <2>4, <2>5, <2>6
  <2>8. z * Pow2(b + w) <= x * Pow2(a)
    BY <2>2, <2>7 DEF A
  <2> QED
    BY <2>1, <2>8 DEF AtMost
<1> QED
  BY <1>3, <1>4

LEMMA BoundAsRate ==
  ASSUME NEW x \in Nat, NEW y \in Nat, NEW s \in Int, AtMost(y, x, s)
  PROVE  /\ s < 0 => y <= x * Pow2(-s)
         /\ s >= 0 => y <= x
<1>1. PICK a \in Nat, b \in Nat : b - a = s /\ y * Pow2(b) <= x * Pow2(a)
  BY DEF AtMost
<1> DEFINE A == Pow2(a)
           B == Pow2(b)
<1>2. A \in Nat \ {0} /\ B \in Nat \ {0} /\ y * B <= x * A
  BY <1>1, PowerType
<1>3. CASE s < 0
  <2> DEFINE e == Pow2(-s)
  <2>1. -s \in Nat /\ a = b + (-s)
    BY <1>1, <1>3
  <2>2. e \in Nat /\ A = B * e
    BY <2>1, PowerType, PowerOfSum
  <2> HIDE DEF A, B, e
  <2>3. x * A = (x * e) * B /\ x * e \in Nat
    BY <1>2, <2>2, Product
  <2>4. y <= x * e
    BY <1>2, <2>3, Cancelled
  <2> QED
    BY <1>3, <2>4 DEF e
<1>4. CASE s >= 0
  <2> DEFINE e == Pow2(s)
  <2>1. s \in Nat /\ b = a + s
    BY <1>1, <1>4
  <2>2. e \in Nat \ {0} /\ B = A * e
    BY <2>1, PowerType, PowerOfSum
  <2> HIDE DEF A, B, e
  <2>3. y * B = (y * e) * A /\ y * e \in Nat /\ y <= y * e
    <3>1. y * B = (y * e) * A /\ y * e \in Nat
      BY <1>2, <2>2, Product
    <3>2. 1 \in Nat /\ 1 <= e
      BY <2>2
    <3>3. 1 * y <= e * y
      BY <2>2, <3>2, Scaled
    <3>4. 1 * y = y /\ e * y = y * e
      BY <2>2
    <3> QED
      BY <3>1, <3>3, <3>4
  <2>4. y * e <= x
    BY <1>2, <2>3, Cancelled
  <2>5. y <= x
    BY <2>3, <2>4
  <2> QED
    BY <1>4, <2>5
<1> QED
  BY <1>3, <1>4

\* What comes out of the last hop is at most what the sum of logarithms says.
LEMMA RunningIsBounded ==
  ASSUME NEW initial \in Nat, NEW hops, Hopping(hops), NEW sum, sum[0] = 0,
         \A k \in 0 .. Len(hops) : sum[k] \in Int,
         \A k \in 1 .. Len(hops) : sum[k] = sum[k - 1] + hops[k].log_weight
  PROVE  LET out == Running(initial, hops)[Len(hops)]
             total == sum[Len(hops)]
         IN /\ out \in Nat
            /\ total < 0 => out <= initial * Pow2(-total)
            /\ total >= 0 => out <= initial
<1> DEFINE N == Len(hops)
           run == Running(initial, hops)
           T == {k \in 0 .. N : AtMost(run[k], initial, sum[k])}
<1>1. /\ run[0] = initial
      /\ \A k \in 0 .. N : run[k] \in Nat
      /\ \A k \in 1 .. N :
           run[k] = SimulateAmmSwap(run[k - 1], hops[k].fee_bps, hops[k].log_weight)
  BY RunningSteps
<1>2. N \in Nat /\ 0 \in Nat /\ 0 \in 0 .. N /\ N \in 0 .. N
  BY DEF Hopping
<1> HIDE DEF run
<1>3. 0 \in T
  <2>1. 0 - 0 = 0 /\ initial * Pow2(0) <= initial * Pow2(0)
    BY PowerZero
  <2> QED
    BY <1>1, <1>2, <2>1 DEF AtMost
<1>4. ASSUME NEW k \in 0 .. N - 1, k \in T PROVE k + 1 \in T
  <2>1. k + 1 \in 1 .. N /\ k + 1 \in 0 .. N /\ (k + 1) - 1 = k
    BY <1>2
  <2>2. hops[k + 1].fee_bps \in Fees /\ hops[k + 1].log_weight \in Int
    BY <2>1 DEF Hopping
  <2>3. run[k] \in Nat /\ run[k + 1] \in Nat /\ sum[k] \in Int
    BY <1>1, <1>4, <2>1
  <2> DEFINE w == hops[k + 1].log_weight
  <2>4. run[k + 1] = SimulateAmmSwap(run[k], hops[k + 1].fee_bps, w)
    BY <1>1, <2>1
  <2>5. (w <= 0 => run[k + 1] <= run[k] * Pow2(-w)) /\ (w > 0 => run[k + 1] * Pow2(w) <= run[k])
    BY <2>2, <2>3, <2>4, HopOnlyCosts
  <2>6. w \in Int /\ sum[k + 1] = sum[k] + w
    BY <2>1, <2>2
  <2> HIDE DEF w
  <2>7. AtMost(run[k + 1], initial, sum[k] + w)
    BY <1>4, <2>3, <2>5, <2>6, HopKeepsBound
  <2> QED
    BY <2>1, <2>6, <2>7
<1>5. N \in T
  <2>1. 0 .. N \subseteq T
    <3> HIDE DEF T, N
    <3> QED
      BY <1>2, <1>3, <1>4, Induction
  <2> QED
    BY <1>2, <2>1
<1>6. AtMost(run[N], initial, sum[N]) /\ run[N] \in Nat /\ sum[N] \in Int
  BY <1>1, <1>2, <1>5
<1> QED
  BY <1>6, BoundAsRate DEF run

-----------------------------------------------------------------------------
(* The path of a walk, the strategy's choice of it, and its simulation.      *)

\* An edge of the path is a hop of the walk.
LEMMA PathOfWalk ==
  ASSUME NEW m, NEW names, NEW q, NEW p, NEW hops, PricedWalk(m, names, q, p, hops)
  PROVE  LET path == ArbPath(m, p)
         IN /\ DOMAIN path.edges = 1 .. Hops(p) /\ Len(path.edges) = Hops(p)
            /\ \A i \in 1 .. Hops(p) :
                 /\ path.edges[i].from = p[i] /\ path.edges[i].to = p[i + 1]
                 /\ path.edges[i].log_weight = WeightAt(m, p, i)
            /\ path.expected_profit = ExpectedProfit(TotalLog(m, p))
<1> DEFINE edges == [i \in 1 .. Hops(p) |-> Edge(m, p, i)]
<1>1. ArbPath(m, p) = [edges |-> edges, expected_profit |-> ExpectedProfit(TotalLog(m, p))]
  BY DEF ArbPath
<1>2. Hops(p) \in Nat
  <2>1. hops \in Nat
    BY DEF PricedWalk
  <2> QED
    BY <2>1, HopsArePriced
<1>3. ASSUME NEW i \in 1 .. Hops(p)
      PROVE  /\ edges[i].from = p[i] /\ edges[i].to = p[i + 1]
             /\ edges[i].log_weight = WeightAt(m, p, i)
  <2>1. WeightAt(m, p, i) \in Int /\ Infinity \notin Int
    BY HopsArePriced DEF PricedWalk
  <2>2. edges[i] = Edge(m, p, i)
    OBVIOUS
  <2>3. /\ Edge(m, p, i).from = p[i] /\ Edge(m, p, i).to = p[i + 1]
        /\ Edge(m, p, i).log_weight
             = IF WeightAt(m, p, i) = Infinity THEN 0 ELSE WeightAt(m, p, i)
    BY DEF Edge, WeightAt
  <2> HIDE DEF edges
  <2> QED
    BY <2>1, <2>2, <2>3
<1>4. DOMAIN edges = 1 .. Hops(p) /\ Len(edges) = Hops(p)
  BY <1>2
<1> HIDE DEF edges
<1> QED
  BY <1>1, <1>3, <1>4

LEMMA TotalIsInteger ==
  ASSUME NEW m, NEW names, NEW q, NEW p, NEW hops, PricedWalk(m, names, q, p, hops)
  PROVE  TotalLog(m, p) \in Int
<1>1. hops \in Nat /\ Infinity \notin Int
  BY DEF PricedWalk
<1>2. Hops(p) \in Nat /\ \A i \in 1 .. Hops(p) : WeightAt(m, p, i) \in Int
  BY <1>1, HopsArePriced
<1>3. Hops(p) \in 0 .. Hops(p)
  BY <1>2
<1> QED
  BY <1>1, <1>2, <1>3, TotalEquation

LEMMA ProfitType ==
  ASSUME NEW total \in Int, REF_POSITION_LAMPORTS \in Nat, Infinity \notin Int
  PROVE  /\ ExpectedProfit(total) \in Nat
         /\ total < 0 =>
              ExpectedProfit(total)
                = (IF Pow2(-total) - 1 < 5 THEN Pow2(-total) - 1 ELSE 5) * REF_POSITION_LAMPORTS
         /\ total >= 0 => ExpectedProfit(total) = 0
<1>1. Less(total, 0) <=> total < 0
  BY DEF Less
<1>2. CASE total < 0
  <2> DEFINE e == Pow2(-total)
             rate == IF e - 1 < 5 THEN e - 1 ELSE 5
  <2>1. -total \in Nat
    BY <1>2
  <2>2. e \in Nat \ {0}
    BY <2>1, PowerType
  <2>3. ExpectedProfit(total) = rate * REF_POSITION_LAMPORTS
    BY <1>1, <1>2 DEF ExpectedProfit
  <2> HIDE DEF e
  <2>4. rate \in Nat
    BY <2>2
  <2> HIDE DEF rate
  <2>5. rate * REF_POSITION_LAMPORTS \in Nat
    BY <2>4, Product
  <2> QED
    BY <1>2, <2>3, <2>5 DEF rate, e
<1>3. CASE total >= 0
  <2>1. ExpectedProfit(total) = 0
    BY <1>1, <1>3 DEF ExpectedProfit
  <2> QED
    BY <1>3, <2>1
<1> QED
  BY <1>2, <1>3

Trades(m, names, hops) == {Trade(ArbPath(m, p)) : p \in Walks(Len(names), hops)}

\* The strategy approves walks, each as one trade.
LEMMA StrategyTrades ==
  ASSUME NEW m, NEW names, Weighted(m), m.n = Len(names), config.max_hops \in Nat,
         Infinity \notin Int
  PROVE  Strategy(m) \in Seq(Trades(m, names, config.max_hops))
<1> DEFINE W == {ArbPath(m, p) : p \in Walks(m.n, config.max_hops)}
           U == Trades(m, names, config.max_hops)
           found == DetectCycles(m, config.max_hops)
           f == [i \in 1 .. Len(found) |->
                   IF Approves(found[i]) THEN <<Trade(found[i])>> ELSE << >>]
<1>1. found \in Seq(W)
  BY CyclesAreWalks
<1>2. \A path \in W : Trade(path) \in U
  BY DEF Trades
<1>3. Strategy(m) = FlattenSeq(f)
  BY DEF Strategy
<1> HIDE DEF W, U, found
<1>4. Len(found) \in Nat
  BY <1>1
<1>5. ASSUME NEW i \in 1 .. Len(found) PROVE f[i] \in Seq(U)
  <2>1. Trade(found[i]) \in U
    BY <1>1, <1>2
  <2>2. CASE Approves(found[i])
    BY <2>1, <2>2
  <2>3. CASE ~Approves(found[i])
    BY <2>3
  <2> QED
    BY <2>2, <2>3
<1>6. f \in [1 .. Len(found) -> Seq(U)]
  BY <1>5
<1> HIDE DEF f
<1> QED
  BY <1>3, <1>4, <1>6, RowsJoined DEF U

\* Among finitely many profits there is a last greatest one.
LEMMA LastGreatest ==
  ASSUME NEW n \in Nat, n # 0, NEW profit, \A i \in 1 .. n : profit[i] \in Int
  PROVE  \E i \in 1 .. n : \A j \in 1 .. n : \/ profit[j] < profit[i]
                                             \/ profit[j] = profit[i] /\ j <= i
<1> DEFINE Top(k, i) == \A j \in 1 .. k : \/ profit[j] < profit[i]
                                          \/ profit[j] = profit[i] /\ j <= i
           T == {k \in 1 .. n : \E i \in 1 .. k : Top(k, i)}
<1>1. 1 \in Nat /\ 1 \in 1 .. n /\ n \in 1 .. n
  OBVIOUS
<1>2. 1 \in T
  <2>1. 1 \in 1 .. 1 /\ Top(1, 1)
    OBVIOUS
  <2> HIDE DEF Top
  <2> QED
    BY <1>1, <2>1
<1>3. ASSUME NEW k \in 1 .. n - 1, k \in T PROVE k + 1 \in T
  <2>1. k + 1 \in 1 .. n /\ k + 1 \in 1 .. k + 1
        /\ \A j \in 1 .. k + 1 : j \in 1 .. n /\ (j \in 1 .. k \/ j = k + 1)
    OBVIOUS
  <2>2. PICK i \in 1 .. k : Top(k, i)
    BY <1>3
  <2>3. profit[i] \in Int /\ profit[k + 1] \in Int /\ i \in 1 .. k + 1
    BY <2>1
  <2>4. CASE profit[i] <= profit[k + 1]
    <3>1. Top(k + 1, k + 1)
      BY <2>1, <2>2, <2>3, <2>4
    <3> HIDE DEF Top
    <3> QED
      BY <2>1, <3>1
  <2>5. CASE profit[k + 1] < profit[i]
    <3>1. Top(k + 1, i)
      BY <2>1, <2>2, <2>5
    <3> HIDE DEF Top
    <3> QED
      BY <2>1, <2>3, <3>1
  <2> QED
    BY <2>3, <2>4, <2>5
<1>4. n \in T
  <2>1. 1 .. n \subseteq T
    <3> HIDE DEF T
    <3> QED
      BY <1>1, <1>2, <1>3, Induction
  <2> QED
    BY <1>1, <2>1
<1> QED
  BY <1>4

LEMMA BestIsOne ==
  ASSUME NEW S, NEW trades \in Seq(S), trades # << >>,
         \A t \in S : t.path.expected_profit \in Int
  PROVE  Best(trades) \in S
<1> DEFINE N == Len(trades)
           profit == [i \in 1 .. N |-> trades[i].path.expected_profit]
           best == CHOOSE i \in DOMAIN trades :
                     \A j \in DOMAIN trades :
                       \/ trades[j].path.expected_profit < trades[i].path.expected_profit
                       \/ /\ trades[j].path.expected_profit = trades[i].path.expected_profit
                          /\ j <= i
<1>1. N \in Nat /\ N # 0 /\ DOMAIN trades = 1 .. N
  OBVIOUS
<1>2. \A i \in 1 .. N : profit[i] \in Int /\ profit[i] = trades[i].path.expected_profit
  BY <1>1
<1> HIDE DEF profit, N
<1>3. \E i \in 1 .. N : \A j \in 1 .. N : \/ profit[j] < profit[i]
                                          \/ profit[j] = profit[i] /\ j <= i
  BY <1>1, <1>2, LastGreatest
<1>4. best \in DOMAIN trades
  <2>1. \E i \in DOMAIN trades :
          \A j \in DOMAIN trades :
            \/ trades[j].path.expected_profit < trades[i].path.expected_profit
            \/ /\ trades[j].path.expected_profit = trades[i].path.expected_profit
               /\ j <= i
    <3>1. PICK i \in 1 .. N : \A j \in 1 .. N : \/ profit[j] < profit[i]
                                                \/ profit[j] = profit[i] /\ j <= i
      BY <1>3
    <3>2. ASSUME NEW j \in DOMAIN trades
          PROVE  \/ trades[j].path.expected_profit < trades[i].path.expected_profit
                 \/ /\ trades[j].path.expected_profit = trades[i].path.expected_profit
                    /\ j <= i
      <4>1. j \in 1 .. N
        BY <1>1
      <4>2. profit[j] < profit[i] \/ (profit[j] = profit[i] /\ j <= i)
        BY <3>1, <4>1
      <4>3. /\ profit[i] = trades[i].path.expected_profit
            /\ profit[j] = trades[j].path.expected_profit
        BY <1>2, <4>1
      <4> QED
        BY <4>2, <4>3
    <3>3. i \in DOMAIN trades
      BY <1>1
    <3> QED
      BY <3>2, <3>3
  <2> QED
    BY <2>1
<1>5. Best(trades) = trades[best]
  BY DEF Best
<1> HIDE DEF best
<1> QED
  BY <1>1, <1>4, <1>5 DEF N

\* The simulation is given the hops of the walk.
LEMMA HopsOfTrade ==
  ASSUME NEW m, NEW names, NEW q, NEW p, NEW hops, PricedWalk(m, names, q, p, hops)
  PROVE  LET sh == SimHops(Trade(ArbPath(m, p)))
         IN /\ Hopping(sh) /\ Len(sh) = Hops(p)
            /\ \A i \in 1 .. Hops(p) : sh[i].log_weight = WeightAt(m, p, i)
<1> DEFINE path == ArbPath(m, p)
           t == Trade(path)
           sh == SimHops(t)
<1>1. Hops(p) \in Nat
  <2>1. hops \in Nat
    BY DEF PricedWalk
  <2> QED
    BY <2>1, HopsArePriced
<1>2. /\ Len(path.edges) = Hops(p)
      /\ \A i \in 1 .. Hops(p) : path.edges[i].log_weight = WeightAt(m, p, i)
  BY PathOfWalk
<1> HIDE DEF path
<1>3. t.path = path /\ t.instructions = Instructions(path)
  BY DEF Trade
<1> HIDE DEF t
<1>4. Len(t.instructions) = Hops(p)
  BY <1>1, <1>2, <1>3 DEF Instructions
<1>5. sh = [i \in 1 .. Hops(p) |->
              [min_out |-> t.instructions[i].min_out,
               fee_bps |-> DexFeeBps(t.path.edges[i].dex),
               log_weight |-> t.path.edges[i].log_weight]]
  BY <1>4 DEF SimHops
<1> HIDE DEF sh
<1>6. Len(sh) = Hops(p)
  BY <1>1, <1>5
<1>7. ASSUME NEW i \in 1 .. Hops(p)
      PROVE  /\ sh[i].fee_bps = DexFeeBps(t.path.edges[i].dex)
             /\ sh[i].log_weight = WeightAt(m, p, i)
  BY <1>2, <1>3, <1>5
<1>8. ASSUME NEW dex PROVE DexFeeBps(dex) \in Fees
  BY DEF DexFeeBps, Fees
<1>9. \A i \in 1 .. Hops(p) : WeightAt(m, p, i) \in Int
  BY HopsArePriced
<1>10. Hopping(sh)
  <2>1. \A i \in 1 .. Hops(p) : sh[i].fee_bps \in Fees /\ sh[i].log_weight \in Int
    BY <1>7, <1>8, <1>9
  <2> QED
    BY <1>1, <1>6, <2>1 DEF Hopping
<1> QED
  BY <1>6, <1>7, <1>10 DEF sh, t, path

\* What the simulation finds is covered by what the sum of logarithms promised.
LEMMA SimulatedWithinPromise ==
  ASSUME NEW m, NEW names, NEW q, NEW p, NEW hops, PricedWalk(m, names, q, p, hops),
         NEW min,
         {REF_POSITION_LAMPORTS, LIQUIDITY} \subseteq Nat,
         Position <= REF_POSITION_LAMPORTS,
         ArbPath(m, p).expected_profit < 5 * REF_POSITION_LAMPORTS
  PROVE  SimulateSwap(Trade(ArbPath(m, p)).position, SimHops(Trade(ArbPath(m, p))), min).profit
           <= ArbPath(m, p).expected_profit
<1> DEFINE t == Trade(ArbPath(m, p))
           sh == SimHops(t)
           out == Running(Position, sh)[Len(sh)]
           total == TotalLog(m, p)
           R == REF_POSITION_LAMPORTS
           L == Position
           promised == ArbPath(m, p).expected_profit
           run == ExecuteSimulated(L, min, sh)
           found == SimulateSwap(L, sh, min).profit
<1>1. t.position = L
  BY DEF Trade
<1>2. R \in Nat /\ L \in Nat
  <2>1. LIQUIDITY \in Nat /\ 10 \in Nat \ {0}
    OBVIOUS
  <2> QED
    BY <2>1, Quotient DEF Position
<1>3. total \in Int /\ promised = ExpectedProfit(total)
  BY TotalIsInteger, PathOfWalk
<1>4. /\ out \in Nat
      /\ total < 0 => out <= L * Pow2(-total)
      /\ total >= 0 => out <= L
  <2>1. /\ Hopping(sh) /\ Len(sh) = Hops(p)
        /\ \A i \in 1 .. Hops(p) : sh[i].log_weight = WeightAt(m, p, i)
    BY HopsOfTrade
  <2>2. Hops(p) \in Nat /\ Infinity \notin Int
        /\ \A i \in 1 .. Hops(p) : WeightAt(m, p, i) \in Int
    BY <2>1, HopsArePriced DEF PricedWalk, Hopping
  <2>3. PICK sum : /\ total = sum[Hops(p)] /\ sum[0] = 0
                   /\ \A k \in 0 .. Hops(p) : sum[k] \in Int
                   /\ \A k \in 1 .. Hops(p) : sum[k] = sum[k - 1] + WeightAt(m, p, k)
    BY <2>2, TotalEquation
  <2>4. \A k \in 1 .. Len(sh) : sum[k] = sum[k - 1] + sh[k].log_weight
    BY <2>1, <2>3
  <2> HIDE DEF sh, total, L
  <2>5. LET o == Running(L, sh)[Len(sh)]
            s == sum[Len(sh)]
        IN /\ o \in Nat
           /\ s < 0 => o <= L * Pow2(-s)
           /\ s >= 0 => o <= L
    BY <1>2, <2>1, <2>3, <2>4, RunningIsBounded
  <2> QED
    BY <2>1, <2>3, <2>5 DEF L
<1>5. run.final = 0 \/ run.final = out
  BY DEF ExecuteSimulated
<1>6. found = IF run.final > L THEN run.final - L ELSE 0
  BY DEF SimulateSwap
<1>7. SimulateSwap(t.position, sh, min).profit = found
  BY <1>1
<1> HIDE DEF t, sh, out, run, found, L, R, promised, total
<1>8. found = 0 \/ (found = out - L /\ out > L)
  <2>1. CASE run.final = 0
    <3>1. ~(run.final > L)
      BY <1>2, <2>1
    <3> QED
      BY <1>6, <3>1
  <2>2. CASE run.final = out
    BY <1>6, <2>2
  <2> QED
    BY <1>5, <2>1, <2>2
<1>9. promised \in Nat
  BY <1>2, <1>3, ProfitType DEF R, PricedWalk
<1>10. ASSUME out > L PROVE out - L <= promised
  <2>1. total < 0 /\ -total \in Nat
    BY <1>2, <1>3, <1>4, <1>10
  <2> DEFINE e == Pow2(-total)
  <2>2. e \in Nat \ {0} /\ out <= L * e
    BY <1>4, <2>1, PowerType
  <2>3. promised = (IF e - 1 < 5 THEN e - 1 ELSE 5) * R
    BY <1>2, <1>3, <2>1, ProfitType DEF R, PricedWalk
  <2> HIDE DEF e
  <2>4. promised < 5 * R /\ L <= R
    BY DEF promised, R, L
  <2>5. promised = (e - 1) * R
    BY <1>2, <2>2, <2>3, <2>4
  <2>6. e - 1 \in Nat
    BY <2>2
  <2>7. L * (e - 1) <= R * (e - 1) /\ L * (e - 1) \in Nat /\ R * (e - 1) \in Nat
    BY <1>2, <2>4, <2>6, Scaled
  <2>8. L * (e - 1) = L * e - L /\ R * (e - 1) = (e - 1) * R /\ L * e \in Nat
    BY <1>2, <2>2
  <2> QED
    BY <1>2, <1>4, <2>2, <2>5, <2>7, <2>8
<1> QED
  BY <1>7, <1>8, <1>9, <1>10 DEF t, sh, promised

-----------------------------------------------------------------------------
(* What a cycle holds of its batch, until it drops it.                       *)

Numbered == tokens \in Seq(ToSet(TOKENS)) /\ Distinct(tokens)

BatchIsOfPrices ==
  stage = "batch" =>
    quote \in Quotes /\ batch = BuildEdges(quote) /\ tokens \in Seq(DOMAIN quote)

MatrixIsOfPrices ==
  stage \in {"matrix", "approved", "selected", "order"} =>
    quote \in Quotes /\ tokens \in Seq(DOMAIN quote) /\ Prices(matrix, tokens, quote)

ApprovedAreWalks ==
  stage = "approved" => approved \in Seq(Trades(matrix, tokens, config.max_hops))

TradeIsWalk ==
  stage \in {"selected", "order"} => trade \in Trades(matrix, tokens, config.max_hops)

SimulatedIsTrade ==
  stage = "order" => sim = SimulateSwap(trade.position, SimHops(trade), active)

IInv ==
  /\ config \in Configs
  /\ Numbered
  /\ BatchIsOfPrices
  /\ MatrixIsOfPrices
  /\ ApprovedAreWalks
  /\ TradeIsWalk
  /\ SimulatedIsTrade

LEMMA QuoteFacts ==
  ASSUME NEW q \in Quotes
  PROVE  /\ TOKENS \in Seq(ToSet(TOKENS)) /\ DOMAIN q \subseteq ToSet(TOKENS)
         /\ \A t \in DOMAIN q : q[t] \in Int
BY RoutesAssumption DEF RoutesAssumption

LEMMA HopsFacts ==
  ASSUME config \in Configs
  PROVE  config.max_hops \in Nat
<1>1. config.max_hops \in 2 .. 6
  BY RoutesAssumption DEF RoutesAssumption
<1> QED
  BY <1>1

LEMMA BoundFacts ==
  /\ Infinity \notin Int /\ MAX_LOG_WEIGHT \in Nat
  /\ {REF_POSITION_LAMPORTS, LIQUIDITY} \subseteq Nat /\ Position <= REF_POSITION_LAMPORTS
BY RoutesAssumption DEF RoutesAssumption, Position

\* The walk behind a trade of this cycle, with all that is known of it.
LEMMA WalkOfTrade ==
  ASSUME NEW t \in Trades(matrix, tokens, config.max_hops), IInv,
         stage \in {"matrix", "approved", "selected", "order"}
  PROVE  \E p : /\ t = Trade(ArbPath(matrix, p))
                /\ PricedWalk(matrix, tokens, quote, p, config.max_hops)
<1>1. PICK p \in Walks(Len(tokens), config.max_hops) : t = Trade(ArbPath(matrix, p))
  BY DEF Trades
<1>2. quote \in Quotes /\ tokens \in Seq(DOMAIN quote) /\ Prices(matrix, tokens, quote)
  BY DEF IInv, MatrixIsOfPrices
<1>3. \A s \in DOMAIN quote : quote[s] \in Int
  BY <1>2, QuoteFacts
<1>4. config.max_hops \in Nat
  BY HopsFacts DEF IInv
<1>5. PricedWalk(matrix, tokens, quote, p, config.max_hops)
  BY <1>1, <1>2, <1>3, <1>4, BoundFacts DEF PricedWalk
<1> QED
  BY <1>1, <1>5

LEMMA PricesAreWeights ==
  ASSUME NEW q \in Quotes, NEW names \in Seq(DOMAIN q), NEW m, Prices(m, names, q)
  PROVE  Weighted(m) /\ m.n = Len(names)
<1>1. \A t \in DOMAIN q : q[t] \in Int
  BY QuoteFacts
<1>2. m.n = Len(names) /\ m.n \in Nat
  BY DEF Prices
<1>3. ASSUME NEW i \in Vertices(m.n), NEW j \in Vertices(m.n), i # j
      PROVE  m.weight[i][j] \in Int
  <2>1. m.weight[i][j] = LogWeight(q, names[i + 1], names[j + 1])
    BY <1>2, <1>3 DEF Prices
  <2>2. i + 1 \in 1 .. Len(names) /\ j + 1 \in 1 .. Len(names)
    BY <1>2 DEF Vertices
  <2>3. q[names[i + 1]] \in Int /\ q[names[j + 1]] \in Int
    BY <1>1, <2>2
  <2>4. MAX_LOG_WEIGHT \in Nat
    BY BoundFacts
  <2> QED
    BY <2>1, <2>3, <2>4 DEF LogWeight, Clamp
<1> QED
  BY <1>2, <1>3 DEF Weighted

LEMMA InitIInv == Init => IInv
<1> SUFFICES ASSUME Init PROVE IInv
  OBVIOUS
<1>1. Numbered
  BY DEF Init, Numbered, Distinct
<1> QED
  BY <1>1 DEF Init, IInv, BatchIsOfPrices, MatrixIsOfPrices, ApprovedAreWalks, TradeIsWalk,
              SimulatedIsTrade

\* Back at the top nothing but the numbering of the tokens is left.
LEMMA TopKeeps ==
  ASSUME IInv, stage' \in {"top", "rejected"}, UNCHANGED <<config, tokens>>
  PROVE  IInv'
<1>1. stage' \notin {"batch", "matrix", "approved", "selected", "order"}
  OBVIOUS
<1> QED
  BY <1>1 DEF IInv, Numbered, BatchIsOfPrices, MatrixIsOfPrices, ApprovedAreWalks, TradeIsWalk,
              SimulatedIsTrade

LEMMA BuildMatrixKeeps ==
  ASSUME IInv, BuildMatrix
  PROVE  IInv'
<1>1. /\ quote \in Quotes /\ batch = BuildEdges(quote) /\ tokens \in Seq(DOMAIN quote)
      /\ Distinct(tokens) /\ config \in Configs
  BY DEF IInv, BuildMatrix, BatchIsOfPrices, Numbered
<1>2. /\ stage' = "matrix" /\ tokens' = RegisterAll(tokens, batch)
      /\ matrix' = PriceMatrix(tokens', batch)
      /\ quote' = quote /\ config' = config
  BY DEF BuildMatrix
<1>3. TOKENS \in Seq(ToSet(TOKENS)) /\ DOMAIN quote \subseteq ToSet(TOKENS)
  BY <1>1, QuoteFacts
<1>4. /\ Len(batch) \in Nat
      /\ \A k \in 1 .. Len(batch) : batch[k].from \in DOMAIN quote /\ batch[k].to \in DOMAIN quote
  BY <1>1, <1>3, EdgesOfBatch
<1>5. tokens' \in Seq(DOMAIN quote) /\ Distinct(tokens')
  BY <1>1, <1>2, <1>4, RegisterAllType
<1>6. Prices(matrix', tokens', quote)
  BY <1>1, <1>2, <1>3, <1>5, MatrixPrices
<1>7. tokens' \in Seq(ToSet(TOKENS))
  BY <1>3, <1>5
<1>8. Numbered'
  BY <1>5, <1>7 DEF Numbered, Distinct
<1>9. MatrixIsOfPrices'
  BY <1>1, <1>2, <1>5, <1>6 DEF MatrixIsOfPrices, Prices
<1> QED
  BY <1>1, <1>2, <1>8, <1>9 DEF IInv, BatchIsOfPrices, ApprovedAreWalks, TradeIsWalk,
                                SimulatedIsTrade

LEMMA EvaluateKeeps ==
  ASSUME IInv, Evaluate
  PROVE  IInv'
<1>1. /\ quote \in Quotes /\ tokens \in Seq(DOMAIN quote) /\ Prices(matrix, tokens, quote)
      /\ config \in Configs
  BY DEF IInv, Evaluate, MatrixIsOfPrices
<1>2. approved' = Strategy(matrix) /\ stage' = "approved"
      /\ UNCHANGED <<config, tokens, quote, matrix>>
  BY DEF Evaluate
<1>3. Weighted(matrix) /\ matrix.n = Len(tokens)
  BY <1>1, PricesAreWeights
<1>4. config.max_hops \in Nat /\ Infinity \notin Int
  BY <1>1, HopsFacts, BoundFacts
<1>5. Strategy(matrix) \in Seq(Trades(matrix, tokens, config.max_hops))
  BY <1>3, <1>4, StrategyTrades
<1>6. ApprovedAreWalks'
  BY <1>2, <1>5 DEF ApprovedAreWalks
<1>7. Numbered' /\ MatrixIsOfPrices'
  BY <1>1, <1>2 DEF IInv, Numbered, MatrixIsOfPrices
<1> QED
  BY <1>1, <1>2, <1>6, <1>7 DEF IInv, BatchIsOfPrices, TradeIsWalk, SimulatedIsTrade

LEMMA SelectKeeps ==
  ASSUME IInv, Select
  PROVE  IInv'
<1> DEFINE S == Trades(matrix, tokens, config.max_hops)
<1>1. approved \in Seq(S) /\ approved # << >> /\ stage = "approved"
  BY DEF IInv, Select, ApprovedAreWalks
<1>2. trade' = Best(approved) /\ stage' = "selected"
      /\ UNCHANGED <<config, tokens, quote, matrix>>
  BY DEF Select
<1>3. ASSUME NEW t \in S PROVE t.path.expected_profit \in Int
  <2>1. stage \in {"matrix", "approved", "selected", "order"}
    BY <1>1
  <2>2. PICK p : /\ t = Trade(ArbPath(matrix, p))
                 /\ PricedWalk(matrix, tokens, quote, p, config.max_hops)
    BY <2>1, WalkOfTrade
  <2>3. t.path = ArbPath(matrix, p)
    BY <2>2 DEF Trade
  <2>4. ArbPath(matrix, p).expected_profit = ExpectedProfit(TotalLog(matrix, p))
        /\ TotalLog(matrix, p) \in Int
    BY <2>2, PathOfWalk, TotalIsInteger
  <2>5. ExpectedProfit(TotalLog(matrix, p)) \in Nat
    BY <2>4, BoundFacts, ProfitType
  <2> QED
    BY <2>3, <2>4, <2>5
<1> HIDE DEF S
<1>4. trade' \in S
  BY <1>1, <1>2, <1>3, BestIsOne
<1>5. TradeIsWalk'
  BY <1>2, <1>4 DEF TradeIsWalk, S
<1>6. config' \in Configs /\ Numbered' /\ MatrixIsOfPrices'
  BY <1>1, <1>2 DEF IInv, Numbered, MatrixIsOfPrices
<1> QED
  BY <1>2, <1>5, <1>6 DEF IInv, BatchIsOfPrices, ApprovedAreWalks, SimulatedIsTrade

LEMMA SimulateKeeps ==
  ASSUME IInv, Simulate
  PROVE  IInv'
<1>1. /\ stage = "selected" /\ sim' = SimulateSwap(trade.position, SimHops(trade), active)
      /\ stage' \in {"order", "rejected"}
      /\ UNCHANGED <<config, tokens, active, quote, matrix, trade>>
  BY DEF Simulate
<1>2. config' \in Configs /\ Numbered' /\ MatrixIsOfPrices' /\ TradeIsWalk'
  BY <1>1 DEF IInv, Numbered, MatrixIsOfPrices, TradeIsWalk
<1>3. SimulatedIsTrade'
  BY <1>1 DEF SimulatedIsTrade
<1> QED
  BY <1>1, <1>2, <1>3 DEF IInv, BatchIsOfPrices, ApprovedAreWalks

LEMMA StepKeeps == IInv /\ [Next]_vars => IInv'
<1> SUFFICES ASSUME IInv, [Next]_vars
             PROVE  IInv'
  OBVIOUS
<1>1. ASSUME NEW q \in Quotes, Absorb(q)
      PROVE  IInv'
  <2>1. /\ stage' = "batch" /\ quote' = q /\ batch' = BuildEdges(q)
        /\ ToSet(tokens) \subseteq DOMAIN q /\ UNCHANGED <<config, tokens>>
    BY <1>1 DEF Absorb
  <2>2. tokens \in Seq(DOMAIN q)
    <3>1. tokens \in Seq(ToSet(TOKENS))
      BY DEF IInv, Numbered
    <3>2. \A i \in 1 .. Len(tokens) : tokens[i] \in DOMAIN q
      BY <2>1, <3>1 DEF ToSet
    <3> QED
      BY <3>1, <3>2
  <2>3. BatchIsOfPrices'
    BY <2>1, <2>2 DEF BatchIsOfPrices
  <2> QED
    BY <2>1, <2>3 DEF IInv, Numbered, MatrixIsOfPrices, ApprovedAreWalks, TradeIsWalk,
                      SimulatedIsTrade
<1>2. CASE BuildMatrix
  BY <1>2, BuildMatrixKeeps
<1>3. CASE Evaluate
  BY <1>3, EvaluateKeeps
<1>4. CASE PassOver
  BY <1>4, TopKeeps DEF PassOver, Drop
<1>5. CASE Select
  BY <1>5, SelectKeeps
<1>6. CASE Simulate
  BY <1>6, SimulateKeeps
<1>7. CASE Reject
  BY <1>7, TopKeeps DEF Reject, Drop
<1>8. ASSUME NEW m \in ActiveMins, Order(m)
      PROVE  IInv'
  BY <1>8, TopKeeps DEF Order, Drop
<1>9. CASE UNCHANGED vars
  BY <1>9 DEF vars, locals, IInv, Numbered, BatchIsOfPrices, MatrixIsOfPrices, ApprovedAreWalks,
              TradeIsWalk, SimulatedIsTrade
<1> QED
  BY <1>1, <1>2, <1>3, <1>4, <1>5, <1>6, <1>7, <1>8, <1>9 DEF Next

LEMMA CyclesHold == Spec => []IInv
BY InitIInv, StepKeeps, PTL DEF Spec

\* Whatever the prices, the bounds and the cycles before, the search does not invent a
\* profit: a path that promises one has an edge whose logarithm was cut.
THEOREM PromisesComeFromClamps == Spec => []PromiseComesFromClamp
<1>1. ASSUME IInv PROVE PromiseComesFromClamp
  <2> SUFFICES ASSUME stage = "approved", NEW i \in DOMAIN approved
               PROVE  LET path == approved[i].path IN
                      /\ ClosedWalk(path)
                      /\ path.expected_profit > 0 =>
                           \E k \in DOMAIN path.edges : Clamped(path.edges[k])
    BY DEF PromiseComesFromClamp
  <2>1. approved[i] \in Trades(matrix, tokens, config.max_hops)
    BY <1>1 DEF IInv, ApprovedAreWalks
  <2>2. PICK p : /\ approved[i] = Trade(ArbPath(matrix, p))
                 /\ PricedWalk(matrix, tokens, quote, p, config.max_hops)
    BY <1>1, <2>1, WalkOfTrade
  <2> DEFINE path == ArbPath(matrix, p)
             n == Hops(p)
             token(k) == TokenAt(tokens, p, k)
  <2>3. approved[i].path = path
    BY <2>2 DEF Trade
  <2>4. /\ DOMAIN path.edges = 1 .. n /\ Len(path.edges) = n
        /\ \A k \in 1 .. n :
             /\ path.edges[k].from = p[k] /\ path.edges[k].to = p[k + 1]
             /\ path.edges[k].log_weight = WeightAt(matrix, p, k)
        /\ path.expected_profit = ExpectedProfit(TotalLog(matrix, p))
    BY <2>2, PathOfWalk
  <2>5. n \in 2 .. config.max_hops + 3 /\ n \in Nat /\ p[1] = p[n + 1]
    BY <2>2, HopsArePriced DEF PricedWalk, Walks, Hops
  <2>6. \A k \in 1 .. n : WeightAt(matrix, p, k) = LogWeight(quote, token(k), token(k + 1))
    BY <2>2, HopsArePriced
  <2>7. \A k : Name(p[k]) = token(k)
    BY DEF Name, TokenAt
  <2> HIDE DEF path, n, token
  <2>8. ClosedWalk(path)
    <3>1. ASSUME NEW k \in 1 .. n
          PROVE  path.edges[k].to = path.edges[IF k = n THEN 1 ELSE k + 1].from
      <4>1. CASE k = n
        <5>1. 1 \in 1 .. n
          BY <2>5
        <5> QED
          BY <2>4, <2>5, <4>1, <5>1
      <4>2. CASE k # n
        <5>1. k + 1 \in 1 .. n
          BY <2>5, <4>2
        <5> QED
          BY <2>4, <4>2, <5>1
      <4> QED
        BY <4>1, <4>2
    <3>2. ASSUME NEW k \in 1 .. n
          PROVE  path.edges[k].log_weight
                   = LogWeight(quote, Name(path.edges[k].from), Name(path.edges[k].to))
      BY <2>4, <2>6, <2>7
    <3> QED
      BY <2>4, <2>5, <3>1, <3>2 DEF ClosedWalk
  <2>9. ASSUME \A k \in 1 .. n : ~Clamped(path.edges[k])
        PROVE  ~(path.expected_profit > 0)
    <3>1. ASSUME NEW k \in 1 .. n
          PROVE  WeightAt(matrix, p, k) = quote[token(k)] - quote[token(k + 1)]
      <4>1. path.edges[k].log_weight
              = quote[Name(path.edges[k].from)] - quote[Name(path.edges[k].to)]
        BY <2>9 DEF Clamped
      <4> QED
        BY <2>4, <2>7, <4>1
    <3>2. TotalLog(matrix, p) = 0
      BY <2>2, <3>1, UncutWalkSumsToZero DEF n, token
    <3>3. ExpectedProfit(0) = 0
      <4>1. 0 \in Int /\ 0 >= 0
        OBVIOUS
      <4> QED
        BY <4>1, BoundFacts, ProfitType
    <3> QED
      BY <2>4, <3>2, <3>3
  <2> QED
    BY <2>3, <2>4, <2>8, <2>9
<1> QED
  BY <1>1, CyclesHold, PTL

\* However the hops round and whatever the venues take, an order's simulation stays within
\* what the sum of logarithms promised.
THEOREM SimulationsOnlyCost == Spec => []SimulationOnlyCosts
<1>1. ASSUME IInv PROVE SimulationOnlyCosts
  <2> SUFFICES ASSUME stage = "order",
                      trade.path.expected_profit < 5 * REF_POSITION_LAMPORTS
               PROVE  sim.profit <= trade.path.expected_profit
    BY DEF SimulationOnlyCosts
  <2>1. trade \in Trades(matrix, tokens, config.max_hops)
    BY <1>1 DEF IInv, TradeIsWalk
  <2>2. PICK p : /\ trade = Trade(ArbPath(matrix, p))
                 /\ PricedWalk(matrix, tokens, quote, p, config.max_hops)
    BY <1>1, <2>1, WalkOfTrade
  <2>3. trade.path = ArbPath(matrix, p)
    BY <2>2 DEF Trade
  <2>4. sim = SimulateSwap(trade.position, SimHops(trade), active)
    BY <1>1 DEF IInv, SimulatedIsTrade
  <2>5. ArbPath(matrix, p).expected_profit < 5 * REF_POSITION_LAMPORTS
    BY <2>3
  <2>6. SimulateSwap(Trade(ArbPath(matrix, p)).position,
                     SimHops(Trade(ArbPath(matrix, p))), active).profit
          <= ArbPath(matrix, p).expected_profit
    BY <2>2, <2>5, BoundFacts, SimulatedWithinPromise
  <2> QED
    BY <2>2, <2>3, <2>4, <2>6
<1> QED
  BY <1>1, CyclesHold, PTL

-----------------------------------------------------------------------------
(* Orders.                                                                   *)

\* A simulation that is profitable passed the guard over the whole route: the success of
\* SimulateSwap is that of ExecuteSimulated, which returns the output it checked.
LEMMA ProfitableReturns ==
  ASSUME NEW initial, NEW hops, NEW min,
         IsProfitable(SimulateSwap(initial, hops, min), min)
  PROVE  LET s == SimulateSwap(initial, hops, min)
         IN s.success /\ ~(s.final < initial + min)
<1> DEFINE run == ExecuteSimulated(initial, min, hops)
           s == SimulateSwap(initial, hops, min)
           out == Running(initial, hops)[Len(hops)]
           short == \E k \in 1 .. Len(hops) :
                      hops[k].min_out > 0 /\ Running(initial, hops)[k] < hops[k].min_out
<1>1. s.success = run.ok /\ s.final = run.final
  BY DEF SimulateSwap
<1>2. run = IF short \/ ProfitGuardViolated(out, initial, min)
            THEN [ok |-> FALSE, final |-> 0] ELSE [ok |-> TRUE, final |-> out]
  BY DEF ExecuteSimulated
<1>3. s.success
  BY DEF IsProfitable
<1> HIDE DEF s, run, out, short
<1>4. ~ProfitGuardViolated(out, initial, min) /\ run.final = out
  BY <1>1, <1>2, <1>3
<1>5. ~(s.final < initial + min)
  BY <1>1, <1>4 DEF ProfitGuardViolated
<1> QED
  BY <1>3, <1>5 DEF s

\* The optimizer never asks for nothing, so that the simulation always decides.
MinInForce == active \in Nat /\ active >= MIN_PROFIT_FLOOR

LEMMA MinStays == Spec => []MinInForce
<1>1. Init => MinInForce
  BY RoutesAssumption DEF Init, NewActive, MinInForce
<1>2. MinInForce /\ [Next]_vars => MinInForce'
  <2> SUFFICES ASSUME MinInForce, [Next]_vars
               PROVE  MinInForce'
    OBVIOUS
  <2>1. ASSUME NEW q \in Quotes, Absorb(q)
        PROVE  MinInForce'
    BY <2>1 DEF Absorb, MinInForce
  <2>2. CASE BuildMatrix
    BY <2>2 DEF BuildMatrix, MinInForce
  <2>3. CASE Evaluate
    BY <2>3 DEF Evaluate, MinInForce
  <2>4. CASE PassOver
    BY <2>4 DEF PassOver, MinInForce
  <2>5. CASE Select
    BY <2>5 DEF Select, MinInForce
  <2>6. CASE Simulate
    BY <2>6 DEF Simulate, MinInForce
  <2>7. CASE Reject
    BY <2>7 DEF Reject, MinInForce
  <2>8. ASSUME NEW m \in ActiveMins, Order(m)
        PROVE  MinInForce'
    BY <2>8, RoutesAssumption DEF Order, MinInForce
  <2>9. CASE UNCHANGED vars
    BY <2>9 DEF vars, MinInForce
  <2> QED
    BY <2>1, <2>2, <2>3, <2>4, <2>5, <2>6, <2>7, <2>8, <2>9 DEF Next
<1> QED
  BY <1>1, <1>2, PTL DEF Spec

\* The loop orders only what its simulation paid for, whatever the optimizer did before.
THEOREM OrdersPay == Spec => []OrderPays
<1>1. Init => OrderPays
  BY DEF Init, OrderPays
<1>2. ASSUME MinInForce, OrderPays, [Next]_vars
      PROVE  OrderPays'
  <2>1. ASSUME NEW q \in Quotes, Absorb(q)
        PROVE  OrderPays'
    BY <2>1 DEF Absorb, OrderPays
  <2>2. CASE BuildMatrix
    BY <2>2 DEF BuildMatrix, OrderPays
  <2>3. CASE Evaluate
    BY <2>3 DEF Evaluate, OrderPays
  <2>4. CASE PassOver
    BY <2>4 DEF PassOver, Drop, OrderPays
  <2>5. CASE Select
    BY <2>5 DEF Select, OrderPays
  <2>6. CASE Simulate
    <3>1. SUFFICES ASSUME stage' = "order"
                   PROVE  sim'.success /\ ~(sim'.final < trade.position + active)
      BY <2>6 DEF Simulate, OrderPays
    <3>2. active # 0
      BY <1>2, RoutesAssumption DEF MinInForce
    <3>3. IsProfitable(sim', active)
      BY <2>6, <3>1, <3>2 DEF Simulate
    <3>4. sim' = SimulateSwap(trade.position, SimHops(trade), active)
      BY <2>6 DEF Simulate
    <3> QED
      BY <3>3, <3>4, ProfitableReturns
  <2>7. CASE Reject
    BY <2>7 DEF Reject, Drop, OrderPays
  <2>8. ASSUME NEW m \in ActiveMins, Order(m)
        PROVE  OrderPays'
    BY <2>8 DEF Order, Drop, OrderPays
  <2>9. CASE UNCHANGED vars
    BY <1>2, <2>9 DEF vars, locals, OrderPays
  <2> QED
    BY <1>2, <2>1, <2>2, <2>3, <2>4, <2>5, <2>6, <2>7, <2>8, <2>9 DEF Next
<1> QED
  BY <1>1, <1>2, MinStays, PTL DEF Spec
=============================================================================
