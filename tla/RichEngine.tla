----------------------------- MODULE RichEngine -----------------------------
(***************************************************************************)
(* crates/core/src/rich_engine.rs: Bellman-Ford from every token over the  *)
(* matrix of logarithms, and the routes it reads off its predecessors.     *)
(*                                                                         *)
(* A matrix is [n, weight]; rows and columns are numbered from 0, and a    *)
(* weight is an integer or Infinity where there is no edge.  Logarithms    *)
(* are to base 2, so exchange rates are powers of two and exact; the AVX2  *)
(* kernel computes what the scalar loop does.                              *)
(***************************************************************************)
EXTENDS Elementary

CONSTANTS
  Infinity,
  REF_POSITION_LAMPORTS

Less(a, b) == a # Infinity /\ (b = Infinity \/ a < b)

Plus(a, b) == IF a = Infinity \/ b = Infinity THEN Infinity ELSE a + b

Vertices(n) == 0 .. n - 1

\* The pairs of different vertices, by row and then by column.
Pairs(n) ==
  LET row(u) == [c \in 1 .. n - 1 |-> <<u - 1, IF c < u THEN c - 1 ELSE c>>]
  IN FlattenSeq([u \in 1 .. n |-> row(u)])

-----------------------------------------------------------------------------
(* Relaxation.  dist and pred change in place, row after row.               *)

Relax(m, s, u, v) ==
  LET d == Plus(s.dist[u], m.weight[u][v])
  IN IF Less(d, s.dist[v])
     THEN [dist |-> [s.dist EXCEPT ![v] = d], pred |-> [s.pred EXCEPT ![v] = u]]
     ELSE s

\* n - 1 rounds; no predecessor is Infinity too
BellmanFord(m, src) ==
  LET pairs == Pairs(m.n)
      start == [dist |-> [v \in Vertices(m.n) |-> IF v = src THEN 0 ELSE Infinity],
                pred |-> [v \in Vertices(m.n) |-> Infinity]]
      after[k \in 0 .. Len(pairs) * (m.n - 1)] ==
        IF k = 0 THEN start
        ELSE LET p == pairs[((k - 1) % Len(pairs)) + 1] IN Relax(m, after[k - 1], p[1], p[2])
  IN after[Len(pairs) * (m.n - 1)]

\* The V-th round: the first max_hops edges that could still be relaxed.
CycleEndpoints(m, s, maxHops) ==
  LET pairs == Pairs(m.n)
      shorter(u, v) == Less(Plus(s.dist[u], m.weight[u][v]), s.dist[v])
      open == Keep(pairs, {k \in DOMAIN pairs : shorter(pairs[k][1], pairs[k][2])})
  IN [i \in 1 .. (IF Len(open) < maxHops THEN Len(open) ELSE maxHops) |-> open[i]]

-----------------------------------------------------------------------------
(* reconstruct_path                                                         *)

\* From u along the predecessors, until src, a vertex without one, or max_hops steps.
Chain(pred, src, u, maxHops) ==
  LET upto[k \in 0 .. maxHops] ==
        IF k = 0 THEN <<u>>
        ELSE LET done == upto[k - 1]
                 cur == Last(done)
             IN IF cur = src \/ pred[cur] = Infinity THEN done ELSE Append(done, pred[cur])
  IN upto[maxHops]

Dedup(s) ==
  LET after[k \in 1 .. Len(s)] ==
        IF k = 1 THEN <<s[1]>>
        ELSE IF s[k] = s[k - 1] THEN after[k - 1] ELSE Append(after[k - 1], s[k])
  IN after[Len(s)]

ReconstructPath(pred, src, u, v, maxHops) ==
  LET chain == Reverse(Chain(pred, src, u, maxHops))
      led == IF chain[1] = src THEN chain ELSE <<src>> \o chain
      closed == Append(led, v) \o (IF v = src THEN << >> ELSE <<src>>)
  IN Dedup(closed)

Hops(path) == Len(path) - 1

\* slip: without the hop that closes the cycle
TotalOfOpenPath(m, path) ==
  LET weight(i) == m.weight[path[i]][path[i + 1]]
      sum[k \in 0 .. Hops(path)] == IF k = 0 THEN 0 ELSE Plus(sum[k - 1], weight(k))
  IN sum[Hops(path) - 1]

TotalLog(m, path) ==
  LET weight(i) == m.weight[path[i]][path[i + 1]]
      sum[k \in 0 .. Hops(path)] == IF k = 0 THEN 0 ELSE Plus(sum[k - 1], weight(k))
  IN sum[Hops(path)]

\* e^(-total) - 1 of the reference position, 5 at most
ExpectedProfit(total) ==
  IF Less(total, 0)
  THEN (IF Pow2(-total) - 1 < 5 THEN Pow2(-total) - 1 ELSE 5) * REF_POSITION_LAMPORTS
  ELSE 0

Dexes == <<"Raydium", "Orca", "JupiterV6">>

\* An edge of the path: a missing weight becomes Decimal's default, zero.
Edge(m, path, i) ==
  [from |-> path[i], to |-> path[i + 1], dex |-> Dexes[((i - 1) % 3) + 1],
   log_weight |-> IF m.weight[path[i]][path[i + 1]] = Infinity THEN 0
                  ELSE m.weight[path[i]][path[i + 1]]]

ArbPath(m, path) ==
  [edges |-> [i \in 1 .. Hops(path) |-> Edge(m, path, i)],
   expected_profit |-> ExpectedProfit(TotalLog(m, path))]

\* RichEngine::detect_cycles; a path of less than three vertices is none
DetectCycles(m, maxHops) ==
  LET from(src) ==
        LET s == BellmanFord(m, src)
            ends == CycleEndpoints(m, s, maxHops)
            found(u, v) == LET path == ReconstructPath(s.pred, src, u, v, maxHops)
                           IN IF Len(path) < 3 THEN << >> ELSE <<ArbPath(m, path)>>
        IN FlattenSeq([i \in 1 .. Len(ends) |-> found(ends[i][1], ends[i][2])])
  IN IF m.n < 2 THEN << >> ELSE FlattenSeq([k \in 1 .. m.n |-> from(k - 1)])
=============================================================================
