------------------------ MODULE CircuitBreaker_proofs ------------------------
(***************************************************************************)
(* Proofs about CircuitBreaker, for any number of tasks, any limits and    *)
(* any width of the lamport integers.                                      *)
(***************************************************************************)
EXTENDS CircuitBreaker, FiniteSetTheorems, WellFoundedInduction, TLAPS

Trading == {t \in Traders : pc[t] = "trading"}

\* Every task that still trades after the trip may add one late trade, and the task whose
\* trade tripped the breaker is not among them.
Overshoot ==
  /\ breaker.state = "Open" => late + Cardinality(Trading) + 1 <= Cardinality(Traders)
  /\ breaker.state = "Closed" => late = 0

IInv == TypeOK /\ Overshoot

-----------------------------------------------------------------------------
(* The methods on the record.                                                *)

LEMMA SaturateType ==
  ASSUME NEW n \in Int
  PROVE  Saturate(n) \in Signed
BY BreakerAssumption DEF Saturate, Signed

LEMMA CountTradeType ==
  ASSUME NEW b \in Inner, NEW p \in Signed
  PROVE  CountTrade(b, p) \in Inner /\ CountTrade(b, p).state = b.state
<1>1. CASE p < 0
  <2>1. AsSigned(UnsignedAbs(p)) \in Int
    BY <1>1, BreakerAssumption DEF AsSigned, UnsignedAbs, Signed
  <2>2. b.drawdown - AsSigned(UnsignedAbs(p)) \in Int
    BY <2>1, BreakerAssumption DEF Inner, Signed
  <2> DEFINE d == Saturate(b.drawdown - AsSigned(UnsignedAbs(p)))
  <2>3. d \in Signed
    BY <2>2, SaturateType
  <2>4. CountTrade(b, p) = [b EXCEPT !.consecutive = @ + 1, !.drawdown = d]
    BY <1>1 DEF CountTrade
  <2> HIDE DEF d
  <2>5. CountTrade(b, p) =
          [state |-> b.state, consecutive |-> b.consecutive + 1, drawdown |-> d]
    BY <2>4 DEF Inner
  <2>6. b.state \in {"Closed", "Open"} /\ b.consecutive + 1 \in Nat
    BY DEF Inner
  <2> QED
    BY <2>3, <2>5, <2>6 DEF Inner
<1>2. CASE ~(p < 0)
  BY <1>2 DEF CountTrade, Inner
<1> QED
  BY <1>1, <1>2

\* record_trade yields a well-formed breaker and never closes an open one.
LEMMA AfterTradeType ==
  ASSUME NEW b \in Inner, NEW p \in Signed
  PROVE  /\ AfterTrade(b, p) \in Inner
         /\ b.state = "Open" => AfterTrade(b, p).state = "Open"
<1> DEFINE counted == CountTrade(b, p)
<1>1. counted \in Inner /\ counted.state = b.state
  BY CountTradeType
<1>2. AfterTrade(b, p) = [counted EXCEPT !.state = "Open"] \/ AfterTrade(b, p) = counted
  BY DEF AfterTrade
<1> HIDE DEF counted
<1> QED
  BY <1>1, <1>2 DEF Inner

LEMMA NewBreakerType == NewBreaker \in Inner /\ NewBreaker.state = "Closed"
BY BreakerAssumption DEF NewBreaker, Inner, Signed

-----------------------------------------------------------------------------
(* Induction over the naturals, and the sums a recursive function defines.   *)

\* A non-empty set of naturals has a least element.
LEMMA LeastNatural ==
  ASSUME NEW T, T \subseteq Nat, T # {}
  PROVE  \E n \in T : \A m \in T : n <= m
<1> DEFINE R == OpToRel(<, Nat)
<1>1. IsWellFoundedOn(R, Nat)
  BY NatLessThanWellFounded
<1>2. \A x, y \in Nat : <<y, x>> \in R <=> y < x
  BY DEF OpToRel
<1> HIDE DEF R
<1>3. PICK n \in T : \A m \in T : ~(<<m, n>> \in R)
  BY <1>1, WFMin
<1>4. ASSUME NEW m \in T PROVE n <= m
  <2>1. n \in Nat /\ m \in Nat
    OBVIOUS
  <2>2. ~(m < n)
    BY <1>2, <1>3, <1>4, <2>1
  <2> QED
    BY <2>1, <2>2
<1> QED
  BY <1>4

\* Induction, with the property as the set of the numbers that have it.
LEMMA Induction ==
  ASSUME NEW T, 0 \in T, \A n \in Nat : n \in T => n + 1 \in T
  PROVE  Nat \subseteq T
<1> SUFFICES ASSUME Nat \ T # {} PROVE FALSE
  OBVIOUS
<1>1. PICK n \in Nat \ T : \A m \in Nat \ T : n <= m
  BY LeastNatural
<1>2. n # 0 /\ n - 1 \in Nat
  BY <1>1
<1>3. n - 1 \in T
  BY <1>1, <1>2
<1>4. (n - 1) + 1 \in T
  BY <1>2, <1>3
<1> QED
  BY <1>1, <1>4

\* The running sum of w exists: it is glued from its initial segments.
LEMMA SumExists ==
  ASSUME NEW w
  PROVE  \E f : f = [n \in Nat |-> IF n = 0 THEN 0 ELSE f[n - 1] + w[n]]
<1> DEFINE Upto(n, f) == \A m \in 0 .. n : f[m] = IF m = 0 THEN 0 ELSE f[m - 1] + w[m]
           T == {n \in Nat : \E f : Upto(n, f)}
           c == [n \in Nat |-> CHOOSE f : Upto(n, f)]
           F == [n \in Nat |-> c[n][n]]
<1>1. 0 \in T
  <2>1. Upto(0, [m \in {0} |-> 0])
    OBVIOUS
  <2> QED
    BY <2>1
<1>2. ASSUME NEW n \in Nat, n \in T PROVE n + 1 \in T
  <2>1. PICK f : Upto(n, f)
    BY <1>2
  <2> DEFINE g == [m \in 0 .. n + 1 |-> IF m = n + 1 THEN f[n] + w[m] ELSE f[m]]
  <2>2. ASSUME NEW m \in 0 .. n + 1 PROVE g[m] = IF m = 0 THEN 0 ELSE g[m - 1] + w[m]
    <3>1. CASE m = n + 1
      <4>1. n \in 0 .. n + 1 /\ n # n + 1 /\ m # 0 /\ m - 1 = n
        BY <3>1
      <4>2. g[m] = f[n] + w[m] /\ g[n] = f[n]
        BY <3>1, <4>1
      <4> QED
        BY <4>1, <4>2
    <3>2. CASE m # n + 1
      <4>1. m \in 0 .. n /\ g[m] = f[m]
        BY <3>2
      <4>2. m # 0 => m - 1 \in 0 .. n + 1 /\ m - 1 # n + 1
        BY <3>2
      <4>3. m # 0 => g[m - 1] = f[m - 1]
        BY <4>2
      <4>4. f[m] = IF m = 0 THEN 0 ELSE f[m - 1] + w[m]
        BY <2>1, <4>1
      <4> QED
        BY <4>1, <4>3, <4>4
    <3> QED
      BY <3>1, <3>2
  <2> HIDE DEF g
  <2>3. Upto(n + 1, g)
    BY <2>2
  <2> QED
    BY <2>3
<1>3. ASSUME NEW n \in Nat PROVE Upto(n, c[n])
  <2>1. n \in T
    BY <1>1, <1>2, Induction
  <2>2. PICK f : Upto(n, f)
    BY <2>1
  <2> HIDE DEF Upto
  <2> QED
    BY <2>2
<1>4. ASSUME NEW n \in Nat PROVE c[n + 1][n] = c[n][n]
  <2> DEFINE U == {m \in Nat : m <= n => c[n + 1][m] = c[n][m]}
  <2>1. \A m \in 0 .. n + 1 : c[n + 1][m] = IF m = 0 THEN 0 ELSE c[n + 1][m - 1] + w[m]
    BY <1>3
  <2>2. \A m \in 0 .. n : c[n][m] = IF m = 0 THEN 0 ELSE c[n][m - 1] + w[m]
    BY <1>3
  <2> HIDE DEF c
  <2>3. 0 \in U
    BY <2>1, <2>2
  <2>4. ASSUME NEW m \in Nat, m \in U PROVE m + 1 \in U
    <3> SUFFICES ASSUME m + 1 <= n PROVE c[n + 1][m + 1] = c[n][m + 1]
      OBVIOUS
    <3>1. c[n + 1][m] = c[n][m]
      BY <2>4
    <3>2. m + 1 \in 0 .. n /\ m + 1 \in 0 .. n + 1 /\ m + 1 # 0 /\ (m + 1) - 1 = m
      OBVIOUS
    <3> QED
      BY <2>1, <2>2, <3>1, <3>2
  <2>5. n \in U
    BY <2>3, <2>4, Induction
  <2> QED
    BY <2>5
<1>5. ASSUME NEW n \in Nat PROVE F[n] = IF n = 0 THEN 0 ELSE F[n - 1] + w[n]
  <2>1. c[n][n] = IF n = 0 THEN 0 ELSE c[n][n - 1] + w[n]
    BY <1>3
  <2>2. n # 0 => n - 1 \in Nat /\ (n - 1) + 1 = n
    OBVIOUS
  <2> HIDE DEF c
  <2>3. n # 0 => c[n][n - 1] = c[n - 1][n - 1]
    BY <1>4, <2>2
  <2> QED
    BY <2>1, <2>2, <2>3
<1> HIDE DEF c
<1>6. F = [n \in Nat |-> IF n = 0 THEN 0 ELSE F[n - 1] + w[n]]
  BY <1>5
<1> QED
  BY <1>6

Sum(w) == LET f[n \in Nat] == IF n = 0 THEN 0 ELSE f[n - 1] + w[n] IN f

LEMMA SumEquation ==
  ASSUME NEW w
  PROVE  /\ Sum(w)[0] = 0
         /\ \A n \in Nat : Sum(w)[n + 1] = Sum(w)[n] + w[n + 1]
<1> DEFINE P(f) == f = [n \in Nat |-> IF n = 0 THEN 0 ELSE f[n - 1] + w[n]]
<1>1. PICK f : P(f)
  BY SumExists
<1>2. Sum(w) = CHOOSE g : P(g)
  BY DEF Sum
<1> HIDE DEF P
<1>3. P(Sum(w))
  BY <1>1, <1>2
<1>4. ASSUME NEW n \in Nat PROVE Sum(w)[n + 1] = Sum(w)[n] + w[n + 1]
  <2>1. n + 1 \in Nat /\ n + 1 # 0 /\ (n + 1) - 1 = n
    OBVIOUS
  <2> QED
    BY <1>3, <2>1 DEF P
<1>5. Sum(w)[0] = 0
  BY <1>3 DEF P
<1> QED
  BY <1>4, <1>5

\* Lists that begin alike have the same sums that far.
LEMMA SumsAgree ==
  ASSUME NEW v, NEW w, NEW N \in Nat, \A i \in 1 .. N : v[i] = w[i]
  PROVE  Sum(v)[N] = Sum(w)[N]
<1> DEFINE U == {n \in Nat : n <= N => Sum(v)[n] = Sum(w)[n]}
<1>1. 0 \in U
  <2>1. Sum(v)[0] = 0 /\ Sum(w)[0] = 0
    BY SumEquation
  <2> QED
    BY <2>1
<1>2. ASSUME NEW n \in Nat, n \in U PROVE n + 1 \in U
  <2> SUFFICES ASSUME n + 1 <= N PROVE Sum(v)[n + 1] = Sum(w)[n + 1]
    OBVIOUS
  <2>1. Sum(v)[n] = Sum(w)[n] /\ v[n + 1] = w[n + 1]
    BY <1>2
  <2>2. Sum(v)[n + 1] = Sum(v)[n] + v[n + 1] /\ Sum(w)[n + 1] = Sum(w)[n] + w[n + 1]
    BY SumEquation
  <2> QED
    BY <2>1, <2>2
<1>3. Nat \subseteq U
  <2> HIDE DEF U
  <2> QED
    BY <1>1, <1>2, Induction
<1> QED
  BY <1>3

-----------------------------------------------------------------------------
(* The trades of a list and the record that summarises them.                 *)

LossOf(p) == IF p < 0 THEN -p ELSE 0

Losses(h) ==
  LET f[n \in Nat] == IF n = 0 THEN 0 ELSE f[n - 1] + LossOf(h[n]) IN f

LimitAt(h, n) ==
  \/ n >= MaxConsecutive /\ \A i \in n - MaxConsecutive + 1 .. n : h[i] < 0
  \/ Losses(h)[n] >= Threshold

\* consecutive is the length of the longest losing run at the end of the list
CountsRun(b, h) ==
  /\ b.consecutive \in Nat /\ b.consecutive <= Len(h)
  /\ \A i \in Len(h) - b.consecutive + 1 .. Len(h) : h[i] < 0
  /\ b.consecutive < Len(h) => ~(h[Len(h) - b.consecutive] < 0)

\* drawdown is the sum of the losses, as far as the integer reaches
CountsLosses(b, h) == b.drawdown = Saturate(-Losses(h)[Len(h)])

IsLatched(b, h) == b.state = "Open" <=> \E n \in 1 .. Len(h) : LimitAt(h, n)

Summarises(b, h) == CountsRun(b, h) /\ CountsLosses(b, h) /\ IsLatched(b, h)

\* The limits and the profits that `as i64` leaves alone.
Convertible == Threshold < Half /\ -Half \notin Profits

LEMMA ProfitsAreIntegers ==
  ASSUME NEW h \in Seq(Profits), NEW p \in Profits
  PROVE  h \in Seq(Int) /\ p \in Int
<1>1. Half \in Int /\ Profits \subseteq -Half .. Half - 1
  BY BreakerAssumption DEF Signed
<1>2. Profits \subseteq Int
  BY <1>1
<1>3. Len(h) \in Nat /\ h \in [1 .. Len(h) -> Profits]
  OBVIOUS
<1>4. h \in [1 .. Len(h) -> Int]
  BY <1>2, <1>3
<1> QED
  BY <1>2, <1>3, <1>4

LEMMA LossesEquation ==
  ASSUME NEW h
  PROVE  /\ Losses(h)[0] = 0
         /\ \A n \in Nat : Losses(h)[n + 1] = Losses(h)[n] + LossOf(h[n + 1])
<1> DEFINE w == [n \in Nat |-> LossOf(h[n])]
           P(f) == f = [n \in Nat |-> IF n = 0 THEN 0 ELSE f[n - 1] + LossOf(h[n])]
<1>1. PICK f : f = [n \in Nat |-> IF n = 0 THEN 0 ELSE f[n - 1] + w[n]]
  BY SumExists
<1>2. P(f)
  BY <1>1
<1>3. Losses(h) = CHOOSE g : P(g)
  BY DEF Losses
<1> HIDE DEF P
<1>4. P(Losses(h))
  BY <1>2, <1>3
<1>5. ASSUME NEW n \in Nat PROVE Losses(h)[n + 1] = Losses(h)[n] + LossOf(h[n + 1])
  <2>1. n + 1 \in Nat /\ n + 1 # 0 /\ (n + 1) - 1 = n
    OBVIOUS
  <2> QED
    BY <1>4, <2>1 DEF P
<1>6. Losses(h)[0] = 0
  BY <1>4 DEF P
<1> QED
  BY <1>5, <1>6

LEMMA LossesType ==
  ASSUME NEW h \in Seq(Int), NEW n \in 0 .. Len(h)
  PROVE  Losses(h)[n] \in Nat
<1> DEFINE U == {m \in Nat : m <= Len(h) => Losses(h)[m] \in Nat}
<1>1. 0 \in U
  <2>1. Losses(h)[0] = 0
    BY LossesEquation
  <2> QED
    BY <2>1
<1>2. ASSUME NEW m \in Nat, m \in U PROVE m + 1 \in U
  <2> SUFFICES ASSUME m + 1 <= Len(h) PROVE Losses(h)[m + 1] \in Nat
    OBVIOUS
  <2>1. Losses(h)[m] \in Nat
    BY <1>2
  <2>2. h[m + 1] \in Int
    OBVIOUS
  <2>3. LossOf(h[m + 1]) \in Nat
    BY <2>2 DEF LossOf
  <2>4. Losses(h)[m + 1] = Losses(h)[m] + LossOf(h[m + 1])
    BY LossesEquation
  <2> QED
    BY <2>1, <2>3, <2>4
<1>3. Nat \subseteq U
  <2> HIDE DEF U
  <2> QED
    BY <1>1, <1>2, Induction
<1> QED
  BY <1>3

\* A trade more changes no sum of the trades before it.
LEMMA LossesOfPrefix ==
  ASSUME NEW h \in Seq(Int), NEW p \in Int, NEW n \in 0 .. Len(h)
  PROVE  Losses(Append(h, p))[n] = Losses(h)[n]
<1> DEFINE U == {m \in Nat : m <= Len(h) => Losses(Append(h, p))[m] = Losses(h)[m]}
<1>1. 0 \in U
  <2>1. Losses(h)[0] = 0 /\ Losses(Append(h, p))[0] = 0
    BY LossesEquation
  <2> QED
    BY <2>1
<1>2. ASSUME NEW m \in Nat, m \in U PROVE m + 1 \in U
  <2> SUFFICES ASSUME m + 1 <= Len(h)
               PROVE Losses(Append(h, p))[m + 1] = Losses(h)[m + 1]
    OBVIOUS
  <2>1. Losses(Append(h, p))[m] = Losses(h)[m]
    BY <1>2
  <2>2. Append(h, p)[m + 1] = h[m + 1]
    OBVIOUS
  <2>3. Losses(Append(h, p))[m + 1] = Losses(Append(h, p))[m] + LossOf(Append(h, p)[m + 1])
    BY LossesEquation
  <2>4. Losses(h)[m + 1] = Losses(h)[m] + LossOf(h[m + 1])
    BY LossesEquation
  <2> QED
    BY <2>1, <2>2, <2>3, <2>4
<1>3. Nat \subseteq U
  <2> HIDE DEF U
  <2> QED
    BY <1>1, <1>2, Induction
<1> QED
  BY <1>3

\* A trade more leaves the limits reached at the trades before it.
LEMMA LimitsOfPrefix ==
  ASSUME NEW h \in Seq(Int), NEW p \in Int, NEW n \in 1 .. Len(h)
  PROVE  LimitAt(Append(h, p), n) <=> LimitAt(h, n)
<1>1. Losses(Append(h, p))[n] = Losses(h)[n]
  BY LossesOfPrefix
<1>2. ASSUME n >= MaxConsecutive, NEW i \in n - MaxConsecutive + 1 .. n
      PROVE  Append(h, p)[i] = h[i]
  <2>1. i \in 1 .. Len(h)
    BY <1>2, BreakerAssumption
  <2> QED
    BY <2>1
<1> QED
  BY <1>1, <1>2 DEF LimitAt

\* The counters decide the limits: the run counted is as long as the limit exactly when the
\* last trades are all losses, and the saturated sum is compared as the exact one would be.
LEMMA TripMeansLimit ==
  ASSUME NEW b, NEW h \in Seq(Int), CountsRun(b, h), CountsLosses(b, h), Threshold < Half
  PROVE  TripCondition(b) <=> LimitAt(h, Len(h))
<1> DEFINE n == Len(h)
<1>1. n \in Nat /\ MaxConsecutive \in Nat /\ b.consecutive \in Nat /\ b.consecutive <= n
  BY BreakerAssumption DEF CountsRun
<1>2. b.consecutive >= MaxConsecutive
        <=> n >= MaxConsecutive /\ \A i \in n - MaxConsecutive + 1 .. n : h[i] < 0
  <2>1. ASSUME b.consecutive >= MaxConsecutive
        PROVE  n >= MaxConsecutive /\ \A i \in n - MaxConsecutive + 1 .. n : h[i] < 0
    <3>1. \A i \in n - MaxConsecutive + 1 .. n : i \in n - b.consecutive + 1 .. n
      BY <1>1, <2>1
    <3> QED
      BY <1>1, <2>1, <3>1 DEF CountsRun
  <2>2. ASSUME ~(b.consecutive >= MaxConsecutive), n >= MaxConsecutive
        PROVE  ~(\A i \in n - MaxConsecutive + 1 .. n : h[i] < 0)
    <3> DEFINE k == b.consecutive
    <3>1. k \in Nat /\ k < MaxConsecutive
      BY <1>1, <2>2
    <3> HIDE DEF k, n
    <3>2. k < n /\ n - k \in n - MaxConsecutive + 1 .. n
      BY <1>1, <2>2, <3>1
    <3> QED
      BY <3>2 DEF CountsRun, k, n
  <2> QED
    BY <2>1, <2>2
<1>3. b.drawdown <= NegatedLimit <=> Losses(h)[n] >= Threshold
  <2> DEFINE s == Losses(h)[n]
  <2>1. s \in Nat
    BY LossesType
  <2>2. Threshold \in Nat /\ Half \in Nat /\ NegatedLimit = -Threshold
    BY BreakerAssumption DEF NegatedLimit, AsSigned, Unsigned
  <2>3. b.drawdown = IF -s < -Half THEN -Half ELSE IF -s > Half - 1 THEN Half - 1 ELSE -s
    BY DEF CountsLosses, Saturate
  <2> HIDE DEF s
  <2>4. b.drawdown <= NegatedLimit <=> s >= Threshold
    BY <2>1, <2>2, <2>3
  <2> QED
    BY <2>4 DEF s
<1> QED
  BY <1>2, <1>3 DEF TripCondition, LimitAt

\* record_trade keeps the record a summary of the list.
LEMMA RecordSummarises ==
  ASSUME NEW b \in Inner, NEW h \in Seq(Profits), NEW p \in Profits,
         Convertible, Summarises(b, h)
  PROVE  Summarises(AfterTrade(b, p), Append(h, p))
<1> DEFINE g == Append(h, p)
           n == Len(h)
           c == CountTrade(b, p)
<1>1. h \in Seq(Int) /\ p \in Int /\ g \in Seq(Int) /\ n \in Nat
  BY ProfitsAreIntegers
<1>2. Len(g) = n + 1 /\ g[n + 1] = p /\ \A i \in 1 .. n : g[i] = h[i]
  BY <1>1
<1>3. c \in Inner /\ c.state = b.state
  BY CountTradeType, BreakerAssumption
<1>4. b.consecutive \in Nat /\ b.drawdown \in Int /\ Half \in Nat \ {0}
  BY BreakerAssumption DEF Inner, Signed
<1>5. /\ p < 0 => /\ c.consecutive = b.consecutive + 1
                  /\ c.drawdown = Saturate(b.drawdown - AsSigned(UnsignedAbs(p)))
      /\ ~(p < 0) => c.consecutive = 0 /\ c.drawdown = b.drawdown
  BY DEF CountTrade, Inner
<1>6. p < 0 => AsSigned(UnsignedAbs(p)) = -p
  BY <1>1, <1>4, BreakerAssumption DEF AsSigned, UnsignedAbs, Convertible, Signed
<1>7. CountsRun(c, g)
  <2>1. CASE p < 0
    <3> DEFINE k == b.consecutive
    <3>1. CountsRun(b, h)
      BY DEF Summarises
    <3>2. k \in Nat /\ k <= n
      BY <3>1 DEF CountsRun
    <3>3. c.consecutive = k + 1
      BY <1>5, <2>1
    <3> HIDE DEF k, n
    <3>4. k + 1 \in Nat /\ k + 1 <= n + 1 /\ (n + 1) - (k + 1) = n - k
      BY <1>1, <3>2
    <3>5. ASSUME NEW i \in n - k + 1 .. n + 1 PROVE g[i] < 0
      <4>1. CASE i = n + 1
        BY <1>2, <2>1, <4>1 DEF n
      <4>2. CASE i # n + 1
        <5>1. i \in n - k + 1 .. n /\ i \in 1 .. n
          BY <1>1, <3>2, <4>2
        <5>2. h[i] < 0
          BY <3>1, <5>1 DEF CountsRun, k, n
        <5> QED
          BY <1>2, <5>1, <5>2 DEF n
      <4> QED
        BY <4>1, <4>2
    <3>6. ASSUME k + 1 < n + 1 PROVE ~(g[n - k] < 0)
      <4>1. k < n /\ n - k \in 1 .. n
        BY <1>1, <3>2, <3>6
      <4>2. ~(h[n - k] < 0)
        BY <3>1, <4>1 DEF CountsRun, k, n
      <4> QED
        BY <1>2, <4>1, <4>2 DEF n
    <3>7. Len(g) = n + 1
      BY <1>2 DEF n
    <3> HIDE DEF c, g
    <3> QED
      BY <3>3, <3>4, <3>5, <3>6, <3>7 DEF CountsRun
  <2>2. CASE ~(p < 0)
    <3>1. c.consecutive = 0
      BY <1>5, <2>2
    <3> QED
      BY <1>1, <1>2, <2>2, <3>1 DEF CountsRun
  <2> QED
    BY <2>1, <2>2
<1>8. CountsLosses(c, g)
  <2> DEFINE s == Losses(h)[n]
  <2>1. s \in Nat
    BY <1>1, LossesType
  <2>2. Losses(g)[n + 1] = s + LossOf(p)
    <3>1. Losses(g)[n] = s
      BY <1>1, LossesOfPrefix
    <3>2. Losses(g)[n + 1] = Losses(g)[n] + LossOf(g[n + 1])
      BY <1>1, LossesEquation
    <3> QED
      BY <1>2, <3>1, <3>2
  <2>3. b.drawdown = Saturate(-s)
    BY DEF Summarises, CountsLosses
  <2> HIDE DEF s
  <2>4. c.drawdown = Saturate(-(s + LossOf(p)))
    <3>1. CASE p < 0
      <4>1. c.drawdown = Saturate(Saturate(-s) - (-p))
        BY <1>5, <1>6, <2>3, <3>1
      <4>2. LossOf(p) = -p
        BY <3>1 DEF LossOf
      <4>3. Saturate(Saturate(-s) - (-p)) = Saturate(-(s + (-p)))
        BY <1>1, <1>4, <2>1, <3>1 DEF Saturate
      <4> QED
        BY <4>1, <4>2, <4>3
    <3>2. CASE ~(p < 0)
      <4>1. LossOf(p) = 0 /\ s + 0 = s
        BY <2>1, <3>2 DEF LossOf
      <4> QED
        BY <1>5, <2>3, <3>2, <4>1
    <3> QED
      BY <3>1, <3>2
  <2> QED
    BY <1>2, <2>2, <2>4 DEF CountsLosses
<1> HIDE DEF c
<1>9. TripCondition(c) <=> LimitAt(g, n + 1)
  BY <1>1, <1>2, <1>7, <1>8, TripMeansLimit DEF Convertible
<1>10. /\ AfterTrade(b, p).consecutive = c.consecutive
       /\ AfterTrade(b, p).drawdown = c.drawdown
       /\ AfterTrade(b, p).state = "Open" <=> (c.state = "Open" \/ TripCondition(c))
  <2>1. AfterTrade(b, p) = IF TripCondition(c) THEN [c EXCEPT !.state = "Open"] ELSE c
    BY DEF AfterTrade, c
  <2> QED
    BY <1>3, <2>1 DEF Inner
<1>11. IsLatched(AfterTrade(b, p), g)
  <2>1. b.state = "Open" <=> \E i \in 1 .. n : LimitAt(h, i)
    BY DEF Summarises, IsLatched
  <2>2. \A i \in 1 .. n : LimitAt(g, i) <=> LimitAt(h, i)
    BY <1>1, LimitsOfPrefix
  <2> HIDE DEF g
  <2>3. (\E i \in 1 .. n + 1 : LimitAt(g, i))
          <=> LimitAt(g, n + 1) \/ \E i \in 1 .. n : LimitAt(g, i)
    BY <1>1
  <2> QED
    BY <1>2, <1>3, <1>9, <1>10, <2>1, <2>2, <2>3 DEF IsLatched
<1>12. CountsRun(AfterTrade(b, p), g) /\ CountsLosses(AfterTrade(b, p), g)
  BY <1>7, <1>8, <1>10 DEF CountsRun, CountsLosses
<1> QED
  BY <1>11, <1>12 DEF Summarises

LEMMA NewSummarises == Summarises(NewBreaker, <<>>)
<1>1. Losses(<<>>)[0] = 0
  BY LossesEquation
<1>2. ASSUME NEW s \in Int, s = 0 PROVE Saturate(-s) = 0
  <2>1. ASSUME NEW z \in Int, z <= 0, z >= 0 PROVE -z <= 0 /\ -z >= 0 /\ -z \in Int
    BY <2>1
  <2>2. -s \in Int /\ -s <= 0 /\ -s >= 0
    <3>1. s <= 0 /\ s >= 0
      BY <1>2
    <3> QED
      BY <2>1, <3>1
  <2>3. ASSUME NEW z \in Int, z <= 0, z >= 0 PROVE Saturate(z) = 0
    BY <2>3, BreakerAssumption DEF Saturate
  <2> QED
    BY <2>2, <2>3
<1>3. Saturate(-Losses(<<>>)[0]) = 0
  BY <1>1, <1>2
<1> QED
  BY <1>3 DEF Summarises, CountsRun, CountsLosses, IsLatched, NewBreaker

LEMMA SummaryDecides == Summarises(breaker, history) => OpenIffLimitReached
<1>1. LossSum = Losses(history)
  BY DEF LossSum, Losses, LossOf
<1>2. \A n : LimitAt(history, n) <=> LosingRun(n) \/ LossSum[n] >= Threshold
  BY <1>1 DEF LimitAt, LosingRun
<1> QED
  BY <1>2 DEF Summarises, IsLatched, OpenIffLimitReached

-----------------------------------------------------------------------------
LEMMA TradersFinite ==
  ASSUME NEW S \in SUBSET Traders
  PROVE  /\ IsFiniteSet(S) /\ Cardinality(S) \in Nat
         /\ Cardinality(S) <= Cardinality(Traders) /\ Cardinality(Traders) \in Nat
BY BreakerAssumption, FS_Subset, FS_CardinalityType

\* A task that stops trading leaves one fewer trading.
LEMMA OneStops ==
  ASSUME TypeOK, NEW t \in Traders, pc[t] = "trading", pc' = [pc EXCEPT ![t] = "idle"]
  PROVE  /\ Trading' = Trading \ {t}
         /\ Cardinality(Trading') = Cardinality(Trading) - 1
<1>1. Trading' = Trading \ {t} /\ t \in Trading
  BY DEF Trading, TypeOK
<1>2. IsFiniteSet(Trading)
  BY TradersFinite DEF Trading
<1> QED
  BY <1>1, <1>2, FS_RemoveElement

LEMMA InitHolds == Init => IInv
<1> SUFFICES ASSUME Init PROVE IInv
  OBVIOUS
<1>1. TypeOK
  BY NewBreakerType DEF Init, TypeOK
<1> QED
  BY <1>1, NewBreakerType DEF Init, IInv, Overshoot

LEMMA NextHolds == IInv /\ [Next]_vars => IInv'
<1> SUFFICES ASSUME IInv, [Next]_vars PROVE IInv'
  OBVIOUS
<1>1. TypeOK /\ Overshoot
  BY DEF IInv
<1>2. Cardinality(Trading) \in Nat /\ Cardinality(Traders) \in Nat /\ late \in Nat
      /\ Cardinality(Trading) <= Cardinality(Traders)
  BY <1>1, TradersFinite DEF Trading, TypeOK
<1>3. ASSUME NEW t \in Traders, Check(t) PROVE IInv'
  <2>1. TypeOK'
    BY <1>1, <1>3 DEF TypeOK, Check
  <2>2. Overshoot'
    BY <1>1, <1>3 DEF Overshoot, Check, AllowsTrade
  <2> QED
    BY <2>1, <2>2 DEF IInv
<1>4. ASSUME NEW t \in Traders, Abandon(t) PROVE IInv'
  <2>1. TypeOK'
    BY <1>1, <1>4 DEF TypeOK, Abandon
  <2>2. Cardinality(Trading') = Cardinality(Trading) - 1
    BY <1>1, <1>4, OneStops DEF Abandon
  <2>3. UNCHANGED <<breaker, late>>
    BY <1>4 DEF Abandon
  <2>4. Overshoot'
    BY <1>1, <1>2, <2>2, <2>3 DEF Overshoot
  <2> QED
    BY <2>1, <2>4 DEF IInv
<1>5. ASSUME NEW t \in Traders, NEW p \in Profits, Record(t, p) PROVE IInv'
  <2>1. breaker' \in Inner /\ (breaker.state = "Open" => breaker'.state = "Open")
    BY <1>1, <1>5, BreakerAssumption, AfterTradeType DEF Record, TypeOK
  <2>2. late' = (IF breaker.state = "Open" THEN late + 1 ELSE late)
    BY <1>5 DEF Record
  <2>3. TypeOK'
    <3>1. pc' \in [Traders -> {"idle", "trading"}] /\ history' \in Seq(Profits)
      BY <1>1, <1>5 DEF TypeOK, Record
    <3>2. late' \in Nat
      BY <1>2, <2>2
    <3> QED
      BY <2>1, <3>1, <3>2 DEF TypeOK
  <2>4. Cardinality(Trading') = Cardinality(Trading) - 1
    BY <1>1, <1>5, OneStops DEF Record
  <2>5. breaker.state \in {"Closed", "Open"} /\ breaker'.state \in {"Closed", "Open"}
    BY <1>1, <2>1 DEF TypeOK, Inner
  <2>6. CASE breaker.state = "Open"
    <3>1. late' = late + 1
      BY <2>2, <2>6
    <3>2. late + Cardinality(Trading) + 1 <= Cardinality(Traders)
      BY <1>1, <2>6 DEF Overshoot
    <3>3. late' + Cardinality(Trading') + 1 <= Cardinality(Traders)
      BY <1>2, <2>4, <3>1, <3>2
    <3>4. breaker'.state = "Open"
      BY <2>1, <2>6
    <3> QED
      BY <2>3, <3>3, <3>4 DEF Overshoot, IInv
  <2>7. CASE breaker.state = "Closed"
    <3>1. late' = 0
      BY <1>1, <2>2, <2>7 DEF Overshoot
    <3>2. late' + Cardinality(Trading') + 1 <= Cardinality(Traders)
      BY <1>2, <2>4, <3>1
    <3> QED
      BY <2>3, <3>1, <3>2 DEF Overshoot, IInv
  <2> QED
    BY <2>3, <2>5, <2>6, <2>7 DEF IInv
<1>6. CASE ManualReset
  BY <1>1, <1>6, NewBreakerType DEF ManualReset, IInv, TypeOK, Overshoot
<1>7. CASE UNCHANGED vars
  BY <1>1, <1>7 DEF vars, IInv, TypeOK, Overshoot, Trading
<1> QED
  BY <1>3, <1>4, <1>5, <1>6, <1>7 DEF Next

LEMMA Invariance == Spec => []IInv
BY InitHolds, NextHolds, PTL DEF Spec

-----------------------------------------------------------------------------
\* The counters of the breaker stay in the range of their integers.
THEOREM TypeCorrect == Spec => []TypeOK
<1>1. IInv => TypeOK
  BY DEF IInv
<1> QED
  BY Invariance, <1>1, PTL

\* With any number of tasks trading, at most one late trade of each other task is recorded
\* once the breaker has tripped.
THEOREM BoundedOvershoot == Spec => []OvershootBounded
<1>1. IInv => OvershootBounded
  <2> SUFFICES ASSUME IInv, breaker.state = "Open" PROVE late + 1 <= Cardinality(Traders)
    BY DEF OvershootBounded
  <2>1. Cardinality(Trading) \in Nat /\ Cardinality(Traders) \in Nat /\ late \in Nat
    BY TradersFinite DEF Trading, IInv, TypeOK
  <2>2. late + Cardinality(Trading) + 1 <= Cardinality(Traders)
    BY DEF IInv, Overshoot
  <2> QED
    BY <2>1, <2>2
<1> QED
  BY Invariance, <1>1, PTL

\* An open breaker stays open and lets no trade begin until the operator resets it.
THEOREM StaysLatched == Spec => Latched
<1> DEFINE Step == breaker.state = "Open" =>
             /\ \A t \in Traders : pc'[t] = "trading" => pc[t] = "trading"
             /\ breaker'.state = "Open" \/ (breaker' = NewBreaker /\ history' = <<>>)
<1>1. ASSUME IInv, Next, breaker.state = "Open" PROVE Step
  <2>1. TypeOK
    BY <1>1 DEF IInv
  <2>2. ASSUME NEW t \in Traders, Check(t) PROVE FALSE
    BY <1>1, <2>2 DEF Check, AllowsTrade
  <2>3. ASSUME NEW t \in Traders, Abandon(t) PROVE Step
    BY <1>1, <2>1, <2>3 DEF Abandon, TypeOK
  <2>4. ASSUME NEW t \in Traders, NEW p \in Profits, Record(t, p) PROVE Step
    <3>1. breaker'.state = "Open"
      BY <1>1, <2>1, <2>4, BreakerAssumption, AfterTradeType DEF Record, TypeOK
    <3>2. pc' = [pc EXCEPT ![t] = "idle"]
      BY <2>4 DEF Record
    <3> QED
      BY <2>1, <3>1, <3>2 DEF TypeOK
  <2>5. CASE ManualReset
    BY <2>5 DEF ManualReset
  <2> QED
    BY <1>1, <2>2, <2>3, <2>4, <2>5 DEF Next
<1>2. ASSUME IInv, Next PROVE Step
  BY <1>1, <1>2
<1> QED
  BY Invariance, <1>2, PTL DEF Spec, Latched

\* With limits and profits that `as i64` leaves alone, the breaker is open exactly when the
\* trades recorded since the last reset have reached one of the limits.  (Beyond them the
\* conversion of record_trade changes signs and the breaker says something else.)
THEOREM OpensAtTheLimit == Convertible => (Spec => []OpenIffLimitReached)
<1> SUFFICES ASSUME Convertible PROVE Spec => []OpenIffLimitReached
  OBVIOUS
<1> DEFINE Summary == Summarises(breaker, history)
<1>1. Init => Summary
  BY NewSummarises DEF Init
<1>2. ASSUME Summary, IInv, [Next]_vars PROVE Summary'
  <2>1. TypeOK
    BY <1>2 DEF IInv
  <2>2. ASSUME NEW t \in Traders, NEW p \in Profits, Record(t, p) PROVE Summary'
    BY <1>2, <2>1, <2>2, RecordSummarises DEF Record, TypeOK
  <2>3. CASE ManualReset
    BY <2>3, NewSummarises DEF ManualReset
  <2>4. ASSUME UNCHANGED <<breaker, history>> PROVE Summary'
    BY <1>2, <2>4
  <2> QED
    BY <1>2, <2>2, <2>3, <2>4 DEF Next, Check, Abandon, vars
<1>3. Summary => OpenIffLimitReached
  BY SummaryDecides
<1> QED
  BY Invariance, <1>1, <1>2, <1>3, PTL DEF Spec

=============================================================================
