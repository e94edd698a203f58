-------------------------- MODULE TradeLoop_proofs --------------------------
(***************************************************************************)
(* Proofs about the trade loop, for any paths, quotes, fees, limits and    *)
(* any number of transactions sent.                                        *)
(***************************************************************************)
EXTENDS TradeLoop, FiniteSetTheorems, TLAPS

InTrade == {"balance", "order", "simulate", "send", "confirm"}

\* Only these paths reach an execution, and these are the routes they use.
Executable == {p \in Paths : HasDistinctMints(p)}
ExecutableRoutes == {DexPath(p) : p \in Executable}

\* What the position of the loop says of the trade in hand: selected while its route was
\* free and the cooldown over, in a cycle that found the breaker closed.
Stage ==
  /\ pc \in InTrade => /\ trade \in Executable
                       /\ DexPath(trade) \notin submitted
                       /\ cooldown = "over"
  /\ pc \notin InTrade => trade = NoTrade
  /\ pc \in {"simulate", "send", "confirm"} => order \in Orders
  /\ pc # "top" => breaker.state = "Closed"

\* While the loop polls, the transaction it polls for is the last one sent.
InFlight ==
  pc = "confirm" => /\ Len(sent) > 0
                    /\ sent[Len(sent)].path = trade
                    /\ sent[Len(sent)].quote = order.quote
                    /\ \A k \in DOMAIN booked : booked[k] < Len(sent)

\* What is booked landed, in the order sent.
InOrder ==
  \A k \in DOMAIN booked : /\ sent[booked[k]].status = "landed"
                           /\ \A j \in 1 .. k - 1 : booked[j] < booked[k]

\* The set of keys is the set of routes of the booked trades, none counted twice.
Books ==
  /\ \A k \in DOMAIN booked : booked[k] \in DOMAIN sent
  /\ submitted = {DexPath(sent[booked[k]].path) : k \in DOMAIN booked}
  /\ submitted \subseteq ExecutableRoutes
  /\ Cardinality(submitted) = Len(booked)

IInv == TypeOK /\ Stage /\ InFlight /\ Books /\ InOrder

-----------------------------------------------------------------------------
(* The breaker: what CircuitBreaker_proofs says of its record, for this loop. *)

Breaker == INSTANCE CircuitBreaker_proofs
             WITH Traders <- {"loop"}, Profits <- Quotes, MaxHistory <- MaxSent,
                  history <- Quoted,
                  pc <- [t \in {"loop"} |-> IF pc = "top" THEN "idle" ELSE "trading"],
                  late <- 0

\* Its assumption on the constants holds of this loop's configuration.
LEMMA BreakerConfigured ==
  /\ Breaker!IsFiniteSet({"loop"})
  /\ Half \in Nat \ {0}
  /\ MaxConsecutive \in Nat
  /\ Threshold \in Breaker!Unsigned
  /\ Quotes \subseteq Breaker!Signed
  /\ MaxSent \in Nat
<1>1. Breaker!IsFiniteSet({"loop"})
  <2>1. <<"loop">> \in Seq({"loop"}) /\ 1 \in 1 .. Len(<<"loop">>) /\ <<"loop">>[1] = "loop"
    OBVIOUS
  <2> QED
    BY <2>1 DEF Breaker!IsFiniteSet
<1> QED
  BY <1>1, TradeLoopAssumption DEF Breaker!Unsigned, Breaker!Signed

LEMMA SameBreaker ==
  /\ CB!Inner = Breaker!Inner /\ CB!NewBreaker = Breaker!NewBreaker
  /\ \A b, q : CB!AfterTrade(b, q) = Breaker!AfterTrade(b, q)
<1>1. CB!Inner = Breaker!Inner /\ CB!NewBreaker = Breaker!NewBreaker
  BY DEF CB!Inner, Breaker!Inner, CB!Signed, Breaker!Signed, CB!NewBreaker,
     Breaker!NewBreaker
<1>2. ASSUME NEW b, NEW q PROVE CB!CountTrade(b, q) = Breaker!CountTrade(b, q)
  BY DEF CB!CountTrade, Breaker!CountTrade, CB!Saturate, Breaker!Saturate, CB!AsSigned,
     Breaker!AsSigned, CB!UnsignedAbs, Breaker!UnsignedAbs
<1>3. ASSUME NEW b PROVE CB!TripCondition(b) <=> Breaker!TripCondition(b)
  BY DEF CB!TripCondition, Breaker!TripCondition, CB!NegatedLimit, Breaker!NegatedLimit,
     CB!AsSigned, Breaker!AsSigned
<1> QED
  BY <1>1, <1>2, <1>3 DEF CB!AfterTrade, Breaker!AfterTrade

LEMMA AfterTradeType ==
  ASSUME NEW b \in CB!Inner, NEW q \in Quotes
  PROVE  /\ CB!AfterTrade(b, q) \in CB!Inner
         /\ b.state = "Open" => CB!AfterTrade(b, q).state = "Open"
<1>1. q \in Breaker!Signed /\ b \in Breaker!Inner
  BY BreakerConfigured, SameBreaker
<1>2. /\ Breaker!AfterTrade(b, q) \in Breaker!Inner
      /\ b.state = "Open" => Breaker!AfterTrade(b, q).state = "Open"
  BY <1>1, BreakerConfigured, Breaker!AfterTradeType
<1> QED
  BY <1>2, SameBreaker

LEMMA NewBreakerType == CB!NewBreaker \in CB!Inner /\ CB!NewBreaker.state = "Closed"
BY TradeLoopAssumption DEF CB!NewBreaker, CB!Inner, CB!Signed

-----------------------------------------------------------------------------
(* Routes: named by position alone, so there are as many as there are        *)
(* executable lengths, far fewer than the set of keys holds.                 *)

LEMMA FewRoutes ==
  /\ IsFiniteSet(ExecutableRoutes)
  /\ Cardinality(ExecutableRoutes) <= MaxHops + 1
<1> USE TradeLoopAssumption
<1> DEFINE Lengths == 3 .. MaxHops + 3
           naming == [n \in Lengths |-> Route(n)]
           All == {naming[n] : n \in Lengths}
<1>1. MaxHops \in 2 .. 6
  OBVIOUS
<1>2. 3 \in Int /\ MaxHops + 3 \in Int /\ 3 <= MaxHops + 3
  BY <1>1
<1>3. IsFiniteSet(Lengths) /\ Cardinality(Lengths) = MaxHops + 3 - 3 + 1
  BY <1>2, FS_Interval
<1>4. IsFiniteSet(All) /\ Cardinality(All) <= Cardinality(Lengths)
  <2>1. naming \in Surjection(Lengths, All)
    BY DEF Surjection
  <2> HIDE DEF naming, All, Lengths
  <2> QED
    BY <1>3, <2>1, FS_Surjection
<1>5. ExecutableRoutes \subseteq All
  BY <1>1 DEF ExecutableRoutes, Executable, HasDistinctMints, DexPath
<1>6. /\ IsFiniteSet(ExecutableRoutes)
      /\ Cardinality(ExecutableRoutes) <= Cardinality(All)
  BY <1>4, <1>5, FS_Subset
<1>7. Cardinality(All) \in Nat /\ Cardinality(ExecutableRoutes) \in Nat
  BY <1>4, <1>6, FS_CardinalityType
<1> QED
  BY <1>1, <1>3, <1>4, <1>6, <1>7

\* Booking a free executable route adds one key: the set is never full, so never cleared.
LEMMA RememberAdds ==
  ASSUME Books, NEW p \in Executable, DexPath(p) \notin submitted
  PROVE  /\ Remember(submitted, DexPath(p)) = submitted \cup {DexPath(p)}
         /\ submitted \cup {DexPath(p)} \subseteq ExecutableRoutes
         /\ Cardinality(submitted \cup {DexPath(p)}) = Cardinality(submitted) + 1
<1>1. submitted \subseteq ExecutableRoutes
  BY DEF Books
<1>2. /\ IsFiniteSet(submitted)
      /\ Cardinality(submitted) <= Cardinality(ExecutableRoutes)
  BY <1>1, FewRoutes, FS_Subset
<1>3. Cardinality(submitted) \in Nat /\ Cardinality(ExecutableRoutes) \in Nat
  BY <1>2, FewRoutes, FS_CardinalityType
<1>4. MaxHops \in 2 .. 6
  BY TradeLoopAssumption
<1>5. ~(Cardinality(submitted) >= DedupCapacity)
  BY <1>2, <1>3, <1>4, FewRoutes DEF DedupCapacity
<1>6. Remember(submitted, DexPath(p)) = submitted \cup {DexPath(p)}
  BY <1>5 DEF Remember
<1>7. Cardinality(submitted \cup {DexPath(p)}) = Cardinality(submitted) + 1
  BY <1>2, FS_AddElement
<1> QED
  BY <1>1, <1>6, <1>7 DEF ExecutableRoutes

LEMMA RoutesNotEmpty ==
  ASSUME NEW p \in Paths
  PROVE  DexPath(p) # <<>>
<1>1. Hops[p] \in Nat /\ 2 <= Hops[p]
  BY TradeLoopAssumption
<1>2. DOMAIN DexPath(p) = 1 .. Hops[p]
  BY DEF DexPath, Route
<1>3. 1 \in DOMAIN DexPath(p)
  BY <1>1, <1>2
<1> QED
  BY <1>3

-----------------------------------------------------------------------------
(* The chain.                                                                *)

\* Settling a transaction changes its status and nothing else of any transaction.
LEMMA SettleKeeps ==
  ASSUME TypeOK, NEW i \in DOMAIN sent, NEW outcome \in Status \ {"pending"},
         Settle(i, outcome)
  PROVE  /\ sent' \in Seq(Transaction) /\ wallet' \in Nat
         /\ Len(sent') = Len(sent) /\ DOMAIN sent' = DOMAIN sent
         /\ \A j \in DOMAIN sent :
              /\ sent'[j].path = sent[j].path /\ sent'[j].quote = sent[j].quote
              /\ sent[j].status = "landed" => sent'[j].status = "landed"
<1>1. sent[i] \in Transaction
  BY DEF TypeOK
<1> DEFINE settled == [path |-> sent[i].path, quote |-> sent[i].quote,
                       fee |-> sent[i].fee, status |-> outcome]
<1>2. sent' = [sent EXCEPT ![i] = settled]
  <2> DEFINE tx == sent[i]
             after == [tx EXCEPT !.status = outcome]
  <2>1. sent' = [sent EXCEPT ![i] = after]
    BY DEF Settle
  <2>2. after = settled
    <3>1. tx \in Transaction
      BY <1>1
    <3> HIDE DEF tx
    <3>2. after = [path |-> tx.path, quote |-> tx.quote, fee |-> tx.fee, status |-> outcome]
      BY <3>1 DEF Transaction
    <3> QED
      BY <3>2 DEF tx
  <2> QED
    BY <2>1, <2>2
<1>3. settled \in Transaction /\ settled.path = sent[i].path /\ settled.quote = sent[i].quote
  BY <1>1 DEF Transaction
<1>4. wallet' \in Nat
  <2>1. sent[i].fee \in Nat /\ wallet \in Nat
    BY <1>1, TradeLoopAssumption DEF Transaction, TypeOK
  <2> QED
    BY <2>1 DEF Settle, Status
<1>5. sent[i].status # "landed"
  BY DEF Settle
<1> HIDE DEF settled
<1>6. ASSUME NEW j \in DOMAIN sent
      PROVE  sent'[j] = IF j = i THEN settled ELSE sent[j]
  BY <1>2 DEF TypeOK
<1> QED
  BY <1>2, <1>3, <1>4, <1>5, <1>6 DEF TypeOK

LEMMA AcceptAdds ==
  ASSUME TypeOK, trade \in Paths, order \in Orders, Accept
  PROVE  /\ sent' \in Seq(Transaction)
         /\ Len(sent') = Len(sent) + 1 /\ Len(sent) \in Nat
         /\ sent'[Len(sent')].path = trade /\ sent'[Len(sent')].quote = order.quote
         /\ \A j \in DOMAIN sent : j \in DOMAIN sent' /\ sent'[j] = sent[j]
<1> DEFINE tx == [path |-> trade, quote |-> order.quote, fee |-> order.fee,
                  status |-> "pending"]
<1>1. tx \in Transaction /\ tx.path = trade /\ tx.quote = order.quote
  BY DEF Transaction, Orders, Status
<1>2. sent' = Append(sent, tx)
  BY DEF Accept
<1> HIDE DEF tx
<1> QED
  BY <1>1, <1>2 DEF TypeOK

\* What the books read of the chain: paths, quotes, and that what landed stays landed.
ChainKept ==
  \A j \in DOMAIN sent : /\ j \in DOMAIN sent'
                         /\ sent'[j].path = sent[j].path /\ sent'[j].quote = sent[j].quote
                         /\ sent[j].status = "landed" => sent'[j].status = "landed"

LEMMA BooksFrame ==
  ASSUME TypeOK, Books, InOrder, UNCHANGED <<submitted, booked>>, ChainKept
  PROVE  Books' /\ InOrder' /\ Quoted' = Quoted
<1>1. ASSUME NEW k \in DOMAIN booked
      PROVE  /\ booked[k] \in DOMAIN sent'
             /\ sent'[booked[k]].path = sent[booked[k]].path
             /\ sent'[booked[k]].quote = sent[booked[k]].quote
             /\ sent[booked[k]].status = "landed" => sent'[booked[k]].status = "landed"
  <2>1. booked[k] \in DOMAIN sent
    BY <1>1 DEF Books
  <2> QED
    BY <2>1 DEF ChainKept
<1>2. Books'
  <2>1. ExecutableRoutes' = ExecutableRoutes
    BY DEF ExecutableRoutes, Executable, HasDistinctMints, DexPath
  <2>2. {DexPath(sent'[booked[k]].path) : k \in DOMAIN booked}
          = {DexPath(sent[booked[k]].path) : k \in DOMAIN booked}
    BY <1>1
  <2> QED
    BY <1>1, <2>1, <2>2 DEF Books, DexPath
<1>3. InOrder'
  BY <1>1 DEF InOrder
<1>4. Quoted' = Quoted
  <2>1. DOMAIN booked = 1 .. Len(booked) /\ booked' = booked
    <3>1. booked \in Seq(Nat)
      BY Zenon DEF TypeOK
    <3> QED
      BY <3>1
  <2> DEFINE before(k) == sent[booked[k]].quote
             after(k) == sent'[booked[k]].quote
  <2>2. \A k \in 1 .. Len(booked) : after(k) = before(k)
    BY <1>1, <2>1
  <2>3. Quoted' = [k \in 1 .. Len(booked) |-> after(k)]
    BY <2>1 DEF Quoted
  <2>4. Quoted = [k \in 1 .. Len(booked) |-> before(k)]
    BY Zenon DEF Quoted
  <2> HIDE DEF before, after
  <2> QED
    BY <2>2, <2>3, <2>4
<1> QED
  BY <1>2, <1>3, <1>4

\* Booking the last transaction sent adds its route and its index.
LEMMA BookingKeepsBooks ==
  ASSUME TypeOK, Books, Len(sent) > 0, UNCHANGED sent,
         NEW p \in Executable, p = sent[Len(sent)].path, DexPath(p) \notin submitted,
         submitted' = Remember(submitted, DexPath(p)),
         booked' = Append(booked, Len(sent))
  PROVE  Books'
<1>1. booked \in Seq(Nat) /\ Len(sent) \in DOMAIN sent
  BY DEF TypeOK
<1>2. /\ submitted' = submitted \cup {DexPath(p)}
      /\ submitted' \subseteq ExecutableRoutes
      /\ Cardinality(submitted') = Cardinality(submitted) + 1
  BY RememberAdds
<1>3. /\ DOMAIN booked' = DOMAIN booked \cup {Len(booked) + 1}
      /\ booked'[Len(booked) + 1] = Len(sent)
      /\ \A k \in DOMAIN booked : booked'[k] = booked[k]
      /\ Len(booked') = Len(booked) + 1
  BY <1>1
<1>4. \A k \in DOMAIN booked' : booked'[k] \in DOMAIN sent'
  BY <1>1, <1>3 DEF Books
<1>5. submitted' = {DexPath(sent'[booked'[k]].path) : k \in DOMAIN booked'}
  <2>1. {DexPath(sent'[booked'[k]].path) : k \in DOMAIN booked'}
          = {DexPath(sent[booked[k]].path) : k \in DOMAIN booked} \cup {DexPath(p)}
    BY <1>3
  <2> QED
    BY <1>2, <2>1 DEF Books
<1>6. Cardinality(submitted') = Len(booked')
  BY <1>2, <1>3 DEF Books
<1> QED
  BY <1>2, <1>4, <1>5, <1>6
     DEF Books, ExecutableRoutes, Executable, HasDistinctMints, DexPath

\* It is later in the chain than every transaction booked before it.
LEMMA BookingKeepsOrder ==
  ASSUME TypeOK, InOrder, UNCHANGED sent, sent[Len(sent)].status = "landed",
         \A k \in DOMAIN booked : booked[k] < Len(sent),
         booked' = Append(booked, Len(sent))
  PROVE  InOrder' /\ Quoted' = Append(Quoted, sent[Len(sent)].quote)
<1>1. booked \in Seq(Nat) /\ Len(booked) \in Nat /\ Len(sent) \in Nat
  BY DEF TypeOK
<1>2. /\ DOMAIN booked' = 1 .. Len(booked) + 1 /\ DOMAIN booked = 1 .. Len(booked)
      /\ booked'[Len(booked) + 1] = Len(sent)
      /\ \A k \in 1 .. Len(booked) : booked'[k] = booked[k]
      /\ Len(booked') = Len(booked) + 1
  BY <1>1
<1>3. ASSUME NEW k \in DOMAIN booked'
      PROVE  /\ sent[booked'[k]].status = "landed"
             /\ \A j \in 1 .. k - 1 : booked'[j] < booked'[k]
  <2>1. \A j \in 1 .. k - 1 : j \in 1 .. Len(booked)
    BY <1>1, <1>2, <1>3
  <2>2. CASE k = Len(booked) + 1
    BY <1>2, <2>1, <2>2
  <2>3. CASE k # Len(booked) + 1
    <3>1. k \in 1 .. Len(booked)
      BY <1>1, <1>2, <2>3
    <3> QED
      BY <1>2, <2>1, <3>1 DEF InOrder
  <2> QED
    BY <2>2, <2>3
<1>4. InOrder'
  BY <1>3 DEF InOrder
<1>5. Quoted' = Append(Quoted, sent[Len(sent)].quote)
  <2> DEFINE last == sent[Len(sent)].quote
  <2>1. Len(Quoted) = Len(booked)
    BY <1>1 DEF Quoted
  <2>2. Quoted' = [k \in 1 .. Len(booked) + 1 |-> sent[booked'[k]].quote]
    BY <1>2 DEF Quoted
  <2>3. \A k \in 1 .. Len(booked) + 1 :
          sent[booked'[k]].quote = IF k = Len(booked) + 1 THEN last ELSE Quoted[k]
    BY <1>1, <1>2 DEF Quoted
  <2>4. Append(Quoted, last)
          = [k \in 1 .. Len(booked) + 1 |-> IF k = Len(booked) + 1 THEN last ELSE Quoted[k]]
    BY <2>1
  <2> HIDE DEF last
  <2> QED
    BY <2>2, <2>3, <2>4 DEF last
<1> QED
  BY <1>4, <1>5

-----------------------------------------------------------------------------
LEMMA InitInv == Init => IInv
<1> SUFFICES ASSUME Init PROVE IInv
  OBVIOUS
<1>1. TypeOK
  BY NewBreakerType, TradeLoopAssumption DEF Init, TypeOK
<1>2. Stage /\ InFlight
  BY DEF Init, Stage, InFlight, InTrade
<1>3. Books /\ InOrder
  BY FS_EmptySet DEF Init, Books, InOrder
<1> QED
  BY <1>1, <1>2, <1>3 DEF IInv

LEMMA NextInv == IInv /\ [Next]_vars => IInv'
<1> SUFFICES ASSUME IInv, [Next]_vars PROVE IInv'
  OBVIOUS
<1> USE DEF Executable, InTrade
<1>0. TypeOK /\ Stage /\ InFlight /\ Books /\ InOrder
  BY DEF IInv
<1>q. ASSUME UNCHANGED <<sent, submitted, booked>> PROVE Books' /\ InOrder'
  BY <1>0, <1>q, BooksFrame DEF ChainKept
<1>1. CASE AbsorbPrices \/ BeginCycle \/ NothingApproved
  <2> USE <1>1 DEF AbsorbPrices, BeginCycle, NothingApproved, Continue, chainVars
  <2>1. TypeOK'
    BY <1>0, TradeLoopAssumption DEF TypeOK, MaybeOptimize
  <2>2. Stage' /\ InFlight'
    BY <1>0 DEF Stage, InFlight, CB!AllowsTrade
  <2>3. Books' /\ InOrder'
    BY <1>q
  <2> QED
    BY <2>1, <2>2, <2>3 DEF IInv
<1>2. ASSUME NEW p \in Paths, DropBest(p) \/ RejectBest(p) \/ SelectBest(p)
      PROVE  IInv'
  <2> USE <1>2 DEF DropBest, RejectBest, SelectBest, Selectable, Continue, chainVars
  <2>1. TypeOK'
    BY <1>0 DEF TypeOK
  <2>2. Stage' /\ InFlight'
    BY <1>0 DEF Stage, InFlight, DexPath
  <2>3. Books' /\ InOrder'
    BY <1>q
  <2> QED
    BY <2>1, <2>2, <2>3 DEF IInv
<1>3. CASE ReadBalance \/ BalanceRefused \/ SimulateAndSign
  <2> USE <1>3 DEF ReadBalance, BalanceRefused, SimulateAndSign, Continue, chainVars
  <2>1. TypeOK'
    BY <1>0 DEF TypeOK
  <2>2. Stage' /\ InFlight'
    BY <1>0 DEF Stage, InFlight, DexPath
  <2>3. Books' /\ InOrder'
    BY <1>q
  <2> QED
    BY <2>1, <2>2, <2>3 DEF IInv
<1>4. ASSUME NEW o \in Orders, ReceiveOrder(o) \/ OrderUnaffordable(o)
      PROVE  IInv'
  <2> USE <1>4 DEF ReceiveOrder, OrderUnaffordable, Continue, chainVars
  <2>1. TypeOK'
    BY <1>0 DEF TypeOK
  <2>2. Stage' /\ InFlight'
    BY <1>0 DEF Stage, InFlight, DexPath
  <2>3. Books' /\ InOrder'
    BY <1>q
  <2> QED
    BY <2>1, <2>2, <2>3 DEF IInv
<1>5. CASE StageFailed \/ NotConfirmed
  <2> USE <1>5 DEF StageFailed, NotConfirmed, Continue, RecordOutcome, chainVars
  <2>1. TypeOK'
    BY <1>0, TradeLoopAssumption DEF TypeOK, MaybeOptimize
  <2>2. Stage' /\ InFlight'
    BY <1>0 DEF Stage, InFlight, DexPath
  <2>3. Books' /\ InOrder'
    BY <1>q
  <2> QED
    BY <2>1, <2>2, <2>3 DEF IInv
<1>6. CASE Send \/ SendReplyLost
  <2> USE <1>6 DEF Send, SendReplyLost, Continue, RecordOutcome
  <2>1. trade \in Paths /\ order \in Orders /\ Accept
    BY <1>0 DEF Stage
  <2>2. /\ sent' \in Seq(Transaction)
        /\ Len(sent') = Len(sent) + 1 /\ Len(sent) \in Nat
        /\ sent'[Len(sent')].path = trade /\ sent'[Len(sent')].quote = order.quote
        /\ \A j \in DOMAIN sent : j \in DOMAIN sent' /\ sent'[j] = sent[j]
    BY <1>0, <2>1, AcceptAdds
  <2>3. TypeOK'
    BY <1>0, <2>1, <2>2 DEF TypeOK, Accept
  <2>4. Stage'
    BY <1>0, <2>1 DEF Stage, DexPath
  <2>5. InFlight'
    <3>1. \A k \in DOMAIN booked : booked[k] \in DOMAIN sent
      BY <1>0 DEF Books
    <3>2. \A k \in DOMAIN booked : booked[k] < Len(sent')
      BY <1>0, <2>2, <3>1 DEF TypeOK
    <3> QED
      BY <2>1, <2>2, <3>2 DEF InFlight
  <2>6. Books' /\ InOrder'
    BY <1>0, <2>2, BooksFrame DEF ChainKept
  <2> QED
    BY <2>3, <2>4, <2>5, <2>6 DEF IInv
<1>7. CASE Confirmed
  <2> USE <1>7 DEF Confirmed, RecordOutcome, chainVars
  <2>1. /\ trade \in Executable /\ DexPath(trade) \notin submitted
        /\ order \in Orders /\ Len(sent) > 0 /\ sent[Len(sent)].path = trade
    BY <1>0 DEF Stage, InFlight
  <2>2. Books' /\ InOrder'
    <3>1. Books'
      BY <1>0, <2>1, BookingKeepsBooks
    <3>2. InOrder'
      BY <1>0, BookingKeepsOrder DEF InFlight, IsConfirmed
    <3> QED
      BY <3>1, <3>2
  <2>3. order.quote \in Quotes /\ order.quote \in Int
    <3>1. order.quote \in Quotes
      BY <2>1 DEF Orders
    <3>2. Quotes \subseteq Int
      BY TradeLoopAssumption
    <3> QED
      BY <3>1, <3>2
  <2>4. breaker' \in CB!Inner
    BY <1>0, <2>3, AfterTradeType DEF TypeOK
  <2>5. submitted' \subseteq {DexPath(p) : p \in Paths}
    BY <2>2 DEF Books, ExecutableRoutes, HasDistinctMints, DexPath
  <2>6. booked' \in Seq(Nat) /\ evaluated' \in Nat /\ pnl' \in Int
    BY <1>0, <2>3, TradeLoopAssumption DEF TypeOK, MaybeOptimize
  <2>7. TypeOK'
    BY <1>0, <2>4, <2>5, <2>6 DEF TypeOK, DexPath
  <2>8. Stage' /\ InFlight'
    BY DEF Stage, InFlight
  <2> QED
    BY <2>2, <2>7, <2>8 DEF IInv
<1>8. CASE CooldownElapses
  <2> USE <1>8 DEF CooldownElapses, chainVars
  <2>1. TypeOK'
    BY <1>0 DEF TypeOK
  <2>2. Stage' /\ InFlight'
    BY <1>0 DEF Stage, InFlight, DexPath
  <2>3. Books' /\ InOrder'
    BY <1>q
  <2> QED
    BY <2>1, <2>2, <2>3 DEF IInv
<1>9. CASE Chain
  <2> PICK i \in DOMAIN sent, outcome \in Status \ {"pending"} : Settle(i, outcome)
    BY <1>9 DEF Chain
  <2>1. /\ sent' \in Seq(Transaction) /\ wallet' \in Nat
        /\ Len(sent') = Len(sent) /\ DOMAIN sent' = DOMAIN sent
        /\ ChainKept
    BY <1>0, SettleKeeps DEF ChainKept
  <2>2. UNCHANGED loopVars
    BY DEF Settle
  <2>3. TypeOK'
    BY <1>0, <2>1, <2>2 DEF TypeOK, loopVars
  <2>4. Stage'
    BY <1>0, <2>2 DEF Stage, loopVars, DexPath
  <2>5. InFlight'
    <3>1. pc = "confirm" => Len(sent) \in DOMAIN sent
      BY <1>0 DEF TypeOK, InFlight
    <3> QED
      BY <1>0, <2>1, <2>2, <3>1 DEF InFlight, ChainKept, loopVars
  <2>6. Books' /\ InOrder'
    BY <1>0, <2>1, <2>2, BooksFrame DEF loopVars
  <2> QED
    BY <2>3, <2>4, <2>5, <2>6 DEF IInv
<1>10. CASE UNCHANGED vars
  <2> USE <1>10 DEF vars, loopVars, chainVars
  <2>1. TypeOK'
    BY <1>0 DEF TypeOK
  <2>2. Stage' /\ InFlight'
    BY <1>0 DEF Stage, InFlight, DexPath
  <2>3. Books' /\ InOrder'
    BY <1>q
  <2> QED
    BY <2>1, <2>2, <2>3 DEF IInv
<1> QED
  BY <1>1, <1>2, <1>3, <1>4, <1>5, <1>6, <1>7, <1>8, <1>9, <1>10
     DEF Next, Loop, Select, Execute

LEMMA Inductive == Spec => []IInv
<1>1. Init => IInv
  BY InitInv
<1>2. IInv /\ [Next]_vars => IInv'
  BY NextInv
<1> QED
  BY <1>1, <1>2, PTL DEF Spec

-----------------------------------------------------------------------------
\* Every variable of the loop keeps its type: in particular the node's wallet never goes
\* below zero and the breaker's counters stay in the range of their integers.
THEOREM TypeCorrect == Spec => []TypeOK
<1>1. IInv => TypeOK
  BY DEF IInv
<1> QED
  BY <1>1, Inductive, PTL

\* For any paths and any market, the deduplication set is the routes of the booked trades,
\* and main.rs books at most max_hops + 1 trades in a session.
THEOREM BooksOncePerRoute == Spec => []OneBookingPerRoute
<1>1. IInv => OneBookingPerRoute
  <2> SUFFICES ASSUME IInv PROVE OneBookingPerRoute
    OBVIOUS
  <2>1. Books /\ booked \in Seq(Nat)
    BY DEF IInv, TypeOK
  <2>2. IsFiniteSet(submitted) /\ Cardinality(submitted) <= Cardinality(ExecutableRoutes)
    BY <2>1, FewRoutes, FS_Subset DEF Books
  <2>3. Cardinality(submitted) \in Nat /\ Cardinality(ExecutableRoutes) \in Nat
    BY <2>2, FewRoutes, FS_CardinalityType
  <2>4. MaxHops \in 2 .. 6
    BY TradeLoopAssumption
  <2>5. Cardinality(submitted) <= MaxHops + 1
    BY <2>2, <2>3, <2>4, FewRoutes
  <2> QED
    BY <2>1, <2>5 DEF Books, OneBookingPerRoute
<1> QED
  BY <1>1, Inductive, PTL

\* Only the two actions that hand a transaction to the node send, and at the stage "send".
LEMMA OnlySendSends ==
  ASSUME IInv, [Next]_vars, Sends
  PROVE  /\ pc = "send" /\ Accept
         /\ UNCHANGED <<submitted, booked, breaker>>
<1> USE DEF Sends
<1>0. TypeOK /\ Len(sent) \in Nat
  BY DEF IInv, TypeOK
<1>1. CASE Send \/ SendReplyLost
  BY <1>1 DEF Send, SendReplyLost, Continue
<1>2. CASE Chain
  <2> PICK i \in DOMAIN sent, outcome \in Status \ {"pending"} : Settle(i, outcome)
    BY <1>2 DEF Chain
  <2>1. Len(sent') = Len(sent)
    BY <1>0, SettleKeeps
  <2> QED
    BY <1>0, <2>1
<1>3. CASE UNCHANGED sent
  BY <1>0, <1>3
<1> QED
  BY <1>1, <1>2, <1>3 DEF Next, Loop, Select, Execute, AbsorbPrices, BeginCycle,
     NothingApproved, DropBest, RejectBest, SelectBest, Selectable, ReadBalance,
     BalanceRefused, ReceiveOrder, OrderUnaffordable, StageFailed, SimulateAndSign,
     Confirmed, NotConfirmed, CooldownElapses, Continue, vars, chainVars

\* An open breaker stays open and stops every send, including that of a cycle in progress:
\* no cycle is in progress while it is open, for only this loop records trades.
THEOREM QuietAfterTrip == Spec => NothingSentAfterTrip
<1>1. ASSUME IInv, [Next]_vars, breaker.state = "Open"
      PROVE  ~Sends /\ breaker'.state = "Open"
  <2>1. pc = "top" /\ TypeOK
    BY <1>1 DEF IInv, Stage
  <2>2. ~Sends
    BY <1>1, <2>1, OnlySendSends
  <2>3. breaker' = breaker
    BY <1>1, <2>1 DEF Next, Loop, Select, Execute, AbsorbPrices, BeginCycle,
       NothingApproved, DropBest, RejectBest, SelectBest, Selectable, ReadBalance,
       BalanceRefused, ReceiveOrder, OrderUnaffordable, StageFailed, SimulateAndSign, Send,
       SendReplyLost, Confirmed, NotConfirmed, CooldownElapses, Chain, Settle, loopVars,
       vars
  <2> QED
    BY <1>1, <2>2, <2>3
<1>2. IInv /\ [Next]_vars => [breaker.state = "Open" => ~Sends /\ breaker'.state = "Open"]_vars
  BY <1>1
<1> QED
  BY <1>2, Inductive, PTL DEF Spec, NothingSentAfterTrip

\* The route of a booked trade is never sent again, for the rest of the session.
THEOREM NeverResent == Spec => BookedRouteNotResent
<1> DEFINE Fresh == \A k \in DOMAIN booked :
                      DexPath(sent'[Len(sent')].path) # DexPath(sent[booked[k]].path)
<1>1. ASSUME IInv, [Next]_vars, Sends PROVE Fresh
  <2>1. pc = "send" /\ Accept /\ TypeOK /\ Stage /\ Books
    BY <1>1, OnlySendSends DEF IInv
  <2>2. trade \in Paths /\ order \in Orders /\ DexPath(trade) \notin submitted
    BY <2>1 DEF Stage, InTrade, Executable
  <2>3. sent'[Len(sent')].path = trade
    BY <2>1, <2>2, AcceptAdds
  <2>4. \A k \in DOMAIN booked : DexPath(sent[booked[k]].path) \in submitted
    BY <2>1 DEF Books
  <2> QED
    BY <2>2, <2>3, <2>4
<1>2. IInv /\ [Next]_vars => [Sends => Fresh]_vars
  BY <1>1
<1> QED
  BY <1>2, Inductive, PTL DEF Spec, BookedRouteNotResent

\* A send finds the cooldown over, and the cycle that sent, booked or not, starts it anew.
THEOREM Paced == Spec => SendsArePaced
<1> DEFINE Pace == /\ Sends => cooldown = "over"
                   /\ (Sends \/ pc = "confirm") /\ pc' = "top" => cooldown' = "running"
<1>1. ASSUME IInv, [Next]_vars PROVE Pace
  <2>1. Sends => cooldown = "over"
    BY <1>1, OnlySendSends DEF IInv, Stage, InTrade
  <2>2. ASSUME pc \in {"send", "confirm"}, pc' = "top" PROVE cooldown' = "running"
    BY <1>1, <2>2 DEF Next, Loop, Select, Execute, AbsorbPrices, BeginCycle,
       NothingApproved, DropBest, RejectBest, SelectBest, Selectable, ReadBalance,
       BalanceRefused, ReceiveOrder, OrderUnaffordable, StageFailed, SimulateAndSign, Send,
       SendReplyLost, Confirmed, NotConfirmed, CooldownElapses, RecordOutcome,
       Chain, Settle, loopVars, vars
  <2> QED
    BY <1>1, <2>1, <2>2, OnlySendSends
<1>2. IInv /\ [Next]_vars => [Pace]_vars
  BY <1>1
<1> QED
  BY <1>2, Inductive, PTL DEF Spec, SendsArePaced

-----------------------------------------------------------------------------
(* The books and the breaker.                                                *)

\* The booked quotes, P&L and the breaker move together, and only on a confirmation.
LEMMA QuotedStep ==
  ASSUME IInv, [Next]_vars
  PROVE  \/ UNCHANGED <<breaker, pnl, Quoted>>
         \/ /\ order.quote \in Quotes
            /\ Quoted' = Append(Quoted, order.quote)
            /\ pnl' = pnl + order.quote
            /\ breaker' = CB!AfterTrade(breaker, order.quote)
<1>0. TypeOK /\ Stage /\ InFlight /\ Books /\ InOrder
  BY DEF IInv
<1>1. CASE Confirmed
  <2>1. order.quote \in Quotes
    BY <1>0, <1>1 DEF Confirmed, Stage, InTrade, Orders
  <2>2. Quoted' = Append(Quoted, order.quote)
    BY <1>0, <1>1, BookingKeepsOrder DEF Confirmed, InFlight, IsConfirmed, chainVars
  <2> QED
    BY <1>1, <2>1, <2>2 DEF Confirmed
<1>2. CASE Send \/ SendReplyLost
  <2>1. trade \in Paths /\ order \in Orders /\ Accept
    BY <1>0, <1>2 DEF Stage, InTrade, Executable, Send, SendReplyLost
  <2>2. ChainKept
    BY <1>0, <2>1, AcceptAdds DEF ChainKept
  <2>3. UNCHANGED <<breaker, pnl, booked, submitted>>
    BY <1>2 DEF Send, SendReplyLost, Continue
  <2> QED
    BY <1>0, <2>2, <2>3, BooksFrame
<1>3. CASE Chain
  <2> PICK i \in DOMAIN sent, outcome \in Status \ {"pending"} : Settle(i, outcome)
    BY <1>3 DEF Chain
  <2>1. ChainKept
    BY <1>0, SettleKeeps DEF ChainKept
  <2>2. UNCHANGED <<breaker, pnl, booked, submitted>>
    BY DEF Settle, loopVars
  <2> QED
    BY <1>0, <2>1, <2>2, BooksFrame
<1>4. CASE UNCHANGED <<sent, booked, breaker, pnl>>
  BY <1>4 DEF Quoted
<1> QED
  BY <1>1, <1>2, <1>3, <1>4 DEF Next, Loop, Select, Execute, AbsorbPrices, BeginCycle,
     NothingApproved, DropBest, RejectBest, SelectBest, Selectable, ReadBalance,
     BalanceRefused, ReceiveOrder, OrderUnaffordable, StageFailed, SimulateAndSign,
     NotConfirmed, CooldownElapses, Continue, vars, loopVars, chainVars

LEMMA QuotedType ==
  ASSUME IInv
  PROVE  Quoted \in Seq(Quotes)
<1>1. booked \in Seq(Nat) /\ sent \in Seq(Transaction)
  BY DEF IInv, TypeOK
<1>2. ASSUME NEW k \in 1 .. Len(booked) PROVE sent[booked[k]].quote \in Quotes
  <2>1. booked[k] \in DOMAIN sent
    BY <1>1 DEF IInv, Books
  <2>2. sent[booked[k]] \in Transaction
    BY <1>1, <2>1
  <2> QED
    BY <2>2 DEF Transaction
<1>3. Quoted \in [1 .. Len(booked) -> Quotes] /\ Len(booked) \in Nat
  BY <1>1, <1>2 DEF Quoted
<1> QED
  BY <1>3

LEMMA NothingQuoted == Init => Quoted = <<>>
BY DEF Init, Quoted

LEMMA TotalIsSum ==
  ASSUME NEW h
  PROVE  Total(h) = Breaker!Sum(h)[Len(h)]
BY DEF Total, Breaker!Sum

LEMMA EmptyTotal == Total(<<>>) = 0
BY TotalIsSum, BreakerConfigured, Breaker!SumEquation

\* An amount more adds itself to the total.
LEMMA TotalAppends ==
  ASSUME NEW h \in Seq(Quotes), NEW q \in Quotes
  PROVE  Total(Append(h, q)) = Total(h) + q
<1> DEFINE g == Append(h, q)
           n == Len(h)
<1>1. n \in Nat /\ Len(g) = n + 1 /\ g[n + 1] = q /\ \A i \in 1 .. n : g[i] = h[i]
  OBVIOUS
<1> HIDE DEF g
<1>2. Breaker!Sum(g)[n] = Breaker!Sum(h)[n]
  BY <1>1, BreakerConfigured, Breaker!SumsAgree
<1>3. Breaker!Sum(g)[n + 1] = Breaker!Sum(g)[n] + g[n + 1]
  BY <1>1, BreakerConfigured, Breaker!SumEquation
<1>4. Total(g) = Total(h) + q
  BY <1>1, <1>2, <1>3, TotalIsSum
<1> QED
  BY <1>4 DEF g

\* Whatever the market and the chain do, the session's books are what happened: each entry
\* landed, none is twice in them, and P&L is the sum of what the entries quoted.
THEOREM BooksAreSound == Spec => []BooksSound
<1> DEFINE Ledger == pnl = Total(Quoted)
<1>1. Init => Ledger
  BY NothingQuoted, EmptyTotal DEF Init
<1>2. ASSUME Ledger, IInv, [Next]_vars PROVE Ledger'
  <2>1. CASE UNCHANGED <<pnl, Quoted>>
    BY <1>2, <2>1
  <2>2. CASE /\ order.quote \in Quotes /\ Quoted' = Append(Quoted, order.quote)
             /\ pnl' = pnl + order.quote
    BY <1>2, <2>2, QuotedType, TotalAppends
  <2> QED
    BY <1>2, <2>1, <2>2, QuotedStep
<1>3. IInv /\ Ledger => BooksSound
  BY DEF IInv, Books, InOrder, BooksSound
<1> QED
  BY Inductive, <1>1, <1>2, <1>3, PTL DEF Spec

\* With limits and quotes that `as i64` leaves alone, main.rs stops trading exactly when
\* the trades it booked have reached one of the breaker's limits.
THEOREM HaltsAtTheLimit ==
  (Threshold < Half /\ -Half \notin Quotes) => (Spec => []HaltedIffBooksReachLimit)
<1> SUFFICES ASSUME Threshold < Half, -Half \notin Quotes
             PROVE  Spec => []HaltedIffBooksReachLimit
  OBVIOUS
<1> DEFINE Summary == Breaker!Summarises(breaker, Quoted)
<1>1. Init => Summary
  <2>1. Breaker!Summarises(Breaker!NewBreaker, <<>>)
    BY BreakerConfigured, Breaker!NewSummarises
  <2> QED
    BY <2>1, NothingQuoted, SameBreaker DEF Init
<1>2. ASSUME Summary, IInv, [Next]_vars PROVE Summary'
  <2>1. CASE UNCHANGED <<breaker, Quoted>>
    BY <1>2, <2>1
  <2>2. CASE /\ order.quote \in Quotes /\ Quoted' = Append(Quoted, order.quote)
             /\ breaker' = CB!AfterTrade(breaker, order.quote)
    <3>1. Breaker!Convertible
      BY DEF Breaker!Convertible
    <3>2. Quoted \in Seq(Quotes) /\ breaker \in Breaker!Inner
      BY <1>2, QuotedType, SameBreaker DEF IInv, TypeOK
    <3>3. Breaker!Summarises(Breaker!AfterTrade(breaker, order.quote),
                             Append(Quoted, order.quote))
      BY <1>2, <2>2, <3>1, <3>2, BreakerConfigured, Breaker!RecordSummarises
    <3>4. breaker' = Breaker!AfterTrade(breaker, order.quote)
      BY <2>2, SameBreaker
    <3> QED
      BY <2>2, <3>3, <3>4
  <2> QED
    BY <1>2, <2>1, <2>2, QuotedStep
<1>3. Summary => HaltedIffBooksReachLimit
  <2>1. Summary => Breaker!OpenIffLimitReached
    BY BreakerConfigured, Breaker!SummaryDecides
  <2>2. Breaker!OpenIffLimitReached <=> CB!OpenIffLimitReached
    BY DEF Breaker!OpenIffLimitReached, CB!OpenIffLimitReached, Breaker!LosingRun,
       CB!LosingRun, Breaker!LossSum, CB!LossSum
  <2> QED
    BY <2>1, <2>2 DEF HaltedIffBooksReachLimit
<1> QED
  BY Inductive, <1>1, <1>2, <1>3, PTL DEF Spec

-----------------------------------------------------------------------------
(* The desk.                                                                 *)

LEMMA DeskInit == Init => Desk!Init
BY NewBreakerType DEF Init, Desk!Init

\* Every step of the loop is a step of the desk, or one the desk does not see.
LEMMA DeskStep == IInv /\ [Next]_vars => [Desk!Next]_Desk!vars
<1> SUFFICES ASSUME IInv, [Next]_vars PROVE Desk!Next \/ UNCHANGED Desk!vars
  BY DEF Desk!vars
<1> USE DEF Executable, InTrade
<1>0. TypeOK /\ Stage /\ InFlight /\ Books
  BY DEF IInv
<1>n. NoTrade \notin Paths
  BY TradeLoopAssumption
<1>1. CASE AbsorbPrices \/ CooldownElapses \/ ReadBalance \/ SimulateAndSign
  BY <1>0, <1>1 DEF AbsorbPrices, CooldownElapses, ReadBalance, SimulateAndSign, chainVars,
     Desk!vars, DexPath
<1>2. CASE BeginCycle
  BY <1>0, <1>2 DEF BeginCycle, chainVars, CB!AllowsTrade, Desk!Next, Desk!Begin, DexPath
<1>g. ASSUME pc # "top", Continue, UNCHANGED sent PROVE Desk!GiveUp
  <2>1. pc' = "top" /\ trade' = NoTrade /\ UNCHANGED <<submitted, breaker>>
    BY <1>g DEF Continue
  <2> QED
    BY <1>g, <2>1 DEF Desk!GiveUp
<1>3. CASE NothingApproved \/ BalanceRefused \/ StageFailed \/ NotConfirmed
  <2>1. pc # "top" /\ Continue /\ UNCHANGED sent
    BY <1>3 DEF NothingApproved, BalanceRefused, StageFailed, NotConfirmed, chainVars
  <2> QED
    BY <2>1, <1>g DEF Desk!Next
<1>4. ASSUME NEW p \in Paths, DropBest(p) \/ RejectBest(p) PROVE Desk!Next
  <2>1. pc # "top" /\ Continue /\ UNCHANGED sent
    BY <1>4 DEF DropBest, RejectBest, Selectable, chainVars
  <2> QED
    BY <2>1, <1>g DEF Desk!Next
<1>5. ASSUME NEW p \in Paths, SelectBest(p) PROVE Desk!Next
  <2>1. /\ pc = "evaluate" /\ pc' = "balance" /\ trade = NoTrade /\ trade' = p
        /\ DexPath(p) \notin submitted /\ UNCHANGED <<submitted, breaker, sent>>
    BY <1>0, <1>5 DEF SelectBest, Selectable, Stage, chainVars
  <2>2. Desk!Choose(DexPath(p))
    BY <1>n, <2>1 DEF Desk!Choose, DexPath
  <2> QED
    BY <2>2 DEF Desk!Next
<1>6. ASSUME NEW o \in Orders, ReceiveOrder(o) \/ OrderUnaffordable(o)
      PROVE  Desk!Next \/ UNCHANGED Desk!vars
  <2>1. CASE ReceiveOrder(o)
    BY <2>1 DEF ReceiveOrder, chainVars, Desk!vars, DexPath
  <2>2. CASE OrderUnaffordable(o)
    <3>1. pc # "top" /\ Continue /\ UNCHANGED sent
      BY <2>2 DEF OrderUnaffordable, chainVars
    <3> QED
      BY <3>1, <1>g DEF Desk!Next
  <2> QED
    BY <1>6, <2>1, <2>2
<1>7. CASE Send \/ SendReplyLost
  <2>1. /\ pc = "send" /\ Accept /\ trade \in Paths /\ order \in Orders
    BY <1>0, <1>7 DEF Send, SendReplyLost, Stage
  <2>2. Len(sent') = Len(sent) + 1
    BY <1>0, <2>1, AcceptAdds
  <2>3. trade # NoTrade /\ DexPath(trade) # <<>>
    BY <1>n, <2>1, RoutesNotEmpty
  <2>4. CASE Send
    BY <2>1, <2>2, <2>3, <2>4 DEF Send, Desk!Next, Desk!Submit, DexPath
  <2>5. CASE SendReplyLost
    <3>1. pc' = "top" /\ trade' = NoTrade /\ UNCHANGED <<submitted, breaker>>
      BY <2>5 DEF SendReplyLost, Continue
    <3> QED
      BY <2>1, <2>2, <2>3, <3>1 DEF Desk!Next, Desk!GiveUp
  <2> QED
    BY <1>7, <2>4, <2>5
<1>8. CASE Confirmed
  <2>1. pc = "confirm" /\ trade \in Executable /\ DexPath(trade) \notin submitted
    BY <1>0, <1>8 DEF Confirmed, Stage
  <2>2. submitted' = submitted \cup {DexPath(trade)}
    BY <1>0, <1>8, <2>1, RememberAdds DEF Confirmed
  <2>3. pc' = "top" /\ trade' = NoTrade /\ UNCHANGED sent
    BY <1>8 DEF Confirmed, chainVars
  <2> QED
    BY <1>n, <2>1, <2>2, <2>3 DEF Desk!Next, Desk!Book
<1>9. CASE Chain
  <2> PICK i \in DOMAIN sent, outcome \in Status \ {"pending"} : Settle(i, outcome)
    BY <1>9 DEF Chain
  <2>1. Len(sent') = Len(sent) /\ UNCHANGED loopVars
    BY <1>0, SettleKeeps DEF Settle
  <2> QED
    BY <2>1 DEF loopVars, Desk!vars, DexPath
<1>10. CASE UNCHANGED vars
  BY <1>10 DEF vars, loopVars, chainVars, Desk!vars, DexPath
<1> QED
  BY <1>1, <1>2, <1>3, <1>4, <1>5, <1>6, <1>7, <1>8, <1>9, <1>10
     DEF Next, Loop, Select, Execute

\* The hot loop of main.rs implements the desk: one trade at a time, no route booked twice
\* or sent after its booking, nothing begun or sent after a halt.
THEOREM ImplementsDesk == Spec => KeepsDeskPromise
BY DeskInit, DeskStep, Inductive, PTL DEF Spec, KeepsDeskPromise, Desk!Spec
=============================================================================
