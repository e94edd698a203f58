-------------------------- MODULE MarketData_proofs --------------------------
(***************************************************************************)
(* Proofs about PriceFeed and MarketData, for any set of tokens, any       *)
(* capacity of the channels and any bound on the ages.                     *)
(***************************************************************************)
EXTENDS MarketData, Integers, TLAPS

\* b is at least as fresh as a
Fresher(b, a) == \A t \in Tokens : b[t] <= a[t]

\* The line from the cache over the channel to the loop gets older all the way.
InOrder ==
  /\ \A i, j \in 1 .. Len(channel) : i <= j => Fresher(channel[j].ages, channel[i].ages)
  /\ \A i \in 1 .. Len(channel) : Fresher(channel[i].ages, live.ages)
  /\ \A i \in 1 .. Len(channel) : Fresher(cache, channel[i].ages)
  /\ Fresher(cache, live.ages)

SendsCache == task = "send" => batch.ages = cache

\* After a failed poll nothing in the cache is of this round.
NothingNew == task = "failover" => \A t \in Tokens : cache[t] # 0

FeedInv == TypeOK /\ InOrder /\ SendsCache /\ NothingNew /\ NothingLost /\ StaleIsLogged

-----------------------------------------------------------------------------
(* Ages.                                                                     *)

LEMMA OlderAges ==
  ASSUME NEW a \in Ages
  PROVE  /\ Older(a) \in Ages
         /\ Priced(Older(a)) = Priced(a)
         /\ Sendable(Older(a)) <=> Sendable(a)
         /\ \A t \in Tokens : a[t] <= Older(a)[t] /\ Older(a)[t] # 0
<1>1. \A t \in Tokens : /\ a[t] \in 0 .. MaxAge + 1
                        /\ Older(a)[t] = IF a[t] < MaxAge THEN a[t] + 1 ELSE a[t]
  BY DEF Ages, Never, Older
<1>2. \A t \in Tokens : /\ Older(a)[t] \in 0 .. MaxAge + 1
                        /\ a[t] <= Older(a)[t] /\ Older(a)[t] # 0
                        /\ Older(a)[t] # MaxAge + 1 <=> a[t] # MaxAge + 1
  BY <1>1, FeedAssumption
<1>3. Older(a) \in Ages
  BY <1>2 DEF Older, Ages, Never
<1>4. Priced(Older(a)) = Priced(a)
  BY <1>2 DEF Priced, Never
<1> QED
  BY <1>2, <1>3, <1>4 DEF Sendable

LEMMA OlderKeepsOrder ==
  ASSUME NEW a \in Ages, NEW b \in Ages, Fresher(b, a)
  PROVE  Fresher(Older(b), Older(a))
BY FeedAssumption DEF Fresher, Ages, Never, Older

LEMMA LearnAges ==
  ASSUME NEW a \in Ages, NEW report \in Reports
  PROVE  /\ Learn(a, report) \in Ages
         /\ Fresher(Learn(a, report), a)
         /\ \E t \in Tokens : Learn(a, report)[t] = 0
BY FeedAssumption DEF Learn, Reports, Ages, Never, Fresher

LEMMA AgedBatch ==
  ASSUME NEW b \in Batch
  PROVE  /\ Aged(b) \in Batch /\ Aged(b).ages = Older(b.ages)
         /\ Sendable(Aged(b).ages) <=> Sendable(b.ages)
BY OlderAges DEF Aged, Batch

LEMMA NoBatchType ==
  /\ NoBatch \in Batch /\ NoBatch.ages \in Ages
  /\ ~Sendable(NoBatch.ages) /\ Aged(NoBatch) = NoBatch
<1>1. NoBatch \in Batch /\ NoBatch.ages \in Ages
  BY FeedAssumption DEF NoBatch, Batch, Ages, Never
<1>2. ~Sendable(NoBatch.ages)
  BY DEF NoBatch, Sendable, Priced
<1>3. Older(NoBatch.ages) = NoBatch.ages
  BY FeedAssumption DEF NoBatch, Older, Never
<1> QED
  BY <1>1, <1>2, <1>3 DEF Aged, NoBatch

-----------------------------------------------------------------------------
(* The steps.                                                                *)

\* What a round that begins does to the channel and to the loop's prices.
LEMMA RoundAges ==
  ASSUME TypeOK, InOrder, BeginRound
  PROVE  /\ channel' \in Seq({b \in Batch : Sendable(b.ages)}) /\ Len(channel') = Len(channel)
         /\ \A i \in 1 .. Len(channel) : channel'[i].ages = Older(channel[i].ages)
         /\ live' \in Batch /\ (live' = NoBatch \/ Sendable(live'.ages))
         /\ live'.ages = Older(live.ages)
         /\ \A i, j \in 1 .. Len(channel) :
              i <= j => Fresher(channel'[j].ages, channel'[i].ages)
         /\ \A i \in 1 .. Len(channel) : /\ Fresher(channel'[i].ages, live'.ages)
                                         /\ Fresher(Older(cache), channel'[i].ages)
         /\ Fresher(Older(cache), live'.ages)
<1> DEFINE Edges == {b \in Batch : Sendable(b.ages)}
<1>1. channel \in Seq(Edges) /\ Len(channel) \in Nat /\ live \in Batch /\ cache \in Ages
  BY DEF TypeOK
<1>2. channel' = [i \in 1 .. Len(channel) |-> Aged(channel[i])] /\ live' = Aged(live)
  BY <1>1 DEF BeginRound
<1>3. \A i \in 1 .. Len(channel) : channel[i] \in Edges
  BY <1>1
<1>4. \A i \in 1 .. Len(channel) : /\ Aged(channel[i]) \in Edges
                                   /\ Aged(channel[i]).ages = Older(channel[i].ages)
  BY <1>3, AgedBatch
<1>5. channel' \in Seq(Edges) /\ Len(channel') = Len(channel)
  BY <1>1, <1>2, <1>4
<1>6. \A i \in 1 .. Len(channel) : channel'[i].ages = Older(channel[i].ages)
  BY <1>2, <1>4
<1>7. live' \in Batch /\ live'.ages = Older(live.ages) /\ (live' = NoBatch \/ Sendable(live'.ages))
  BY <1>1, <1>2, AgedBatch, NoBatchType DEF TypeOK
<1>8. /\ \A i \in 1 .. Len(channel) : channel[i].ages \in Ages
      /\ live.ages \in Ages
  BY <1>1, <1>3 DEF Batch
<1>9. \A i, j \in 1 .. Len(channel) : i <= j => Fresher(channel'[j].ages, channel'[i].ages)
  BY <1>6, <1>8, OlderKeepsOrder DEF InOrder
<1>10. \A i \in 1 .. Len(channel) : /\ Fresher(channel'[i].ages, live'.ages)
                                    /\ Fresher(Older(cache), channel'[i].ages)
  BY <1>1, <1>6, <1>7, <1>8, OlderKeepsOrder DEF InOrder
<1>11. Fresher(Older(cache), live'.ages)
  BY <1>1, <1>7, <1>8, OlderKeepsOrder DEF InOrder
<1> QED
  BY <1>5, <1>6, <1>7, <1>9, <1>10, <1>11

LEMMA FresherTransitive ==
  ASSUME NEW a \in Ages, NEW b \in Ages, NEW c \in Ages, Fresher(c, b), Fresher(b, a)
  PROVE  Fresher(c, a)
BY FeedAssumption DEF Fresher, Ages, Never

\* Whatever is handed over is the cache, with edges, and the batch handed over last.
LEMMA HandedOver ==
  ASSUME TypeOK, NEW stale \in BOOLEAN, cache' \in Ages, HandOver(cache', stale)
  PROVE  /\ task' \in {"poll", "send"} /\ batch' \in Batch
         /\ task' = "send" => /\ Sendable(batch'.ages)
                              /\ batch'.ages = cache' /\ batch'.stale = stale
         /\ Sendable(cache') => task' = "send"
<1>1. CASE Sendable(cache')
  BY <1>1 DEF HandOver, Batch
<1>2. CASE ~Sendable(cache')
  BY <1>2 DEF HandOver, TypeOK
<1> QED
  BY <1>1, <1>2

LEMMA FeedInit == Init => FeedInv
<1> SUFFICES ASSUME Init PROVE FeedInv
  OBVIOUS
<1>1. TypeOK
  BY NoBatchType, FeedAssumption DEF Init, TypeOK, Sources
<1>2. Fresher(cache, live.ages)
  BY NoBatchType, FeedAssumption DEF Init, Fresher, Ages, Never
<1>3. InOrder
  BY <1>2 DEF Init, InOrder
<1> QED
  BY <1>1, <1>3, NoBatchType DEF FeedInv, Init, SendsCache, NothingNew, NothingLost, StaleIsLogged, Latest

\* A round in which the active source answered.
LEMMA PollStep ==
  ASSUME FeedInv, NEW report \in Reports, Poll(report)
  PROVE  FeedInv'
<1>1. TypeOK /\ InOrder /\ BeginRound /\ cache \in Ages /\ source' = source
  BY DEF FeedInv, TypeOK, Poll, BeginRound
<1>2. Older(cache) \in Ages /\ cache' = Learn(Older(cache), report)
  BY <1>1, OlderAges DEF Poll
<1>3. /\ cache' \in Ages /\ Fresher(cache', Older(cache))
      /\ \E t \in Tokens : cache'[t] = 0
  BY <1>2, LearnAges
<1>4. HandOver(cache', FALSE)
  BY DEF Poll
<1>5. /\ task' \in {"poll", "send"} /\ batch' \in Batch
      /\ task' = "send" => /\ Sendable(batch'.ages)
                           /\ batch'.ages = cache' /\ batch'.stale = FALSE
      /\ Sendable(cache') => task' = "send"
  BY <1>1, <1>3, <1>4, HandedOver
<1>6. TypeOK'
  BY <1>1, <1>3, <1>5, RoundAges DEF TypeOK
<1>7. /\ live'.ages \in Ages
      /\ \A i \in 1 .. Len(channel) : channel'[i].ages \in Ages
  BY <1>1, <1>6, RoundAges DEF TypeOK, Batch
<1>8. /\ Fresher(cache', live'.ages)
      /\ \A i \in 1 .. Len(channel) : Fresher(cache', channel'[i].ages)
  BY <1>1, <1>2, <1>3, <1>7, RoundAges, FresherTransitive
<1>9. InOrder'
  BY <1>1, <1>8, RoundAges DEF InOrder
<1> QED
  BY <1>3, <1>5, <1>6, <1>9 DEF FeedInv, SendsCache, NothingNew, NothingLost, StaleIsLogged, Latest

LEMMA PollFailsStep ==
  ASSUME FeedInv, PollFails
  PROVE  FeedInv'
<1>1. /\ TypeOK /\ InOrder /\ BeginRound /\ cache \in Ages /\ source' = source
      /\ task = "poll" /\ task' = "failover" /\ cache' = Older(cache) /\ batch' = batch
  BY DEF FeedInv, TypeOK, PollFails, BeginRound
<1>2. /\ cache' \in Ages /\ (Sendable(cache') <=> Sendable(cache))
      /\ \A t \in Tokens : cache'[t] # 0
  BY <1>1, OlderAges
<1>3. TypeOK'
  BY <1>1, <1>2, RoundAges DEF TypeOK
<1>4. InOrder'
  BY <1>1, RoundAges DEF InOrder
<1>5. NothingLost'
  <2> SUFFICES ASSUME Sendable(cache) PROVE Latest'.ages = Older(cache)
    BY <1>1, <1>2 DEF NothingLost
  <2>1. Latest.ages = cache
    BY DEF FeedInv, NothingLost
  <2>2. CASE channel = <<>>
    <3>1. channel' = <<>>
      BY <1>1, <2>2, RoundAges DEF TypeOK
    <3> QED
      BY <1>1, <2>1, <2>2, <3>1, RoundAges DEF Latest
  <2>3. CASE channel # <<>>
    <3>1. Len(channel) \in 1 .. Len(channel) /\ channel' # <<>> /\ Len(channel') = Len(channel)
      BY <1>1, <2>3, RoundAges DEF TypeOK
    <3>2. Latest = channel[Len(channel)] /\ Latest' = channel'[Len(channel)]
      BY <1>1, <2>3, <3>1 DEF Latest
    <3> QED
      BY <1>1, <2>1, <3>1, <3>2, RoundAges
  <2> QED
    BY <2>2, <2>3
<1> QED
  BY <1>1, <1>2, <1>3, <1>4, <1>5 DEF FeedInv, SendsCache, NothingNew, StaleIsLogged

LEMMA FailOverStep ==
  ASSUME FeedInv, NEW report \in Reports, FailOver(report)
  PROVE  FeedInv'
<1>1. /\ TypeOK /\ InOrder /\ cache \in Ages /\ channel' = channel /\ live' = live
      /\ cache' = Learn(cache, report) /\ source' \in Sources
  BY DEF FeedInv, TypeOK, FailOver, Other, Sources
<1>2. /\ cache' \in Ages /\ Fresher(cache', cache)
      /\ \E t \in Tokens : cache'[t] = 0
  BY <1>1, LearnAges
<1>3. /\ task' \in {"poll", "send"} /\ batch' \in Batch
      /\ task' = "send" => /\ Sendable(batch'.ages)
                           /\ batch'.ages = cache' /\ batch'.stale = FALSE
      /\ Sendable(cache') => task' = "send"
  BY <1>1, <1>2, HandedOver DEF FailOver
<1>4. TypeOK'
  BY <1>1, <1>2, <1>3 DEF TypeOK
<1>5. /\ live.ages \in Ages
      /\ \A i \in 1 .. Len(channel) : channel[i].ages \in Ages
  BY <1>1 DEF TypeOK, Batch
<1>6. /\ Fresher(cache', live.ages)
      /\ \A i \in 1 .. Len(channel) : Fresher(cache', channel[i].ages)
  BY <1>1, <1>2, <1>5, FresherTransitive DEF InOrder
<1>7. InOrder'
  BY <1>1, <1>6 DEF InOrder
<1> QED
  BY <1>2, <1>3, <1>4, <1>7 DEF FeedInv, SendsCache, NothingNew, NothingLost, StaleIsLogged, Latest

LEMMA BothFailStep ==
  ASSUME FeedInv, BothFail
  PROVE  FeedInv'
<1>1. /\ TypeOK /\ InOrder /\ cache' = cache /\ cache \in Ages
      /\ channel' = channel /\ live' = live /\ source' = source
      /\ \A t \in Tokens : cache[t] # 0
  BY DEF FeedInv, TypeOK, BothFail, NothingNew
<1>2. /\ task' \in {"poll", "send"} /\ batch' \in Batch
      /\ task' = "send" => /\ Sendable(batch'.ages)
                           /\ batch'.ages = cache' /\ batch'.stale = TRUE
      /\ Sendable(cache') => task' = "send"
  BY <1>1, HandedOver DEF BothFail
<1>3. TypeOK'
  BY <1>1, <1>2 DEF TypeOK
<1>4. InOrder'
  BY <1>1 DEF InOrder
<1> QED
  BY <1>1, <1>2, <1>3, <1>4 DEF FeedInv, SendsCache, NothingNew, NothingLost, StaleIsLogged, Latest

LEMMA DeliverStep ==
  ASSUME FeedInv, Deliver
  PROVE  FeedInv'
<1> DEFINE Edges == {b \in Batch : Sendable(b.ages)}
<1>1. /\ TypeOK /\ InOrder /\ channel \in Seq(Edges) /\ batch \in Edges /\ batch.ages = cache
      /\ cache' = cache /\ live' = live /\ source' = source /\ task' = "poll"
      /\ batch' = NoBatch /\ channel' = Append(channel, batch) /\ Len(channel) < Capacity
  BY DEF FeedInv, TypeOK, Deliver, SendsCache
<1> HIDE DEF Edges
<1>2. /\ channel' \in Seq(Edges) /\ Len(channel') = Len(channel) + 1 /\ Len(channel) \in Nat
      /\ channel' # <<>> /\ channel'[Len(channel')] = batch
      /\ \A i \in 1 .. Len(channel) : channel'[i] = channel[i]
  BY <1>1
<1>3. TypeOK'
  BY <1>1, <1>2, NoBatchType, FeedAssumption DEF TypeOK, Edges
<1>4. \A i \in 1 .. Len(channel') : i \in 1 .. Len(channel) \/ channel'[i] = batch
  BY <1>2
<1>5. cache \in Ages /\ Fresher(cache, cache)
  BY <1>1, FeedAssumption DEF TypeOK, Fresher, Ages, Never
<1>6. InOrder'
  <2>1. \A i \in 1 .. Len(channel') : /\ Fresher(channel'[i].ages, live.ages)
                                      /\ Fresher(cache, channel'[i].ages)
    BY <1>1, <1>2, <1>4, <1>5 DEF InOrder
  <2>2. ASSUME NEW i \in 1 .. Len(channel'), NEW j \in 1 .. Len(channel'), i <= j
        PROVE  Fresher(channel'[j].ages, channel'[i].ages)
    <3>1. CASE j \in 1 .. Len(channel)
      <4>1. i \in 1 .. Len(channel)
        BY <1>2, <2>2, <3>1
      <4> QED
        BY <1>1, <1>2, <2>2, <3>1, <4>1 DEF InOrder
    <3>2. CASE channel'[j] = batch
      BY <1>1, <2>1, <3>2
    <3> QED
      BY <1>4, <3>1, <3>2
  <2> QED
    BY <1>1, <2>1, <2>2 DEF InOrder
<1>7. Latest' = batch
  BY <1>1, <1>2 DEF Latest
<1> QED
  BY <1>1, <1>3, <1>6, <1>7 DEF FeedInv, SendsCache, NothingNew, NothingLost, StaleIsLogged

LEMMA AbsorbStep ==
  ASSUME FeedInv, Absorb
  PROVE  FeedInv'
<1> DEFINE Edges == {b \in Batch : Sendable(b.ages)}
<1>1. /\ TypeOK /\ InOrder /\ channel \in Seq(Edges) /\ channel # <<>> /\ Len(channel) <= Capacity
      /\ cache' = cache /\ source' = source /\ task' = task /\ batch' = batch
      /\ live' = channel[1] /\ channel' = Tail(channel)
  BY DEF FeedInv, TypeOK, Absorb
<1> HIDE DEF Edges
<1>2. /\ channel' \in Seq(Edges) /\ Len(channel') = Len(channel) - 1
      /\ Len(channel) \in Nat \ {0} /\ channel[1] \in Edges
      /\ \A i \in 1 .. Len(channel') : channel'[i] = channel[i + 1] /\ i + 1 \in 1 .. Len(channel)
  BY <1>1
<1>3. TypeOK'
  BY <1>1, <1>2, FeedAssumption DEF TypeOK, Edges
<1>4. /\ \A i, j \in 1 .. Len(channel') :
           i <= j => Fresher(channel'[j].ages, channel'[i].ages)
      /\ \A i \in 1 .. Len(channel') : /\ Fresher(channel'[i].ages, channel[1].ages)
                                       /\ Fresher(cache, channel'[i].ages)
      /\ Fresher(cache, channel[1].ages)
  BY <1>1, <1>2 DEF InOrder
<1>5. InOrder'
  BY <1>1, <1>4 DEF InOrder
<1>6. Latest' = Latest
  <2>1. CASE task = "send"
    BY <1>1, <2>1 DEF Latest
  <2>2. CASE task # "send" /\ Len(channel) = 1
    <3>1. channel' = <<>>
      BY <1>1, <1>2, <2>2
    <3> QED
      BY <1>1, <2>2, <3>1 DEF Latest
  <2>3. CASE task # "send" /\ Len(channel) # 1
    <3>1. Len(channel') \in 1 .. Len(channel') /\ Len(channel') + 1 = Len(channel)
      BY <1>2, <2>3
    <3>2. channel'[Len(channel')] = channel[Len(channel)]
      BY <1>2, <3>1
    <3>3. channel' # <<>>
      BY <3>1
    <3> QED
      BY <1>1, <2>3, <3>2, <3>3 DEF Latest
  <2> QED
    BY <2>1, <2>2, <2>3
<1> QED
  BY <1>1, <1>3, <1>5, <1>6 DEF FeedInv, SendsCache, NothingNew, NothingLost, StaleIsLogged

LEMMA FeedStep == FeedInv /\ [Next]_vars => FeedInv'
<1> SUFFICES ASSUME FeedInv, [Next]_vars PROVE FeedInv'
  OBVIOUS
<1>1. ASSUME NEW report \in Reports, Poll(report) PROVE FeedInv'
  BY <1>1, PollStep
<1>2. ASSUME NEW report \in Reports, FailOver(report) PROVE FeedInv'
  BY <1>2, FailOverStep
<1>3. CASE UNCHANGED vars
  BY <1>3 DEF vars, FeedInv, TypeOK, InOrder, SendsCache, NothingNew, NothingLost,
              StaleIsLogged, Latest
<1> QED
  BY <1>1, <1>2, <1>3, PollFailsStep, BothFailStep, DeliverStep, AbsorbStep DEF Next, Round

-----------------------------------------------------------------------------
(* The composition.                                                          *)

\* A cycle runs only with prices.
CyclePriced == loop = "cycle" => live # NoBatch

MarketInv == FeedInv /\ MarketTypeOK

LEMMA StreamInit == Stream!Init => Stream!TypeOK
<1> SUFFICES ASSUME Stream!Init PROVE Stream!TypeOK
  OBVIOUS
<1>1. provider \in Keys
  BY StreamAssumption DEF Stream!Init
<1>2. /\ link \in {"connecting", "up", "sending", "pausing"}
      /\ delay \in Stream!RECONNECT_BASE_DELAY_MS .. Stream!RECONNECT_MAX_DELAY_MS
  <2>1. /\ Stream!RECONNECT_BASE_DELAY_MS \in Nat /\ Stream!RECONNECT_MAX_DELAY_MS \in Nat
        /\ Stream!RECONNECT_BASE_DELAY_MS <= Stream!RECONNECT_MAX_DELAY_MS
    BY DEF Stream!RECONNECT_BASE_DELAY_MS, Stream!RECONNECT_MAX_DELAY_MS
  <2> QED
    BY <2>1 DEF Stream!Init
<1>3. events \in 0 .. EventCapacity
  BY StreamAssumption DEF Stream!Init
<1> QED
  BY <1>1, <1>2, <1>3 DEF Stream!TypeOK

LEMMA StreamStep == Stream!TypeOK /\ Stream!Next => Stream!TypeOK'
<1> SUFFICES ASSUME Stream!TypeOK, Stream!Next PROVE Stream!TypeOK'
  OBVIOUS
<1> USE StreamAssumption DEF Stream!TypeOK
<1>1. CASE Stream!Connect
  BY <1>1 DEF Stream!Connect
<1>2. CASE Stream!Break
  BY <1>2 DEF Stream!Break
<1>3. CASE Stream!End
  <2>1. /\ Stream!RECONNECT_BASE_DELAY_MS \in Nat /\ Stream!RECONNECT_MAX_DELAY_MS \in Nat
        /\ Stream!RECONNECT_BASE_DELAY_MS <= Stream!RECONNECT_MAX_DELAY_MS
    BY DEF Stream!RECONNECT_BASE_DELAY_MS, Stream!RECONNECT_MAX_DELAY_MS
  <2> QED
    BY <1>3, <2>1 DEF Stream!End
<1>4. CASE Stream!Notify
  BY <1>4 DEF Stream!Notify
<1>5. CASE Stream!Reconnect
  <2>1. delay' \in Stream!RECONNECT_BASE_DELAY_MS .. Stream!RECONNECT_MAX_DELAY_MS
    <3>1. /\ Stream!RECONNECT_BASE_DELAY_MS \in Nat /\ Stream!RECONNECT_MAX_DELAY_MS \in Nat
          /\ Stream!RECONNECT_BASE_DELAY_MS <= Stream!RECONNECT_MAX_DELAY_MS
      BY DEF Stream!RECONNECT_BASE_DELAY_MS, Stream!RECONNECT_MAX_DELAY_MS
    <3>2. \/ delay' = 2 * delay /\ 2 * delay < Stream!RECONNECT_MAX_DELAY_MS
          \/ delay' = Stream!RECONNECT_MAX_DELAY_MS
      BY <1>5 DEF Stream!Reconnect
    <3> QED
      BY <3>1, <3>2
  <2>2. link' = "connecting" /\ provider' = provider /\ events' = events
    BY <1>5 DEF Stream!Reconnect
  <2> QED
    BY <2>1, <2>2
<1>6. CASE Stream!Forward
  BY <1>6 DEF Stream!Forward
<1>7. CASE Stream!TakeEvent
  BY <1>7 DEF Stream!TakeEvent
<1> QED
  BY <1>1, <1>2, <1>3, <1>4, <1>5, <1>6, <1>7 DEF Stream!Next, Stream!Socket

\* A step of the whole is a step of the feed or leaves it alone, and likewise the stream.
LEMMA Steps ==
  [MarketNext]_marketVars => [Next]_vars /\ (Stream!Next \/ UNCHANGED streamVars)
<1> SUFFICES ASSUME [MarketNext]_marketVars
             PROVE  [Next]_vars /\ (Stream!Next \/ UNCHANGED streamVars)
  OBVIOUS
<1>1. CASE Loop
  BY <1>1 DEF Loop, DrainOne, Drained, NoEvent, DropEvent, BeginCycle, EndCycle, Next, Stream!Next
<1>2. CASE Monitor
  BY <1>2 DEF Monitor, Next
<1>3. CASE Server \/ Client
  BY <1>3 DEF Server, Client, Stream!Next
<1>4. CASE UNCHANGED marketVars
  BY <1>4 DEF marketVars
<1> QED
  BY <1>1, <1>2, <1>3, <1>4 DEF MarketNext

LEMMA PricedStaysPriced == FeedInv /\ [Next]_vars /\ live # NoBatch => live' # NoBatch
<1> SUFFICES ASSUME FeedInv, [Next]_vars, live # NoBatch PROVE live' # NoBatch
  OBVIOUS
<1>1. live \in Batch /\ Sendable(live.ages)
  BY DEF FeedInv, TypeOK
<1>2. CASE BeginRound
  <2>1. Sendable(live'.ages)
    BY <1>1, <1>2, AgedBatch DEF BeginRound
  <2> QED
    BY <2>1, NoBatchType
<1>3. CASE Absorb
  <2> DEFINE Edges == {b \in Batch : Sendable(b.ages)}
  <2>1. channel \in Seq(Edges) /\ channel # <<>> /\ live' = Head(channel)
    BY <1>3 DEF FeedInv, TypeOK, Absorb
  <2>2. live' \in Edges
    BY <2>1
  <2> QED
    BY <2>2, NoBatchType
<1>4. CASE live' = live
  BY <1>4
<1> QED
  BY <1>2, <1>3, <1>4 DEF Next, Round, Poll, PollFails, FailOver, BothFail, Deliver, vars

LEMMA MarketStep ==
  MarketInv /\ [MarketNext]_marketVars => MarketInv'
<1> SUFFICES ASSUME MarketInv, [MarketNext]_marketVars PROVE MarketInv'
  OBVIOUS
<1>1. FeedInv'
  BY FeedStep, Steps DEF MarketInv
<1>2. Stream!TypeOK'
  <2>1. CASE Stream!Next
    BY <2>1, StreamStep DEF MarketInv, MarketTypeOK
  <2>2. CASE UNCHANGED streamVars
    BY <2>2 DEF MarketInv, MarketTypeOK, Stream!TypeOK, streamVars
  <2> QED
    BY <2>1, <2>2, Steps
<1>3. loop' \in {"drain", "event", "cycle"} /\ CyclePriced'
  <2>1. live # NoBatch => live' # NoBatch
    BY PricedStaysPriced, Steps DEF MarketInv
  <2>2. /\ loop' \in {"drain", "event", "cycle"}
        /\ loop' = "cycle" => loop = "cycle" \/ live # NoBatch
    BY DEF MarketInv, MarketTypeOK, MarketNext, Loop, DrainOne, Drained, NoEvent, DropEvent,
           BeginCycle, EndCycle, Monitor, Server, Client, marketVars
  <2> QED
    BY <2>1, <2>2 DEF MarketInv, MarketTypeOK, CyclePriced
<1> QED
  BY <1>1, <1>2, <1>3 DEF MarketInv, MarketTypeOK, FeedInv, CyclePriced

\* The composed system is the feed of PriceFeed: whatever the streams and the rest of the
\* loop do, the monitor, its channel and the loop's prices behave as that module says.
THEOREM ImplementsFeed == MarketSpec => Spec
<1>1. MarketInit => Init
  BY DEF MarketInit
<1>2. [MarketNext]_marketVars => [Next]_vars
  BY Steps
<1> QED
  BY <1>1, <1>2, PTL DEF MarketSpec, Spec

LEMMA FeedInvariant == Spec => []FeedInv
BY FeedInit, FeedStep, PTL DEF Spec

\* Prices, events and the place of the loop keep their types (jupiter.rs, helius_ws.rs and
\* the top of the hot loop), for every set of tokens, set of keys and capacity.
THEOREM TypeCorrect == MarketSpec => []MarketTypeOK
<1>1. MarketInit => MarketInv
  BY FeedInit, StreamInit DEF MarketInit, MarketInv, MarketTypeOK, FeedInv
<1>2. MarketInv => MarketTypeOK
  BY DEF MarketInv
<1> QED
  BY <1>1, <1>2, MarketStep, PTL DEF MarketSpec

\* No price the monitor learned is lost on the way (run and try_failover of jupiter.rs): the
\* batch handed over last is the cache, whenever the cache makes a batch at all.
THEOREM NoPriceLost == MarketSpec => []NothingLost
<1>1. FeedInv => NothingLost
  BY DEF FeedInv
<1> QED
  BY <1>1, ImplementsFeed, FeedInvariant, PTL

\* try_failover logs "using STALE CACHE" for the batches without a price of the round, and
\* for no other.
THEOREM LogsStale == MarketSpec => []StaleIsLogged
<1>1. FeedInv => StaleIsLogged
  BY DEF FeedInv
<1> QED
  BY <1>1, ImplementsFeed, FeedInvariant, PTL

\* The hot loop never replaces a price by an older one (main.rs takes the batches in the
\* order sent), however long the channel and whatever the sources answer.
THEOREM NeverGoesBack == MarketSpec => LiveNeverGoesBack
<1>1. FeedInv /\ [Next]_vars => [\A t \in Tokens : live'.ages[t] <= Older(live.ages)[t]]_vars
  <2> SUFFICES ASSUME FeedInv, Next
               PROVE  \A t \in Tokens : live'.ages[t] <= Older(live.ages)[t]
    OBVIOUS
  <2>1. live.ages \in Ages /\ Older(live.ages) \in Ages
    BY OlderAges DEF FeedInv, TypeOK, Batch
  <2>2. \A t \in Tokens : /\ live.ages[t] \in Nat /\ Older(live.ages)[t] \in Nat
                          /\ live.ages[t] <= Older(live.ages)[t]
    BY <2>1, OlderAges, FeedAssumption DEF Ages, Never
  <2>3. CASE BeginRound
    <3>1. live'.ages = Older(live.ages)
      BY <2>3, AgedBatch DEF BeginRound, FeedInv, TypeOK
    <3> QED
      BY <2>2, <3>1
  <2>4. CASE Absorb
    <3> DEFINE Edges == {b \in Batch : Sendable(b.ages)}
    <3>1. channel \in Seq(Edges) /\ channel # <<>> /\ live' = channel[1] /\ InOrder
      BY <2>4 DEF FeedInv, TypeOK, Absorb
    <3>2. 1 \in 1 .. Len(channel) /\ channel[1].ages \in Ages
      BY <3>1 DEF Batch
    <3>3. Fresher(channel[1].ages, live.ages)
      BY <3>1, <3>2 DEF InOrder
    <3>4. \A t \in Tokens : channel[1].ages[t] \in Nat
      BY <3>2, FeedAssumption DEF Ages, Never
    <3> QED
      BY <2>2, <3>1, <3>3, <3>4 DEF Fresher
  <2>5. CASE live' = live
    BY <2>2, <2>5
  <2> QED
    BY <2>3, <2>4, <2>5 DEF Next, Round, Poll, PollFails, FailOver, BothFail, Deliver
<1>2. Spec => [][Next]_vars
  BY PTL DEF Spec
<1> QED
  BY <1>1, <1>2, ImplementsFeed, FeedInvariant, PTL DEF LiveNeverGoesBack
=============================================================================
