----------------------- MODULE AdaptiveCooldown_proofs -----------------------
(***************************************************************************)
(* Proofs about AdaptiveCooldown, for any tick of the clock.               *)
(***************************************************************************)
EXTENDS AdaptiveCooldown, TLAPS

\* The cooldown is never below what the refusals in a row have made of the minimum.
GrownSoFar == current >= Grown(streak)

\* The history of refusals is the streak of the code, and ten more once a pause began,
\* and from then on a pause is on record.
RefusedIsStreak ==
  /\ refused \in {streak, streak + 10} \/ (refused = 20 /\ streak = 0)
  /\ refused >= 10 => pause # NoPause

\* A pause of which t is left began with the last outcome, five seconds long.
PauseCounts ==
  /\ pause > 0 => loop = "idle" /\ streak = 0 /\ pause + since = BASE_PAUSE_MS
  /\ pause = 0 /\ refused \in {10, 20} => since >= BASE_PAUSE_MS

\* CooldownTypeOK, with the limits as inequalities: the solvers take them better than intervals.
Bounds ==
  /\ current \in Int /\ MIN_COOLDOWN_MS <= current /\ current <= MAX_COOLDOWN_MS
  /\ streak \in Int /\ 0 <= streak /\ streak < DEAD_MARKET_429_THRESHOLD
  /\ since \in Int /\ 0 <= since /\ since <= Horizon
  /\ pause \in Int /\ NoPause <= pause /\ pause <= MAX_PAUSE_MS
  /\ loop \in {"idle", "attempting"}
  /\ refused \in Int /\ 0 <= refused /\ refused <= MaxRefused

IInv ==
  /\ Bounds
  /\ GrownSoFar
  /\ FullCooldownAfterPause
  /\ RefusedIsStreak
  /\ PauseCounts

LEMMA LimitsAreIntegers ==
  /\ MIN_COOLDOWN_MS \in Int /\ MAX_COOLDOWN_MS \in Int
  /\ NoPause \in Int /\ MAX_PAUSE_MS \in Int /\ DEAD_MARKET_429_THRESHOLD \in Int
  /\ MaxRefused \in Int
BY DEF MIN_COOLDOWN_MS, MAX_COOLDOWN_MS, NoPause, MAX_PAUSE_MS, DEAD_MARKET_429_THRESHOLD,
       MaxRefused

LEMMA BoundsAreTypes == Bounds => CooldownTypeOK
BY LimitsAreIntegers, CooldownAssumption DEF Bounds, CooldownTypeOK

USE DEF MIN_COOLDOWN_MS, MAX_COOLDOWN_MS, INITIAL_COOLDOWN_MS, DEAD_MARKET_429_THRESHOLD,
        BASE_PAUSE_MS, MAX_PAUSE_MS, NoPause, AtLeast, AtMost, MaxRefused

-----------------------------------------------------------------------------
\* One refusal takes the least cooldown after n refusals to that after n + 1, and ten
\* refusals take the minimum to the maximum.
LEMMA GrowthOfGrown ==
  ASSUME NEW n \in 0 .. 9, NEW c \in Int, c >= Grown(n)
  PROVE  AtMost((c * 3) \div 2, MAX_COOLDOWN_MS) >= Grown(n + 1)
BY DEF Grown

LEMMA NinthRefusal ==
  ASSUME Bounds, GrownSoFar, streak = 9
  PROVE  current = MAX_COOLDOWN_MS
<1>1. current >= 5000
  BY DEF Bounds, GrownSoFar, Grown
<1>2. current \in Int /\ current <= 5000
  BY DEF Bounds
<1> QED
  BY <1>1, <1>2

LEMMA GrownEnds == Grown(0) = 300 /\ Grown(10) = 5000
BY DEF Grown

-----------------------------------------------------------------------------
LEMMA InitHolds == CooldownInit => IInv
<1> SUFFICES ASSUME CooldownInit PROVE IInv
  OBVIOUS
<1> USE CooldownAssumption
<1>1. Bounds
  BY DEF CooldownInit, Bounds
<1> QED
  BY <1>1 DEF CooldownInit, IInv, GrownSoFar, Grown, FullCooldownAfterPause, RefusedIsStreak, PauseCounts

LEMMA NextHolds == IInv /\ [CooldownNext]_cooldownVars => IInv'
<1> SUFFICES ASSUME IInv, [CooldownNext]_cooldownVars PROVE IInv'
  OBVIOUS
<1> USE CooldownAssumption
<1>a. Bounds /\ GrownSoFar /\ FullCooldownAfterPause /\ RefusedIsStreak /\ PauseCounts
  BY DEF IInv
<1>1. CASE Attempt
  <2>1. pause <= 0
    BY <1>1, <1>a DEF Attempt, IsReady, Bounds
  <2>2. Bounds'
    BY <1>1, <1>a DEF Attempt, Bounds
  <2>3. GrownSoFar' /\ FullCooldownAfterPause' /\ RefusedIsStreak'
    BY <1>1, <1>a DEF Attempt, GrownSoFar, FullCooldownAfterPause, RefusedIsStreak
  <2>4. PauseCounts'
    BY <1>1, <1>a, <2>1 DEF Attempt, PauseCounts, Bounds
  <2> QED
    BY <2>2, <2>3, <2>4 DEF IInv
<1>2. CASE Leave
  <2>1. Bounds'
    BY <1>2, <1>a DEF Leave, Bounds
  <2>2. GrownSoFar' /\ FullCooldownAfterPause' /\ RefusedIsStreak'
    BY <1>2, <1>a DEF Leave, GrownSoFar, FullCooldownAfterPause, RefusedIsStreak
  <2>3. PauseCounts'
    BY <1>2, <1>a DEF Leave, PauseCounts
  <2> QED
    BY <2>1, <2>2, <2>3 DEF IInv
<1>3. CASE Success
  <2>1. /\ streak' = 0 /\ refused' = 0 /\ pause' = NoPause
        /\ since' = 0 /\ loop' = "idle"
    BY <1>3 DEF Success, Submitted
  <2>2. current' \in Int /\ 300 <= current' /\ current' <= 5000
    <3>1. current' = AtLeast((current * 4) \div 5, MIN_COOLDOWN_MS)
      BY <1>3 DEF Success
    <3>2. current \in Int /\ 300 <= current /\ current <= 5000
      BY <1>a DEF Bounds
    <3> QED
      BY <3>1, <3>2
  <2>3. Bounds'
    BY <2>1, <2>2 DEF Bounds
  <2>4. GrownSoFar'
    BY <2>1, <2>2, GrownEnds DEF GrownSoFar
  <2>5. FullCooldownAfterPause' /\ RefusedIsStreak' /\ PauseCounts'
    BY <2>1 DEF FullCooldownAfterPause, RefusedIsStreak, PauseCounts
  <2> QED
    BY <2>3, <2>4, <2>5 DEF IInv
<1>4. CASE RateLimit
  <2>1. /\ current \in Int /\ 300 <= current /\ current <= 5000 /\ streak \in 0 .. 9
        /\ refused \in 0 .. 20 /\ pause \in Int /\ -1 <= pause /\ pause <= 15000
    BY <1>a DEF Bounds
  <2>2. /\ since' = 0 /\ loop' = "idle" /\ loop = "attempting"
        /\ current' = AtMost((current * 3) \div 2, MAX_COOLDOWN_MS)
        /\ refused' = CountRefusal(refused)
        /\ PauseOrCount(streak + 1)
    BY <1>4 DEF RateLimit, Submitted
  <2>3. /\ current' \in Int /\ 300 <= current' /\ current' <= 5000
        /\ current = MAX_COOLDOWN_MS => current' = MAX_COOLDOWN_MS
    BY <2>1, <2>2
  <2>4. current' >= Grown(streak + 1)
    <3>1. current >= Grown(streak)
      BY <1>a DEF GrownSoFar
    <3> QED
      BY <2>1, <2>2, <3>1, GrowthOfGrown
  <2>5. CASE streak = 9
    <3>1. pause' = BASE_PAUSE_MS /\ streak' = 0
      BY <2>2, <2>5 DEF PauseOrCount, PauseFor
    <3>2. current' = MAX_COOLDOWN_MS
      BY <1>a, <2>3, <2>5, NinthRefusal
    <3>3. refused' \in {10, 20}
      BY <1>a, <2>2, <2>5 DEF RefusedIsStreak, CountRefusal
    <3>4. Bounds'
      BY <2>2, <2>3, <3>1, <3>3 DEF Bounds
    <3>5. GrownSoFar'
      BY <3>1, <3>2, GrownEnds DEF GrownSoFar
    <3>6. FullCooldownAfterPause' /\ RefusedIsStreak'
      BY <3>1, <3>2, <3>3 DEF FullCooldownAfterPause, RefusedIsStreak
    <3>7. PauseCounts'
      BY <2>2, <3>1 DEF PauseCounts
    <3> QED
      BY <3>4, <3>5, <3>6, <3>7 DEF IInv
  <2>6. CASE streak # 9
    <3>1. streak' = streak + 1 /\ streak' \in 1 .. 9 /\ pause' = pause
      BY <2>1, <2>2, <2>6 DEF PauseOrCount
    <3>2. pause <= 0
      BY <1>a, <2>1, <2>2 DEF PauseCounts
    <3>3. /\ refused' \in {streak', streak' + 10}
          /\ refused' >= 10 => refused >= 10
      BY <1>a, <2>1, <2>2, <2>6, <3>1 DEF RefusedIsStreak, CountRefusal
    <3>4. Bounds'
      BY <2>1, <2>2, <2>3, <3>1, <3>3 DEF Bounds
    <3>5. GrownSoFar'
      BY <2>4, <3>1 DEF GrownSoFar
    <3>6. FullCooldownAfterPause'
      BY <1>a, <2>3, <3>1 DEF FullCooldownAfterPause
    <3>7. RefusedIsStreak'
      BY <1>a, <3>1, <3>3 DEF RefusedIsStreak
    <3>8. PauseCounts'
      <4>1. pause' <= 0 /\ pause' \in Int /\ refused' \notin {10, 20}
        BY <2>1, <3>1, <3>2, <3>3
      <4> QED
        BY <4>1 DEF PauseCounts
    <3> QED
      BY <3>4, <3>5, <3>6, <3>7, <3>8 DEF IInv
  <2> QED
    BY <2>5, <2>6
<1>5. CASE Failure
  <2>1. /\ streak' = 0 /\ refused' = 0 /\ pause' = pause /\ loop = "attempting"
        /\ since' = 0 /\ loop' = "idle"
        /\ current' = AtMost((current * 11) \div 10, MAX_COOLDOWN_MS)
    BY <1>5 DEF Failure, Submitted
  <2>2. /\ current \in Int /\ 300 <= current /\ current <= 5000
        /\ pause \in Int /\ -1 <= pause /\ pause <= 15000
    BY <1>a DEF Bounds
  <2>3. /\ current' \in Int /\ 300 <= current' /\ current' <= 5000
        /\ current = MAX_COOLDOWN_MS => current' = MAX_COOLDOWN_MS
    BY <2>1, <2>2
  <2>4. Bounds'
    BY <2>1, <2>2, <2>3 DEF Bounds
  <2>5. GrownSoFar'
    BY <2>1, <2>3, GrownEnds DEF GrownSoFar
  <2>6. FullCooldownAfterPause' /\ RefusedIsStreak'
    BY <1>a, <2>1, <2>3 DEF FullCooldownAfterPause, RefusedIsStreak
  <2>7. PauseCounts'
    <3>1. pause <= 0
      BY <1>a, <2>1, <2>2 DEF PauseCounts
    <3> QED
      BY <2>1, <2>2, <3>1 DEF PauseCounts
  <2> QED
    BY <2>4, <2>5, <2>6, <2>7 DEF IInv
<1>6. CASE Elapse
  <2>1. /\ current' = current /\ streak' = streak /\ loop' = loop /\ refused' = refused
        /\ since' = AtMost(since + Tick, Horizon)
        /\ pause' = IF pause > 0 THEN AtLeast(pause - Tick, 0) ELSE pause
    BY <1>6 DEF Elapse
  <2>2. /\ since \in Int /\ 0 <= since /\ since <= Horizon
        /\ pause \in Int /\ -1 <= pause /\ pause <= 15000
    BY <1>a DEF Bounds
  <2>3. /\ since' \in Int /\ 0 <= since' /\ since' <= Horizon /\ since' >= since
        /\ Horizon >= 5000 /\ Horizon \in Int
    BY <2>1, <2>2
  <2>4. pause' \in Int /\ -1 <= pause' /\ pause' <= 15000 /\ pause' <= AtLeast(pause, 0)
    BY <2>1, <2>2
  <2>5. Bounds'
    BY <1>a, <2>1, <2>3, <2>4 DEF Bounds
  <2>6. GrownSoFar'
    BY <1>a, <2>1 DEF GrownSoFar
  <2>7. pause' = NoPause <=> pause = NoPause
    BY <2>1, <2>2
  <2>8. FullCooldownAfterPause' /\ RefusedIsStreak'
    BY <1>a, <2>1, <2>7 DEF FullCooldownAfterPause, RefusedIsStreak
  <2>9. PauseCounts'
    <3>1. CASE pause > 0
      <4>1. loop = "idle" /\ streak = 0 /\ pause + since = 5000
        BY <1>a, <3>1 DEF PauseCounts
      <4>2. pause' > 0 => pause' + since' = 5000
        BY <2>1, <2>2, <3>1, <4>1
      <4>3. pause' = 0 => since' >= 5000
        BY <2>1, <2>2, <3>1, <4>1
      <4> QED
        BY <2>1, <4>1, <4>2, <4>3 DEF PauseCounts
    <3>2. CASE ~(pause > 0)
      <4>1. pause' = pause
        BY <2>1, <3>2
      <4>2. pause = 0 /\ refused \in {10, 20} => since >= 5000
        BY <1>a DEF PauseCounts
      <4> QED
        BY <2>1, <2>2, <2>3, <3>2, <4>1, <4>2 DEF PauseCounts
    <3> QED
      BY <3>1, <3>2
  <2> QED
    BY <2>5, <2>6, <2>8, <2>9 DEF IInv
<1>7. CASE UNCHANGED cooldownVars
  <2>1. Bounds' /\ GrownSoFar'
    BY <1>7, <1>a DEF cooldownVars, Bounds, GrownSoFar
  <2>2. FullCooldownAfterPause' /\ RefusedIsStreak' /\ PauseCounts'
    BY <1>7, <1>a DEF cooldownVars, FullCooldownAfterPause, RefusedIsStreak, PauseCounts
  <2> QED
    BY <2>1, <2>2 DEF IInv
<1> QED
  BY <1>1, <1>2, <1>3, <1>4, <1>5, <1>6, <1>7 DEF CooldownNext, Outcome

LEMMA Invariance == CooldownSpec => []IInv
BY InitHolds, NextHolds, PTL DEF CooldownSpec

-----------------------------------------------------------------------------
\* Type correctness of the cooldown controller: it stays between its limits and its streak
\* never reaches ten, whatever the outcomes and however long the waits.
THEOREM TypeCorrect == CooldownSpec => []CooldownTypeOK
<1>1. IInv => CooldownTypeOK
  BY BoundsAreTypes DEF IInv
<1> QED
  BY Invariance, <1>1, PTL

\* From the start of a pause to the next success the cooldown is at its maximum.
THEOREM ResumesAtFullCooldown == CooldownSpec => []FullCooldownAfterPause
<1>1. IInv => FullCooldownAfterPause
  BY DEF IInv
<1> QED
  BY Invariance, <1>1, PTL

\* While a pause runs nothing is on its way and no refusal is counted; it began with the
\* last outcome and lasts no less than 5 s and no more than 15 s.
THEOREM PausesAreQuiet == CooldownSpec => []PauseIsQuiet
<1>1. IInv => PauseIsQuiet
  BY DEF IInv, Bounds, PauseCounts, PauseIsQuiet
<1> QED
  BY Invariance, <1>1, PTL

\* An attempt found the clock past the shortest jittered cooldown and no pause running.
LEMMA BeginsWhenReady ==
  ASSUME IInv, [CooldownNext]_cooldownVars, Begins
  PROVE  /\ pause <= 0
         /\ since >= AtLeast((current * 9) \div 10, MIN_COOLDOWN_MS)
<1>1. Attempt
  BY DEF CooldownNext, Outcome, Leave, Success, RateLimit, Failure, Submitted, Elapse, Begins, cooldownVars
<1>2. PICK wait \in Jittered : IsReady(wait)
  BY <1>1 DEF Attempt
<1>3. wait >= AtLeast((current * 9) \div 10, MIN_COOLDOWN_MS)
  BY <1>2 DEF Jittered, IInv, Bounds
<1> QED
  BY <1>2, <1>3 DEF IsReady, IInv, Bounds, Jittered

\* Each refusal in a row makes the next attempt wait longer.
THEOREM BacksOff == CooldownSpec => BacksOffWhenRefused
<1>1. ASSUME IInv, [CooldownNext]_cooldownVars, Begins
      PROVE  since >= AtLeast((Grown(refused) * 9) \div 10, MIN_COOLDOWN_MS)
  <2>1. since >= AtLeast((current * 9) \div 10, MIN_COOLDOWN_MS)
    BY <1>1, BeginsWhenReady
  <2>2. current >= Grown(refused)
    BY <1>1
    DEF IInv, Bounds, Grown, GrownSoFar, RefusedIsStreak, FullCooldownAfterPause
  <2>3. refused \in 0 .. 20 /\ current \in Int /\ since \in Int
    BY <1>1 DEF IInv, Bounds
  <2>4. Grown(refused) \in Int
    BY <2>3 DEF Grown
  <2> QED
    BY <2>1, <2>2, <2>3, <2>4
<1> QED
  BY Invariance, <1>1, PTL DEF CooldownSpec, BacksOffWhenRefused

\* The attempt after every tenth refusal in a row comes five seconds later or more.
THEOREM PausesEveryTen == CooldownSpec => PausesEveryTenRefusals
<1>1. ASSUME IInv, [CooldownNext]_cooldownVars, Begins, refused \in {DEAD_MARKET_429_THRESHOLD, MaxRefused}
      PROVE  since >= BASE_PAUSE_MS
  <2>1. pause <= 0
    BY <1>1, BeginsWhenReady
  <2>2. Bounds /\ RefusedIsStreak /\ PauseCounts
    BY <1>1 DEF IInv
  <2>3. pause = 0
    BY <1>1, <2>1, <2>2 DEF Bounds, RefusedIsStreak
  <2> QED
    BY <1>1, <2>2, <2>3 DEF PauseCounts
<1> QED
  BY Invariance, <1>1, PTL DEF CooldownSpec, PausesEveryTenRefusals
=============================================================================
