--------------------------- MODULE AdaptiveCooldown ---------------------------
(***************************************************************************)
(* The pacing of submissions in crates/jito-handler/src/adaptive_cooldown.rs *)
(* as the hot loop of crates/bot/src/main.rs uses it: is_ready, then an    *)
(* attempt that takes its time, then record_outcome, or nothing when the   *)
(* cycle is left before there is an outcome.                               *)
(*                                                                         *)
(* Time is in whole milliseconds: the code keeps the cooldown as an f64    *)
(* and cuts it to milliseconds each time it compares it with a clock; here *)
(* it is cut at each change.                                               *)
(***************************************************************************)
EXTENDS Limits

CONSTANTS
  Tick,                        \* the clock advances by this much at a time
  Horizon                      \* bound: a clock that reached it stops there

MIN_COOLDOWN_MS == 300
MAX_COOLDOWN_MS == 5000
INITIAL_COOLDOWN_MS == 1200
DEAD_MARKET_429_THRESHOLD == 10
BASE_PAUSE_MS == 5000
MAX_PAUSE_MS == 15000

ASSUME CooldownAssumption ==
  /\ Tick \in Nat \ {0}
  /\ Horizon \in Nat /\ Horizon >= MAX_COOLDOWN_MS

VARIABLES
  current,                     \* current_ms
  streak,                      \* consecutive_429s
  since,                       \* time since last_submit; None counts as Horizon
  pause,                       \* what is left of dead_market_until, or NoPause
  loop,                        \* "attempting" between is_ready and the outcome
  refused                      \* history: 429s in a row, as CountRefusal counts them

cooldownVars == <<current, streak, since, pause, loop, refused>>

NoPause == -1                  \* dead_market_until is None; 0 is a pause that expired

\* The history counts to MaxRefused and then goes round the ten from 11 to 20: enough to
\* tell how many refusals there were, up to the longest pause, and which are a tenth.
MaxRefused == 2 * DEAD_MARKET_429_THRESHOLD
CountRefusal(n) == IF n = MaxRefused THEN DEAD_MARKET_429_THRESHOLD + 1 ELSE n + 1

-----------------------------------------------------------------------------
CooldownInit ==
  /\ current = INITIAL_COOLDOWN_MS /\ streak = 0 /\ since = Horizon
  /\ pause = NoPause /\ loop = "idle" /\ refused = 0

\* cooldown_with_jitter: any length within ten per cent, and within the limits
Jittered ==
  AtLeast((current * 9) \div 10, MIN_COOLDOWN_MS) ..
  AtMost((current * 11) \div 10, MAX_COOLDOWN_MS)

\* slip: a pause that expired still blocks, until a success clears it
ReadyWhenCleared(wait) == pause = NoPause /\ since >= wait

IsReady(wait) == pause <= 0 /\ since >= wait

Attempt ==
  /\ loop = "idle"
  /\ {wait \in Jittered : IsReady(wait)} # {}
  /\ loop' = "attempting"
  /\ UNCHANGED <<current, streak, since, pause, refused>>

\* the cycle is left with no outcome: rejected, or the order could not be paid
Leave ==
  /\ loop = "attempting"
  /\ loop' = "idle"
  /\ UNCHANGED <<current, streak, since, pause, refused>>

\* what every outcome does first
Submitted ==
  /\ loop = "attempting"
  /\ loop' = "idle"
  /\ since' = 0

\* slip: a success forgets the streak and keeps the pause on record
SuccessKeepsPause ==
  /\ Submitted
  /\ current' = AtLeast((current * 4) \div 5, MIN_COOLDOWN_MS)
  /\ streak' = 0 /\ refused' = 0
  /\ UNCHANGED pause

Success ==
  /\ Submitted
  /\ current' = AtLeast((current * 4) \div 5, MIN_COOLDOWN_MS)
  /\ streak' = 0 /\ pause' = NoPause /\ refused' = 0

\* pause_secs: five seconds, and one more for each refusal past the tenth
PauseFor(n) ==
  AtMost(BASE_PAUSE_MS + 1000 * AtMost(n - DEAD_MARKET_429_THRESHOLD, 10), MAX_PAUSE_MS)

\* slip: the streak goes on through the pause
PauseKeepsStreak(n) ==
  IF n >= DEAD_MARKET_429_THRESHOLD
  THEN /\ pause' = PauseFor(n)
       /\ streak' = n
  ELSE streak' = n /\ pause' = pause

\* slip: the pause begins one refusal late
PauseOneLate(n) ==
  IF n > DEAD_MARKET_429_THRESHOLD
  THEN pause' = BASE_PAUSE_MS /\ streak' = 0
  ELSE streak' = n /\ pause' = pause

\* the tenth refusal in a row begins a pause, and the count starts again
PauseOrCount(n) ==
  IF n >= DEAD_MARKET_429_THRESHOLD
  THEN /\ pause' = PauseFor(n)
       /\ streak' = 0
  ELSE streak' = n /\ pause' = pause

\* slip: the growth of a failure
RateLimitAsFailure ==
  /\ Submitted
  /\ current' = AtMost((current * 11) \div 10, MAX_COOLDOWN_MS)
  /\ PauseOrCount(streak + 1)
  /\ refused' = CountRefusal(refused)

RateLimit ==
  /\ Submitted
  /\ current' = AtMost((current * 3) \div 2, MAX_COOLDOWN_MS)
  /\ PauseOrCount(streak + 1)
  /\ refused' = CountRefusal(refused)

\* a failure of any other kind leaves a pause that expired as it is
Failure ==
  /\ Submitted
  /\ current' = AtMost((current * 11) \div 10, MAX_COOLDOWN_MS)
  /\ streak' = 0 /\ refused' = 0
  /\ UNCHANGED pause

Elapse ==
  /\ since' = AtMost(since + Tick, Horizon)
  /\ pause' = IF pause > 0 THEN AtLeast(pause - Tick, 0) ELSE pause
  /\ UNCHANGED <<current, streak, loop, refused>>

Outcome == Success \/ RateLimit \/ Failure

CooldownNext == Attempt \/ Leave \/ Outcome \/ Elapse

\* Time passes, whatever the loop does.
CooldownFairness == WF_cooldownVars(Elapse)

CooldownSpec == CooldownInit /\ [][CooldownNext]_cooldownVars /\ CooldownFairness

-----------------------------------------------------------------------------
CooldownTypeOK ==
  /\ current \in MIN_COOLDOWN_MS .. MAX_COOLDOWN_MS
  /\ streak \in 0 .. DEAD_MARKET_429_THRESHOLD - 1
  /\ since \in 0 .. Horizon
  /\ pause \in NoPause .. MAX_PAUSE_MS
  /\ loop \in {"idle", "attempting"}
  /\ refused \in 0 .. MaxRefused

\* "On resumption the cooldown is at MAX": from the start of a pause to the next success
\* the cooldown is at its maximum.  record_outcome never sets it there: the growth over ten
\* refusals does, from wherever the cooldown was.
FullCooldownAfterPause == pause # NoPause => current = MAX_COOLDOWN_MS

\* While a pause runs nothing is on its way and the count of refusals is empty, and the
\* pause began with the last outcome: record_outcome sets both clocks at once, and no
\* outcome is recorded before the pause is over.  It lasts the 5 to 15 s of the header;
\* that it is never more than 5 s is what DeadMarketPauses runs into.
PauseIsQuiet ==
  pause > 0 => /\ loop = "idle" /\ streak = 0
               /\ pause + since \in BASE_PAUSE_MS .. MAX_PAUSE_MS

\* The shortest cooldown there can be after k refusals in a row.
Grown(k) ==
  IF k = 0 THEN 300 ELSE IF k = 1 THEN 450 ELSE IF k = 2 THEN 675 ELSE IF k = 3 THEN 1012
  ELSE IF k = 4 THEN 1518 ELSE IF k = 5 THEN 2277 ELSE IF k = 6 THEN 3415 ELSE 5000

Begins == loop = "idle" /\ loop' = "attempting"

\* Each refusal in a row makes the next attempt wait longer, whatever the cooldown was when
\* the refusals began, and jitter takes off a tenth at most and never goes below the minimum.
BacksOffWhenRefused ==
  [][Begins => since >= AtLeast((Grown(refused) * 9) \div 10, MIN_COOLDOWN_MS)]_cooldownVars

\* The attempt after every tenth refusal in a row comes five seconds later or more.
PausesEveryTenRefusals ==
  [][Begins /\ refused \in {DEAD_MARKET_429_THRESHOLD, MaxRefused}
       => since >= BASE_PAUSE_MS]_cooldownVars

\* However often it is refused, the loop can attempt again: is_ready comes to answer true
\* for every jitter.
ReadyAgain == []<>(loop = "attempting" \/ \A wait \in Jittered : IsReady(wait))

-----------------------------------------------------------------------------
(* What the header of the source says and the code does not do.              *)

\* adaptive_cooldown.rs:15, "10+ consecutive 429s -> pause execution for 5-15 seconds":
\* from the tenth 429 in a row on, the next attempt comes only after the pause that
\* pause_secs gives for so many, and not the eleventh at the pace of the cooldown.
DeadMarketPauses ==
  [][Begins /\ refused >= DEAD_MARKET_429_THRESHOLD => since >= PauseFor(refused)]_cooldownVars
=============================================================================
