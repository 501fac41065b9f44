------------------------------ MODULE Limiter ------------------------------
(***************************************************************************)
(* internal/substrate.Limiter: the token bucket all cohorts of an account  *)
(* share, its pause window and the recovery of its rate.  Each method runs *)
(* under the limiter's mutex and is one step; Acquire is the loop of       *)
(* tryAcquire and a timer, in as many goroutines as there are callers.     *)
(*                                                                         *)
(* Time is counted in ticks, tokens in fractions of which a permit costs   *)
(* Permit; the rate is fractions per tick, halved downwards.               *)
(***************************************************************************)
EXTENDS Integers

CONSTANTS
  Waiter,            \* goroutines that may be in Acquire
  Permit,            \* one token
  maxTokens, baseRate, minRate,
  recoveryCooldown, recoveryStep, recoveryInterval,
  Pauses,            \* the durations Backoff may be called with
  Horizon            \* bound on the clock

ASSUME LimiterAssumption ==
  /\ Permit \in Nat \ {0} /\ maxTokens \in Nat
  /\ minRate \in Nat \ {0} /\ baseRate \in Nat /\ minRate <= baseRate
  /\ recoveryCooldown \in Nat /\ recoveryStep \in Nat /\ recoveryInterval \in Nat \ {0}
  /\ Pauses \subseteq Nat /\ Horizon \in Nat

VARIABLES
  now,             \* clock()
  tokens, rate,
  pauseUntil, lastBackoffEnd, lastRefill,
  stage,           \* "out" of Acquire, at "try" or in the select of its timer, "sleep"
  wake,            \* when that timer fires
  mark, granted,   \* history: the permits granted since some past time
  ends             \* history: the ends of all the pauses asked for

bucket      == <<tokens, rate, lastRefill>>
pause       == <<pauseUntil, lastBackoffEnd>>
history     == <<mark, granted, ends>>
limiterVars == <<now, bucket, pause, stage, wake, history>>

LimiterInit ==
  /\ now = 0
  /\ tokens = maxTokens /\ rate = baseRate /\ lastRefill = 0
  /\ pauseUntil = 0 /\ lastBackoffEnd = 0
  /\ stage = [c \in Waiter |-> "out"] /\ wake = [c \in Waiter |-> 0]
  /\ mark = 0 /\ granted = 0 /\ ends = {}

atMost(x, cap)    == IF x > cap THEN cap ELSE x
atLeast(x, floor) == IF x < floor THEN floor ELSE x

\* Mutant: the tokens of the time since the last refill are not capped.
refillUncapped == tokens + (now - lastRefill) * rate

refill == atMost(tokens + (now - lastRefill) * rate, maxTokens)

eligible  == lastBackoffEnd + recoveryCooldown
intervals == (now - eligible) \div recoveryInterval

\* Mutant: recovery starts with the end of the pause.
applyRecoveryEarly ==
  IF rate >= baseRate \/ now < lastBackoffEnd \/ (now - lastBackoffEnd) \div recoveryInterval < 1
    THEN rate
    ELSE atMost(rate + ((now - lastBackoffEnd) \div recoveryInterval) * recoveryStep, baseRate)

applyRecovery ==
  IF rate >= baseRate \/ now < eligible \/ intervals < 1
    THEN rate
    ELSE atMost(rate + intervals * recoveryStep, baseRate)

-----------------------------------------------------------------------------
Tick ==
  /\ now < Horizon
  /\ now' = now + 1
  /\ UNCHANGED <<bucket, pause, stage, wake, history>>

\* A window opens to count permits in.
Mark ==
  /\ mark' = now /\ granted' = 0
  /\ UNCHANGED <<now, bucket, pause, stage, wake, ends>>

Acquire(c) ==
  /\ stage[c] = "out"
  /\ stage' = [stage EXCEPT ![c] = "try"]
  /\ UNCHANGED <<now, bucket, pause, wake, history>>

Sleep(c, until) ==
  /\ stage' = [stage EXCEPT ![c] = "sleep"]
  /\ wake' = [wake EXCEPT ![c] = until]

\* tryAcquire during the pause: nothing is refilled.
TryPaused(c) ==
  /\ stage[c] = "try" /\ now < pauseUntil
  /\ Sleep(c, pauseUntil)
  /\ UNCHANGED <<now, bucket, pause, history>>

\* Past the pause it refills, then lets the rate recover, then looks.
Refill ==
  /\ now >= pauseUntil
  /\ lastRefill' = now /\ rate' = applyRecovery

TryGrants(c) ==
  /\ stage[c] = "try"
  /\ Refill /\ refill >= Permit
  /\ tokens' = refill - Permit
  /\ stage' = [stage EXCEPT ![c] = "out"]
  /\ granted' = granted + 1
  /\ UNCHANGED <<now, pause, wake, mark, ends>>

\* Too few tokens: it waits for as long as the missing part takes.
TryShort(c) ==
  /\ stage[c] = "try"
  /\ Refill /\ refill < Permit
  /\ tokens' = refill
  /\ Sleep(c, now + atLeast((Permit - refill) \div rate', 1))
  /\ UNCHANGED <<now, pause, history>>

TimerFires(c) ==
  /\ stage[c] = "sleep" /\ now >= wake[c]
  /\ stage' = [stage EXCEPT ![c] = "try"]
  /\ UNCHANGED <<now, bucket, pause, wake, history>>

\* The caller's ctx is done: Acquire returns its error.
CtxDone(c) ==
  /\ stage[c] = "sleep"
  /\ stage' = [stage EXCEPT ![c] = "out"]
  /\ UNCHANGED <<now, bucket, pause, wake, history>>

\* Mutant: the latest Backoff decides, not the longest.
BackoffLatest(d) ==
  /\ rate' = atLeast(rate \div 2, minRate)
  /\ tokens' = atMost(tokens, Permit)
  /\ pauseUntil' = now + d
  /\ lastBackoffEnd' = now + d
  /\ ends' = ends \cup {now + d}
  /\ UNCHANGED <<now, lastRefill, stage, wake, mark, granted>>

\* Somebody was throttled.
Backoff(d) ==
  /\ rate' = atLeast(rate \div 2, minRate)
  /\ tokens' = atMost(tokens, Permit)
  /\ pauseUntil' = atLeast(pauseUntil, now + d)
  /\ lastBackoffEnd' = atLeast(lastBackoffEnd, now + d)
  /\ ends' = ends \cup {now + d}
  /\ UNCHANGED <<now, lastRefill, stage, wake, mark, granted>>

LimiterNext ==
  \/ Tick \/ Mark
  \/ \E d \in Pauses : Backoff(d)
  \/ \E c \in Waiter : \/ Acquire(c) \/ TryPaused(c) \/ TryGrants(c) \/ TryShort(c)
                       \/ TimerFires(c) \/ CtxDone(c)

LimiterSpec == LimiterInit /\ [][LimiterNext]_limiterVars

-----------------------------------------------------------------------------
LimiterTypeOK ==
  /\ now \in Nat
  /\ tokens \in 0..maxTokens /\ rate \in minRate..baseRate /\ lastRefill \in 0..now
  /\ pauseUntil \in Nat /\ lastBackoffEnd \in Nat
  /\ stage \in [Waiter -> {"out", "try", "sleep"}] /\ wake \in [Waiter -> Nat]
  /\ mark \in 0..now /\ granted \in Nat
  /\ ends \subseteq Nat

\* The account is never asked for more than a full bucket and the base rate of
\* the time passed, in whatever window one counts and however many callers,
\* pauses and recoveries fall into it.
RateKept == granted * Permit <= maxTokens + baseRate * (now - mark)

\* No permit is given before the end of every pause that was asked for, be it
\* that a later and shorter one came in between.
PauseKept == [][\A t \in ends : granted' = granted + 1 => now >= t]_limiterVars

\* The rate stays down until the cooldown after the last pause has passed.
CooldownKept == [][\A t \in ends : rate' > rate => now >= t + recoveryCooldown]_limiterVars

=============================================================================
