--------------------------- MODULE LaunchPathProofs ---------------------------
(***************************************************************************)
(* What the three loops a launch goes through promise: the token bucket    *)
(* all launches share (Limiter), the provider client's retries             *)
(* (AwsClient) and the reconciler's walk down the fallback chain           *)
(* (EntityLaunch).  The specifications are separate and so are the proofs, *)
(* in this order; the modules have no name in common but FaultClass.       *)
(***************************************************************************)
EXTENDS Limiter, AwsClient, EntityLaunch, WellFoundedInduction, SequenceTheorems, TLAPS

-----------------------------------------------------------------------------
(***************************************************************************)
(* What Limiter keeps for any number of callers, any constants and without *)
(* a bound on the clock other than Horizon.                                *)
(***************************************************************************)

\* What has been granted since the mark and what is left in the bucket is no
\* more than a full bucket and the base rate up to the last refill.
Conserved ==
  granted = 0 \/ /\ mark <= lastRefill
                 /\ granted * Permit + tokens <= maxTokens + baseRate * (lastRefill - mark)

\* The pause covers every pause asked for.
PauseCovers == \A t \in ends : t <= pauseUntil /\ t <= lastBackoffEnd

LimiterInv == LimiterTypeOK /\ Conserved /\ PauseCovers

\* A faster rate fills more (refill).
LEMMA MoreRate ==
  ASSUME NEW a \in Nat, NEW b \in Nat, NEW c \in Nat, b <= c
  PROVE  a * b \in Nat /\ a * b <= a * c
<1>1. PICK d \in Nat : c = b + d
  OBVIOUS
<1>2. a * c = a * b + a * d /\ a * d \in Nat /\ a * b \in Nat
  BY <1>1
<1> QED BY <1>2

\* What a refill leaves in the bucket fits and came at no more than the base rate.
LEMMA RefillBounds ==
  ASSUME LimiterTypeOK
  PROVE  refill \in 0..maxTokens /\ refill <= tokens + baseRate * (now - lastRefill)
<1> USE LimiterAssumption DEF LimiterTypeOK
<1> DEFINE gap == now - lastRefill
<1>1. gap \in Nat /\ rate \in Nat /\ tokens \in Nat /\ rate <= baseRate
  OBVIOUS
<1>2. gap * rate \in Nat /\ gap * rate <= gap * baseRate
  BY <1>1, MoreRate
<1>3. gap * baseRate = baseRate * gap
  BY <1>1
<1>4. refill = atMost(tokens + gap * rate, maxTokens)
  BY DEF refill
<1> HIDE DEF gap
<1>5. refill \in 0..maxTokens /\ refill <= tokens + baseRate * gap
  BY <1>1, <1>2, <1>3, <1>4 DEF atMost
<1> QED BY <1>5 DEF gap

\* Recovery keeps the rate between its bounds (applyRecovery).
LEMMA RecoveryBounds ==
  ASSUME LimiterTypeOK
  PROVE  applyRecovery \in minRate..baseRate
<1> USE LimiterAssumption DEF LimiterTypeOK
<1>1. CASE intervals < 1 \/ rate >= baseRate \/ now < eligible
  BY <1>1 DEF applyRecovery
<1>2. CASE ~(intervals < 1) /\ ~(rate >= baseRate) /\ ~(now < eligible)
  <2>1. intervals \in Nat
    BY <1>2 DEF intervals, eligible
  <2>2. intervals * recoveryStep \in Nat
    BY <2>1
  <2>3. applyRecovery = atMost(rate + intervals * recoveryStep, baseRate)
    BY <1>2 DEF applyRecovery
  <2> QED BY <2>2, <2>3 DEF atMost
<1> QED BY <1>1, <1>2

\* Backoff keeps the rate between its bounds.
LEMMA BackoffBounds ==
  ASSUME LimiterTypeOK
  PROVE  atLeast(rate \div 2, minRate) \in minRate..baseRate
BY LimiterAssumption DEF LimiterTypeOK, atLeast

\* The invariant holds at the start.
LEMMA LimiterInitInv == LimiterInit => LimiterInv
BY LimiterAssumption DEF LimiterInit, LimiterInv, LimiterTypeOK, Conserved, PauseCovers

\* A grant pays for its permit out of what the refill left (tryAcquire).
LEMMA GrantInv ==
  ASSUME LimiterInv, NEW c \in Waiter, TryGrants(c)
  PROVE  LimiterInv'
<1> USE LimiterAssumption DEF LimiterInv
<1>1. LimiterTypeOK'
  BY RefillBounds, RecoveryBounds DEF LimiterTypeOK, TryGrants, Refill, bucket, pause, history
<1>2. Conserved'
  <2>1. /\ tokens' = refill - Permit /\ lastRefill' = now /\ granted' = granted + 1 /\ mark' = mark
        /\ now \in Nat /\ mark \in 0..now /\ lastRefill \in 0..now /\ granted \in Nat
        /\ tokens \in Nat /\ refill \in Nat /\ Permit \in Nat /\ maxTokens \in Nat /\ baseRate \in Nat
    BY RefillBounds DEF LimiterTypeOK, TryGrants, Refill
  <2>2. (granted + 1) * Permit = granted * Permit + Permit /\ granted * Permit \in Nat
    BY <2>1
  <2>3. granted' * Permit + tokens' = granted * Permit + refill
    BY <2>1, <2>2
  <2>4. granted * Permit + refill <= maxTokens + baseRate * (now - mark)
    <3>1. CASE granted = 0
      BY <3>1, <2>1, RefillBounds, MoreRate
    <3>2. CASE granted # 0
      <4>1. granted * Permit + tokens <= maxTokens + baseRate * (lastRefill - mark)
        BY <3>2 DEF Conserved
      <4>2. refill <= tokens + baseRate * (now - lastRefill)
        BY RefillBounds
      <4>3. baseRate * (now - mark)
              = baseRate * (now - lastRefill) + baseRate * (lastRefill - mark)
        BY <2>1
      <4>4. /\ baseRate * (now - lastRefill) \in Int /\ baseRate * (lastRefill - mark) \in Int
        BY <2>1
      <4> QED BY <4>1, <4>2, <4>3, <4>4, <2>1, <2>2
    <3> QED BY <3>1, <3>2
  <2> QED BY <2>1, <2>3, <2>4 DEF Conserved
<1>3. PauseCovers'
  BY DEF PauseCovers, TryGrants, pause
<1> QED BY <1>1, <1>2, <1>3

\* Too few tokens: only the refill changes the bucket.
LEMMA ShortInv ==
  ASSUME LimiterInv, NEW c \in Waiter, TryShort(c)
  PROVE  LimiterInv'
<1> USE LimiterAssumption DEF LimiterInv
<1>1. LimiterTypeOK'
  <2>1. rate' \in minRate..baseRate /\ rate' \in Nat \ {0} /\ refill \in 0..maxTokens
    BY RefillBounds, RecoveryBounds DEF TryShort, Refill
  <2>2. (Permit - refill) \div rate' \in Int
    BY <2>1
  <2>3. now + atLeast((Permit - refill) \div rate', 1) \in Nat
    BY <2>2 DEF atLeast, LimiterTypeOK
  <2> QED BY <2>1, <2>3 DEF LimiterTypeOK, TryShort, Refill, Sleep, pause, history
<1>2. Conserved'
  <2>1. /\ tokens' = refill /\ lastRefill' = now /\ granted' = granted /\ mark' = mark
        /\ now \in Nat /\ mark \in 0..now /\ lastRefill \in 0..now /\ granted \in Nat
        /\ tokens \in Nat /\ refill \in Nat /\ Permit \in Nat /\ maxTokens \in Nat /\ baseRate \in Nat
    BY RefillBounds DEF LimiterTypeOK, TryShort, Refill, history
  <2>2. SUFFICES ASSUME granted # 0
                 PROVE  granted * Permit + refill <= maxTokens + baseRate * (now - mark)
    BY <2>1 DEF Conserved
  <2>3. granted * Permit + tokens <= maxTokens + baseRate * (lastRefill - mark)
    BY <2>2 DEF Conserved
  <2>4. refill <= tokens + baseRate * (now - lastRefill)
    BY RefillBounds
  <2>5. baseRate * (now - mark)
          = baseRate * (now - lastRefill) + baseRate * (lastRefill - mark)
    BY <2>1
  <2>6. /\ baseRate * (now - lastRefill) \in Int /\ baseRate * (lastRefill - mark) \in Int
        /\ granted * Permit \in Int
    BY <2>1
  <2> QED BY <2>1, <2>3, <2>4, <2>5, <2>6
<1>3. PauseCovers'
  BY DEF PauseCovers, TryShort, pause, history
<1> QED BY <1>1, <1>2, <1>3

\* Backoff only takes tokens away, and lengthens the pause.
LEMMA BackoffInv ==
  ASSUME LimiterInv, NEW d \in Pauses, Backoff(d)
  PROVE  LimiterInv'
<1> USE LimiterAssumption DEF LimiterInv
<1>1. LimiterTypeOK'
  BY BackoffBounds DEF LimiterTypeOK, Backoff, atMost, atLeast
<1>2. Conserved'
  <2>1. tokens' <= tokens /\ tokens' \in Nat /\ tokens \in Nat
    BY DEF LimiterTypeOK, Backoff, atMost
  <2>2. granted' = granted /\ mark' = mark /\ lastRefill' = lastRefill
    BY DEF Backoff
  <2>3. /\ granted * Permit \in Int /\ baseRate * (lastRefill - mark) \in Int
        /\ maxTokens \in Int
    BY DEF LimiterTypeOK
  <2> QED BY <2>1, <2>2, <2>3 DEF Conserved
<1>3. PauseCovers'
  BY DEF LimiterTypeOK, PauseCovers, Backoff, atLeast
<1> QED BY <1>1, <1>2, <1>3

\* Every step keeps the invariant.
LEMMA LimiterNextInv == LimiterInv /\ [LimiterNext]_limiterVars => LimiterInv'
<1> SUFFICES ASSUME LimiterInv, [LimiterNext]_limiterVars
             PROVE  LimiterInv'
  OBVIOUS
<1> USE LimiterAssumption DEF LimiterInv
<1>1. CASE Tick
  BY <1>1 DEF Tick, LimiterTypeOK, Conserved, PauseCovers, bucket, pause, history
<1>2. CASE Mark
  BY <1>2 DEF Mark, LimiterTypeOK, Conserved, PauseCovers, bucket, pause
<1>3. ASSUME NEW d \in Pauses, Backoff(d) PROVE LimiterInv'
  BY <1>3, BackoffInv
<1>4. ASSUME NEW c \in Waiter, Acquire(c) \/ TimerFires(c) \/ CtxDone(c) PROVE LimiterInv'
  BY <1>4 DEF Acquire, TimerFires, CtxDone, LimiterTypeOK, Conserved, PauseCovers, bucket, pause, history
<1>5. ASSUME NEW c \in Waiter, TryPaused(c) PROVE LimiterInv'
  BY <1>5 DEF TryPaused, Sleep, LimiterTypeOK, Conserved, PauseCovers, bucket, pause, history
<1>6. ASSUME NEW c \in Waiter, TryGrants(c) PROVE LimiterInv'
  BY <1>6, GrantInv
<1>7. ASSUME NEW c \in Waiter, TryShort(c) PROVE LimiterInv'
  BY <1>7, ShortInv
<1>8. CASE UNCHANGED limiterVars
  BY <1>8 DEF limiterVars, bucket, pause, history, LimiterTypeOK, Conserved, PauseCovers
<1> QED BY <1>1, <1>2, <1>3, <1>4, <1>5, <1>6, <1>7, <1>8 DEF LimiterNext

\* The inductive invariant of the limiter.
THEOREM LimiterInvariance == LimiterSpec => []LimiterInv
BY LimiterInitInv, LimiterNextInv, PTL DEF LimiterSpec

\* Tokens and rate stay within their bounds whatever Backoff and applyRecovery do.
THEOREM LimiterTypeCorrect == LimiterSpec => []LimiterTypeOK
<1>1. LimiterInv => LimiterTypeOK
  BY DEF LimiterInv
<1> QED BY <1>1, LimiterInvariance, PTL

\* In every window the permits of tryAcquire are within a full bucket and the
\* base rate of its length.
THEOREM RateIsKept == LimiterSpec => []RateKept
<1>1. LimiterInv => RateKept
  <2> SUFFICES ASSUME LimiterInv PROVE RateKept
    OBVIOUS
  <2> USE LimiterAssumption DEF LimiterInv, LimiterTypeOK
  <2>1. CASE granted = 0
    BY <2>1, MoreRate DEF RateKept
  <2>2. CASE granted # 0
    <3>1. granted * Permit + tokens <= maxTokens + baseRate * (lastRefill - mark)
      BY <2>2 DEF Conserved
    <3>2. mark <= lastRefill
      BY <2>2 DEF Conserved
    <3>3. baseRate * (lastRefill - mark) <= baseRate * (now - mark)
      BY <3>2, MoreRate
    <3>4. /\ granted * Permit \in Int /\ tokens \in Nat /\ maxTokens \in Nat
          /\ baseRate * (lastRefill - mark) \in Int /\ baseRate * (now - mark) \in Int
      OBVIOUS
    <3> QED BY <3>1, <3>3, <3>4 DEF RateKept
  <2> QED BY <2>1, <2>2
<1> QED BY <1>1, LimiterInvariance, PTL

\* A permit waits for the end of the longest pause (Backoff, tryAcquire).
THEOREM PauseIsKept == LimiterSpec => PauseKept
<1>1. LimiterInv /\ [LimiterNext]_limiterVars => [\A t \in ends : granted' = granted + 1 => now >= t]_limiterVars
  <2> SUFFICES ASSUME LimiterInv, LimiterNext, NEW t \in ends, granted' = granted + 1
               PROVE  now >= t
    OBVIOUS
  <2>1. granted \in Nat /\ granted # granted + 1
    BY DEF LimiterInv, LimiterTypeOK
  <2>2. PICK c \in Waiter : TryGrants(c)
    BY <2>1 DEF LimiterNext, Tick, Mark, Backoff, Acquire, TryPaused, TryShort, TimerFires, CtxDone, history
  <2> QED BY <2>2 DEF TryGrants, Refill, LimiterInv, PauseCovers, LimiterTypeOK
<1> QED BY <1>1, LimiterInvariance, PTL DEF LimiterSpec, PauseKept

\* No recovery within the cooldown of any pause (applyRecovery).
THEOREM CooldownIsKept == LimiterSpec => CooldownKept
<1>1. LimiterInv /\ [LimiterNext]_limiterVars => [\A t \in ends : rate' > rate => now >= t + recoveryCooldown]_limiterVars
  <2> SUFFICES ASSUME LimiterInv, LimiterNext, NEW t \in ends, rate' > rate
               PROVE  now >= t + recoveryCooldown
    OBVIOUS
  <2> USE LimiterAssumption DEF LimiterInv
  <2>1. rate \in minRate..baseRate /\ minRate \in Nat /\ rate \in Nat
    BY DEF LimiterTypeOK
  <2>2. rate' = applyRecovery
    <3>1. ASSUME NEW d \in Pauses, Backoff(d) PROVE FALSE
      BY <2>1, <3>1 DEF Backoff, atLeast
    <3> QED BY <2>1, <3>1 DEF LimiterNext, Tick, Mark, Acquire, TryPaused, TryGrants, TryShort, Refill,
               TimerFires, CtxDone, bucket
  <2>3. now >= eligible
    BY <2>1, <2>2 DEF applyRecovery, eligible, LimiterTypeOK
  <2> QED BY <2>3 DEF eligible, PauseCovers, LimiterTypeOK
<1> QED BY <1>1, LimiterInvariance, PTL DEF LimiterSpec, CooldownKept

-----------------------------------------------------------------------------
(***************************************************************************)
(* What AwsClient promises for any number of callers and any retry bounds. *)
(* The inductive invariant ClientInv bounds the requests of a caller by the     *)
(* attempts it has used up, and says that EC2 has only seen one token.     *)
(***************************************************************************)

\* The requests of n whole throttle rounds.
spent(n) == n * (maxAmbiguousRetries + 1)

\* A caller in its n-th throttle round has used up n whole rounds, and in this
\* one its ambiguous attempts and the request that is out.
SpentInv == \A c \in Caller :
  /\ pc[c] # "returned" => throttleAttempt[c] <= maxThrottleRetries
  /\ pc[c] = "acquire"  => calls[c] <= spent(throttleAttempt[c]) + ambiguousAttempt[c]
  /\ pc[c] = "call"     => calls[c] <= spent(throttleAttempt[c]) + ambiguousAttempt[c] + 1
  /\ pc[c] = "returned" => calls[c] <= spent(maxThrottleRetries + 1)

\* EC2 only ever sees the token of the entity's generation.
TokenInv == instances \subseteq {<<"q0">>} /\ late \subseteq {<<"q0">>}

\* An answer is given when a call returns.
AnswerInv == \A c \in Caller : surfaced[c] = "none" <=> pc[c] # "returned"

ClientInv == ClientTypeOK /\ SpentInv /\ TokenInv /\ AnswerInv

-----------------------------------------------------------------------------
\* A round more costs so many requests more.
LEMMA Rounds ==
  ASSUME NEW n \in Nat
  PROVE  /\ spent(n) \in Nat
         /\ spent(n + 1) = spent(n) + maxAmbiguousRetries + 1
BY RetryAssumption DEF spent

\* More rounds cost no less.
LEMMA MoreRounds ==
  ASSUME NEW n \in Nat, NEW m \in Nat, n <= m
  PROVE  spent(n) <= spent(m)
<1> DEFINE k == maxAmbiguousRetries + 1
<1>1. PICK d \in Nat : m = n + d
  <2>1. m - n \in Nat /\ m = n + (m - n)
    OBVIOUS
  <2> QED BY <2>1
<1>2. k \in Nat
  BY RetryAssumption
<1> HIDE DEF k
<1>3. m * k = n * k + d * k /\ d * k \in Nat /\ n * k \in Nat
  BY <1>1, <1>2
<1>4. n * k <= m * k
  BY <1>3
<1> QED BY <1>4 DEF spent, k

\* What Classify makes of each error callWithRetry meets.
LEMMA Classes ==
  /\ Classify("Canceled") = "Terminal" /\ Classify("Denied") = "Terminal"
  /\ Classify("DeadlineExceeded") = "Ambiguous" /\ Classify("Transport") = "Ambiguous"
  /\ Classify("NotFound") = "RetryableConsistency"
  /\ Classify("Throttling") = "Throttle"
  /\ Classify("InsufficientCapacity") = "CapacityExhausted"
BY DEF Classify, awsFaultTable

\* Every caller starts a call with nothing spent.
LEMMA ClientInitInv == ClientInit => ClientInv
<1> SUFFICES ASSUME ClientInit PROVE ClientInv
  OBVIOUS
<1>1. ClientTypeOK
  BY RetryAssumption DEF ClientInit, ClientTypeOK, CtxErr, FaultClass
<1>2. SpentInv
  BY RetryAssumption, Rounds DEF ClientInit, SpentInv
<1> QED BY <1>1, <1>2 DEF ClientInit, ClientInv, TokenInv, AnswerInv

-----------------------------------------------------------------------------
(* What the handling of an error comes to.                                  *)

Err == CtxErr \cup ApiErr \cup {"Transport"}
Class == FaultClass \ {"Ambiguous"}

\* The loop goes round again, or the call ends, with these attempts used up.
Again(c, thr, amb) ==
  /\ TryAgain(c)
  /\ throttleAttempt' = [throttleAttempt EXCEPT ![c] = thr]
  /\ ambiguousAttempt' = [ambiguousAttempt EXCEPT ![c] = amb]

Ends(c, class, thr, amb) ==
  /\ Surface(c, class)
  /\ throttleAttempt' = [throttleAttempt EXCEPT ![c] = thr]
  /\ ambiguousAttempt' = [ambiguousAttempt EXCEPT ![c] = amb]

\* Going round again uses up an ambiguous attempt or begins the next throttle
\* round; either stays within its bound.
NextRound(c) ==
  \/ /\ ambiguousAttempt[c] + 1 <= maxAmbiguousRetries
     /\ Again(c, throttleAttempt[c], ambiguousAttempt[c] + 1)
  \/ /\ throttleAttempt[c] + 1 <= maxThrottleRetries
     /\ Again(c, throttleAttempt[c] + 1, 0)

LastRound(c, class) ==
  \/ Ends(c, class, throttleAttempt[c], ambiguousAttempt[c])
  \/ Ends(c, class, throttleAttempt[c] + 1, 0)

\* callWithRetry's switch does one or the other, and only a capacity answer
\* surfaces as such.
LEMMA HandleOutcome ==
  ASSUME ClientTypeOK, NEW c \in Caller, NEW err \in Err, Handle(c, err)
  PROVE  /\ backoffs' \in Nat
         /\ \/ NextRound(c)
            \/ \E class \in Class : /\ LastRound(c, class)
                                    /\ class = "CapacityExhausted" => err = "InsufficientCapacity"
<1>1. /\ throttleAttempt[c] \in Nat /\ ambiguousAttempt[c] \in Nat
      /\ backoffs \in Nat
      /\ throttleAttempt = [throttleAttempt EXCEPT ![c] = throttleAttempt[c]]
      /\ ambiguousAttempt = [ambiguousAttempt EXCEPT ![c] = ambiguousAttempt[c]]
  BY RetryAssumption DEF ClientTypeOK
<1>2. CASE OnThrottle(c)
  <2>1. backoffs' \in Nat
    BY <1>1, <1>2 DEF OnThrottle
  <2>2. CASE throttleAttempt[c] < maxThrottleRetries /\ TryAgain(c)
    BY <1>1, <1>2, <2>1, <2>2, RetryAssumption DEF OnThrottle, NextRound, Again
  <2>3. ASSUME NEW class \in {"Throttle", "Terminal"}, Surface(c, class)
        PROVE  \E k \in Class : LastRound(c, k) /\ k # "CapacityExhausted"
    BY <1>2, <2>3 DEF OnThrottle, LastRound, Ends, Class, FaultClass
  <2> QED BY <1>2, <2>1, <2>2, <2>3 DEF OnThrottle
<1>3. CASE OnAmbiguous(c)
  <2>1. backoffs' \in Nat
    BY <1>1, <1>3 DEF OnAmbiguous
  <2>2. CASE ambiguousAttempt[c] < maxAmbiguousRetries /\ TryAgain(c)
    BY <1>1, <1>3, <2>1, <2>2, RetryAssumption DEF OnAmbiguous, NextRound, Again
  <2>3. CASE Surface(c, "Terminal") /\ UNCHANGED ambiguousAttempt
    BY <1>1, <1>3, <2>1, <2>3 DEF OnAmbiguous, LastRound, Ends, Class, FaultClass
  <2> QED BY <1>3, <2>2, <2>3 DEF OnAmbiguous
<1>4. CASE Classify(err) \notin {"Throttle", "Ambiguous"}
           /\ Surface(c, Classify(err)) /\ UNCHANGED <<loop, backoffs>>
  <2>1. Classify(err) \in Class
    BY <1>4, Classes DEF Err, CtxErr, ApiErr, Class, FaultClass
  <2>2. Classify(err) = "CapacityExhausted" => err = "InsufficientCapacity"
    BY Classes DEF Err, CtxErr, ApiErr
  <2>3. LastRound(c, Classify(err))
    BY <1>1, <1>4 DEF LastRound, Ends, loop
  <2> QED BY <1>1, <1>4, <2>1, <2>2, <2>3
<1> QED BY <1>2, <1>3, <1>4 DEF Handle

\* A call that has not returned has spent no more than the rounds it is in.
LEMMA Spending ==
  ASSUME ClientInv, NEW c \in Caller, pc[c] # "returned"
  PROVE  /\ calls[c] \in Nat
         /\ throttleAttempt[c] \in Nat /\ ambiguousAttempt[c] \in 0..maxAmbiguousRetries
         /\ calls[c] <= spent(throttleAttempt[c]) + ambiguousAttempt[c] + 1
         /\ calls[c] <= spent(throttleAttempt[c] + 1)
         /\ calls[c] <= spent(maxThrottleRetries + 1)
<1>1. /\ throttleAttempt[c] \in Nat /\ throttleAttempt[c] <= maxThrottleRetries
      /\ ambiguousAttempt[c] \in 0..maxAmbiguousRetries /\ calls[c] \in Nat
      /\ pc[c] \in {"acquire", "call"}
  BY RetryAssumption DEF ClientInv, ClientTypeOK, SpentInv
<1>2. /\ spent(throttleAttempt[c]) \in Nat
      /\ spent(throttleAttempt[c] + 1) = spent(throttleAttempt[c]) + maxAmbiguousRetries + 1
  BY <1>1, Rounds
<1>3. /\ spent(throttleAttempt[c] + 1) <= spent(maxThrottleRetries + 1)
      /\ spent(maxThrottleRetries + 1) \in Nat
  <2>1. /\ throttleAttempt[c] + 1 \in Nat /\ maxThrottleRetries + 1 \in Nat
        /\ throttleAttempt[c] + 1 <= maxThrottleRetries + 1
    BY <1>1, RetryAssumption
  <2> QED BY <2>1, Rounds, MoreRounds
<1>4. calls[c] <= spent(throttleAttempt[c]) + ambiguousAttempt[c] + 1
  BY <1>1, <1>2 DEF ClientInv, SpentInv
<1> QED BY <1>1, <1>2, <1>3, <1>4, RetryAssumption

-----------------------------------------------------------------------------
(* The invariant is inductive.                                              *)

\* Handling an error keeps the invariant, whichever action it is part of.
LEMMA HandledInv ==
  ASSUME ClientInv, NEW c \in Caller, pc[c] # "returned", NEW err \in Err, Handle(c, err),
         UNCHANGED <<ctxErr, calls>>
  PROVE  ClientTypeOK' /\ SpentInv' /\ AnswerInv'
<1>1. ClientTypeOK /\ SpentInv /\ AnswerInv
  BY DEF ClientInv
<1>2. backoffs' \in Nat
  BY <1>1, HandleOutcome
<1>3. /\ calls[c] \in Nat
      /\ throttleAttempt[c] \in Nat /\ ambiguousAttempt[c] \in 0..maxAmbiguousRetries
      /\ calls[c] <= spent(throttleAttempt[c]) + ambiguousAttempt[c] + 1
      /\ calls[c] <= spent(throttleAttempt[c] + 1)
      /\ calls[c] <= spent(maxThrottleRetries + 1)
  BY Spending
<1>4. /\ throttleAttempt[c] <= maxThrottleRetries
      /\ spent(throttleAttempt[c]) \in Nat /\ spent(throttleAttempt[c] + 1) \in Nat
      /\ throttleAttempt[c] + 1 \in 0..(maxThrottleRetries + 1)
  BY <1>1, <1>3, Rounds, RetryAssumption DEF SpentInv
<1>5. CASE NextRound(c)
  <2>1. PICK thr \in Nat, amb \in 0..maxAmbiguousRetries :
          /\ Again(c, thr, amb)
          /\ thr <= maxThrottleRetries
          /\ calls[c] <= spent(thr) + amb
    <3>1. CASE /\ ambiguousAttempt[c] + 1 <= maxAmbiguousRetries
               /\ Again(c, throttleAttempt[c], ambiguousAttempt[c] + 1)
      BY <1>3, <1>4, <3>1, RetryAssumption
    <3>2. CASE /\ throttleAttempt[c] + 1 <= maxThrottleRetries
               /\ Again(c, throttleAttempt[c] + 1, 0)
      BY <1>3, <1>4, <3>2, RetryAssumption
    <3> QED BY <1>5, <3>1, <3>2 DEF NextRound
  <2>2. ClientTypeOK'
    BY <1>1, <1>2, <2>1, RetryAssumption DEF ClientTypeOK, Again, TryAgain
  <2>3. SpentInv'
    BY <1>1, <2>1 DEF SpentInv, ClientTypeOK, Again, TryAgain
  <2>4. AnswerInv'
    BY <1>1, <2>1 DEF AnswerInv, ClientTypeOK, Again, TryAgain
  <2> QED BY <2>2, <2>3, <2>4
<1>6. ASSUME NEW class \in Class, LastRound(c, class)
      PROVE  ClientTypeOK' /\ SpentInv' /\ AnswerInv'
  <2>1. PICK thr \in 0..(maxThrottleRetries + 1), amb \in 0..maxAmbiguousRetries :
          Ends(c, class, thr, amb)
    BY <1>3, <1>4, <1>6, RetryAssumption DEF LastRound
  <2>2. ClientTypeOK'
    BY <1>1, <1>2, <2>1, RetryAssumption DEF ClientTypeOK, Ends, Surface, Class
  <2>3. SpentInv'
    BY <1>1, <1>3, <2>1 DEF SpentInv, ClientTypeOK, Ends, Surface
  <2>4. AnswerInv'
    BY <1>1, <2>1 DEF AnswerInv, ClientTypeOK, Ends, Surface, Class, FaultClass
  <2> QED BY <2>2, <2>3, <2>4
<1> QED BY <1>1, <1>5, <1>6, HandleOutcome

\* One step per action: what it does to the attempts, the requests and EC2.
LEMMA ClientStepInv == ClientInv /\ [ClientNext]_clientVars => ClientInv'
<1> SUFFICES ASSUME ClientInv, [ClientNext]_clientVars PROVE ClientInv'
  OBVIOUS
<1>1. ClientTypeOK /\ SpentInv /\ TokenInv /\ AnswerInv
  BY DEF ClientInv
<1>2. ASSUME NEW c \in Caller, CtxEnds(c) PROVE ClientInv'
  <2>1. ClientTypeOK'
    BY <1>1, <1>2 DEF CtxEnds, ClientTypeOK, loop
  <2>2. SpentInv' /\ TokenInv' /\ AnswerInv'
    BY <1>1, <1>2 DEF CtxEnds, SpentInv, TokenInv, AnswerInv, loop, ec2
  <2> QED BY <2>1, <2>2 DEF ClientInv
<1>3. ASSUME NEW c \in Caller, Send(c) PROVE ClientInv'
  <2>1. ClientTypeOK'
    BY <1>1, <1>3 DEF Send, ClientTypeOK, loop
  <2>2. SpentInv'
    <3>1. /\ calls[c] \in Nat /\ spent(throttleAttempt[c]) \in Nat
          /\ ambiguousAttempt[c] \in Nat
      BY <1>1, Rounds, RetryAssumption DEF ClientTypeOK
    <3> QED BY <1>1, <1>3, <3>1 DEF Send, SpentInv, ClientTypeOK, loop
  <2>3. TokenInv' /\ AnswerInv'
    BY <1>1, <1>3 DEF Send, TokenInv, AnswerInv, ClientTypeOK, loop, ec2
  <2> QED BY <2>1, <2>2, <2>3 DEF ClientInv
<1>4. ASSUME NEW c \in Caller, NotSent(c) PROVE ClientInv'
  <2>1. ctxErr[c] \in Err /\ pc[c] # "returned"
    BY <1>1, <1>4 DEF NotSent, ClientTypeOK, Err
  <2>2. ClientTypeOK' /\ SpentInv' /\ AnswerInv'
    BY <1>4, <2>1, HandledInv DEF NotSent
  <2>3. TokenInv'
    BY <1>1, <1>4 DEF NotSent, TokenInv, ec2
  <2> QED BY <2>2, <2>3 DEF ClientInv
<1>5. ASSUME NEW c \in Caller, AnswerOK(c) PROVE ClientInv'
  <2>1. ClientTypeOK'
    BY <1>1, <1>5 DEF AnswerOK, Surface, ClientTypeOK, loop
  <2>2. SpentInv'
    <3>1. calls[c] <= spent(maxThrottleRetries + 1)
      BY <1>5, Spending DEF AnswerOK
    <3> QED BY <1>1, <1>5, <3>1 DEF AnswerOK, Surface, SpentInv, ClientTypeOK, loop
  <2>3. TokenInv' /\ AnswerInv'
    BY <1>1, <1>5 DEF AnswerOK, Surface, TokenInv, AnswerInv, ClientTypeOK, clientToken
  <2> QED BY <2>1, <2>2, <2>3 DEF ClientInv
<1>10. ASSUME NEW c \in Caller, AnswerEmpty(c) PROVE ClientInv'
  <2>1. ClientTypeOK'
    BY <1>1, <1>10 DEF AnswerEmpty, Surface, ClientTypeOK, loop, FaultClass
  <2>2. SpentInv'
    <3>1. calls[c] <= spent(maxThrottleRetries + 1)
      BY <1>10, Spending DEF AnswerEmpty
    <3> QED BY <1>1, <1>10, <3>1 DEF AnswerEmpty, Surface, SpentInv, ClientTypeOK, loop
  <2>3. TokenInv' /\ AnswerInv'
    BY <1>1, <1>10 DEF AnswerEmpty, Surface, TokenInv, AnswerInv, ClientTypeOK, ec2
  <2> QED BY <2>1, <2>2, <2>3 DEF ClientInv
<1>6. ASSUME NEW c \in Caller, AnswerError(c) PROVE ClientInv'
  <2>1. PICK err \in ApiErr : Handle(c, err)
    BY <1>6 DEF AnswerError
  <2>2. ClientTypeOK' /\ SpentInv' /\ AnswerInv'
    BY <1>6, <2>1, HandledInv DEF AnswerError, Err
  <2>3. TokenInv'
    BY <1>1, <1>6 DEF AnswerError, TokenInv, ec2
  <2> QED BY <2>2, <2>3 DEF ClientInv
<1>7. ASSUME NEW c \in Caller, NoAnswer(c) PROVE ClientInv'
  <2>1. PICK err \in Err : Handle(c, err)
    BY <1>1, <1>7 DEF NoAnswer, ClientTypeOK, Err
  <2>2. ClientTypeOK' /\ SpentInv' /\ AnswerInv'
    BY <1>7, <2>1, HandledInv DEF NoAnswer
  <2>3. TokenInv'
    BY <1>1, <1>7 DEF NoAnswer, TokenInv, clientToken
  <2> QED BY <2>2, <2>3 DEF ClientInv
<1>8. CASE Lands
  <2>1. ClientTypeOK' /\ SpentInv' /\ AnswerInv'
    BY <1>1, <1>8 DEF Lands, ClientTypeOK, SpentInv, AnswerInv, loop
  <2>2. TokenInv'
    BY <1>1, <1>8 DEF Lands, TokenInv
  <2> QED BY <2>1, <2>2 DEF ClientInv
<1>9. CASE UNCHANGED clientVars
  BY <1>1, <1>9 DEF clientVars, loop, ec2, ClientInv, ClientTypeOK, SpentInv, TokenInv, AnswerInv
<1> QED BY <1>2, <1>3, <1>4, <1>5, <1>6, <1>7, <1>8, <1>9, <1>10 DEF ClientNext, Step

-----------------------------------------------------------------------------
\* The strengthened invariant holds in every reachable state.
THEOREM ClientInvariance == ClientSpec => []ClientInv
BY ClientInitInv, ClientStepInv, PTL DEF ClientSpec

\* Types; among them that a call never surfaces Ambiguous (client.go, B4).
THEOREM ClientTypeCorrect == ClientSpec => []ClientTypeOK
BY ClientInvariance, PTL DEF ClientInv

\* callWithRetry is bounded, for any bounds of its two loops.
THEOREM BoundedCalls == ClientSpec => []CallBound
<1>1. ClientInv => CallBound
  <2> SUFFICES ASSUME ClientInv, NEW c \in Caller PROVE calls[c] <= spent(maxThrottleRetries + 1)
    BY DEF CallBound, callBound, spent
  <2>1. CASE pc[c] = "returned"
    BY <2>1 DEF ClientInv, SpentInv
  <2>2. CASE pc[c] # "returned"
    BY <2>2, Spending
  <2> QED BY <2>1, <2>2
<1> QED BY <1>1, ClientInvariance, PTL

-----------------------------------------------------------------------------
(* AwsClient implements LaunchOnce.                                         *)

\* Handling an error answers nobody, or refuses the caller; capacity is refused
\* only by an EC2 that has no instance.
LEMMA HandledRefines ==
  ASSUME ClientInv, NEW c \in Caller, pc[c] # "returned", NEW err \in Err, Handle(c, err),
         err = "InsufficientCapacity" => instances = {}
  PROVE  \/ UNCHANGED surfaced
         \/ \E class \in Class : /\ surfaced[c] = "none"
                                 /\ class = "CapacityExhausted" => instances = {}
                                 /\ surfaced' = [surfaced EXCEPT ![c] = class]
<1>1. surfaced[c] = "none"
  BY DEF ClientInv, AnswerInv
<1>2. CASE NextRound(c)
  BY <1>2 DEF NextRound, Again, TryAgain
<1>3. ASSUME NEW class \in Class, LastRound(c, class)
      PROVE  surfaced' = [surfaced EXCEPT ![c] = class]
  BY <1>3 DEF LastRound, Ends, Surface
<1>4. ClientTypeOK
  BY DEF ClientInv
<1> QED BY <1>1, <1>2, <1>3, <1>4, HandleOutcome

\* Every step of the client is a step of LaunchOnce, or stutters.
LEMMA LaunchStep == ClientInv /\ [ClientNext]_clientVars => [Abstract!LNext]_(Abstract!lvars)
<1> SUFFICES ASSUME ClientInv, [ClientNext]_clientVars
             PROVE  \/ Abstract!LNext
                    \/ UNCHANGED surfaced /\ (instances' # {}) = (instances # {})
  BY DEF Abstract!lvars
<1> DEFINE exists == instances # {}
<1>1. ASSUME NEW c \in Caller, pc[c] # "returned", NEW err \in Err, Handle(c, err),
             err = "InsufficientCapacity" => instances = {}, instances' = instances
      PROVE  Abstract!LNext \/ (UNCHANGED surfaced /\ exists' = exists)
  <2>1. ASSUME NEW class \in Class, surfaced[c] = "none",
               class = "CapacityExhausted" => instances = {},
               surfaced' = [surfaced EXCEPT ![c] = class]
        PROVE  Abstract!LNext
    BY <1>1, <2>1 DEF Abstract!LNext, Abstract!Refuse, Class
  <2> QED BY <1>1, <2>1, HandledRefines
<1>2. ASSUME NEW c \in Caller, CtxEnds(c) \/ Send(c)
      PROVE  UNCHANGED surfaced /\ exists' = exists
  BY <1>2 DEF CtxEnds, Send, ec2
<1>3. ASSUME NEW c \in Caller, NotSent(c)
      PROVE  Abstract!LNext \/ (UNCHANGED surfaced /\ exists' = exists)
  <2>1. ctxErr[c] \in Err /\ ctxErr[c] # "InsufficientCapacity" /\ pc[c] # "returned"
    BY <1>3 DEF NotSent, ClientInv, ClientTypeOK, Err, CtxErr
  <2> QED BY <1>1, <1>3, <2>1 DEF NotSent, ec2
<1>4. ASSUME NEW c \in Caller, AnswerOK(c)
      PROVE  Abstract!LNext
  <2>1. surfaced[c] = "none" /\ exists'
    BY <1>4 DEF AnswerOK, ClientInv, AnswerInv
  <2>2. Abstract!Acknowledge(c)
    BY <1>4, <2>1 DEF AnswerOK, Surface, Abstract!Acknowledge
  <2> QED BY <2>2 DEF Abstract!LNext
<1>5. ASSUME NEW c \in Caller, AnswerError(c)
      PROVE  Abstract!LNext \/ (UNCHANGED surfaced /\ exists' = exists)
  <2>1. PICK err \in ApiErr : /\ err = "InsufficientCapacity" => clientToken(c) \notin instances
                              /\ Handle(c, err)
    BY <1>5 DEF AnswerError
  <2>2. err = "InsufficientCapacity" => instances = {}
    BY <2>1 DEF ClientInv, TokenInv, clientToken
  <2> QED BY <1>1, <1>5, <2>1, <2>2 DEF AnswerError, Err, ec2
<1>6. ASSUME NEW c \in Caller, NoAnswer(c)
      PROVE  Abstract!LNext \/ (UNCHANGED surfaced /\ exists' = exists)
  <2>1. PICK err \in Err \ {"InsufficientCapacity"} : Handle(c, err)
    BY <1>6 DEF NoAnswer, ClientInv, ClientTypeOK, Err, CtxErr
  <2> QED BY <1>1, <1>6, <2>1 DEF NoAnswer
<1>9. ASSUME NEW c \in Caller, AnswerEmpty(c) PROVE Abstract!LNext
  <2>1. surfaced[c] = "none" /\ instances' = instances /\ surfaced' = [surfaced EXCEPT ![c] = "Terminal"]
    BY <1>9 DEF AnswerEmpty, Surface, ec2, ClientInv, AnswerInv
  <2>2. Abstract!Refuse(c, "Terminal")
    BY <2>1 DEF Abstract!Refuse
  <2> QED BY <2>2 DEF Abstract!LNext, FaultClass
<1>7. CASE Lands
  <2>1. Abstract!Create
    BY <1>7 DEF Lands, Abstract!Create
  <2> QED BY <2>1 DEF Abstract!LNext
<1>8. CASE UNCHANGED clientVars
  BY <1>8 DEF clientVars, ec2
<1> QED BY <1>2, <1>3, <1>4, <1>5, <1>6, <1>7, <1>8, <1>9 DEF ClientNext, Step

\* The calls for one generation of an entity are one launch: one instance, one
\* answer each, true when it is given.
THEOREM ClientImplementation == ClientSpec => ImplementsLaunchOnce
<1>1. ClientInit => Abstract!LInit
  BY DEF ClientInit, Abstract!LInit
<1> QED BY <1>1, LaunchStep, ClientInvariance, PTL DEF ClientSpec, ImplementsLaunchOnce, Abstract!LSpec

-----------------------------------------------------------------------------
(***************************************************************************)
(* What EntityLaunch promises for any fallback chains, of any length, and  *)
(* any bound of consistency retries.  While doLaunch runs, Walk ties the   *)
(* rung it is on to the attempts it has recorded, and the retries it has   *)
(* used up to the lags of that very rung.                                  *)
(***************************************************************************)

Attempt == [rung : Rungs, fault : FaultClass \cup {"none", "PhaseBudgetExceeded"}]

\* Where the walk is: all that was tried had no capacity, the rungs tried are
\* the first of the chain, and the rung at hand is the next one.
OnChain ==
  chain # << >> /\ Distinct =>
    /\ Len(attempts) < Len(chain) /\ rung = chain[Len(attempts) + 1]
    /\ \A i \in DOMAIN attempts : attempts[i].rung = chain[i]

Walk ==
  Running =>
    /\ consistencyAttempt <= MaxConsistencyRetries /\ consistencyAttempt <= lags[rung]
    /\ \A i \in DOMAIN attempts : attempts[i].fault = "CapacityExhausted"
    /\ OnChain

LaunchInv == LaunchTypeOK /\ Walk /\ AttemptsFollowChain /\ LagIsOfOneRung

-----------------------------------------------------------------------------
\* advanceRung's search has a first place whenever it has one.
LEMMA FirstPlace ==
  ASSUME LaunchTypeOK, Places # {}
  PROVE  First \in Places /\ \A j \in Places : First <= j
<1>1. chain \in Seq(Rungs) /\ Places \subseteq Nat
  BY LaunchAssumption DEF LaunchTypeOK, Places
<1> DEFINE before == {p \in Nat \X Nat : p[1] < p[2]}
<1>2. IsWellFoundedOn(before, Nat)
  BY NatLessThanWellFounded DEF OpToRel
<1>3. PICK i \in Places : \A j \in Places : <<j, i>> \notin before
  <2> HIDE DEF before
  <2> QED BY <1>1, <1>2, WFMin
<1>4. ASSUME NEW j \in Places PROVE i <= j
  <2>1. <<j, i>> \in Nat \X Nat /\ <<j, i>>[1] = j /\ <<j, i>>[2] = i /\ i \in Nat /\ j \in Nat
    BY <1>1
  <2>2. ~ (<<j, i>>[1] < <<j, i>>[2])
    BY <1>3, <2>1, Zenon
  <2> QED BY <2>1, <2>2
<1> QED BY <1>4 DEF First

\* An attempt is put after those that are there.
LEMMA Appended ==
  ASSUME NEW a \in Attempt, attempts \in Seq(Attempt), attempts' = Append(attempts, a)
  PROVE  /\ attempts' \in Seq(Attempt) /\ Len(attempts') = Len(attempts) + 1
         /\ DOMAIN attempts = 1..Len(attempts) /\ DOMAIN attempts' = 1..(Len(attempts) + 1)
         /\ attempts'[Len(attempts')] = a /\ \A i \in DOMAIN attempts : attempts'[i] = attempts[i]
BY DEF Attempt

\* A launch that ends with one more attempt, on the rung at hand, keeps the
\* order of the chain.
LEMMA LastAttempt ==
  ASSUME LaunchTypeOK, Walk, Running, UNCHANGED <<chain, rung>>,
         NEW f \in FaultClass \cup {"none", "PhaseBudgetExceeded"}, addAttempt(f)
  PROVE  /\ AttemptsFollowChain' /\ attempts' \in Seq(Attempt)
         /\ Len(attempts') > 0 /\ attempts'[Len(attempts')].fault = f
<1> DEFINE a == [rung |-> rung, fault |-> f]
<1>1. a \in Attempt /\ attempts \in Seq(Attempt) /\ attempts' = Append(attempts, a)
  BY DEF LaunchTypeOK, Attempt, addAttempt
<1>2. /\ attempts' \in Seq(Attempt) /\ Len(attempts') = Len(attempts) + 1
      /\ DOMAIN attempts = 1..Len(attempts) /\ DOMAIN attempts' = 1..(Len(attempts) + 1)
      /\ attempts'[Len(attempts')] = a /\ \A i \in DOMAIN attempts : attempts'[i] = attempts[i]
  BY <1>1, Appended
<1>3. Len(attempts) \in Nat
  BY <1>1, LenProperties
<1>4. \A i \in DOMAIN attempts' : i < Len(attempts') => i \in Tried'
  BY <1>2, <1>3 DEF Walk, Tried
<1>5. ASSUME chain # << >> /\ Distinct
      PROVE  Len(attempts') <= Len(chain) /\ \A i \in DOMAIN attempts' : attempts'[i].rung = chain[i]
  <2>1. /\ Len(attempts) < Len(chain) /\ rung = chain[Len(attempts) + 1]
        /\ \A i \in DOMAIN attempts : attempts[i].rung = chain[i]
    BY <1>5 DEF Walk, OnChain
  <2>2. Len(chain) \in Nat
    BY LaunchAssumption, LenProperties DEF LaunchTypeOK
  <2> QED BY <1>2, <1>3, <2>1, <2>2
<1> QED BY <1>2, <1>3, <1>4, <1>5 DEF AttemptsFollowChain, Distinct

\* doLaunch starts on the first rung, with nothing tried.
LEMMA LaunchInitInv == LaunchInit => LaunchInv
<1> SUFFICES ASSUME LaunchInit PROVE LaunchInv
  OBVIOUS
<1>1. chain \in Chains /\ chain \in Seq(Rungs)
  BY LaunchAssumption DEF LaunchInit
<1>2. chain # << >> => Len(chain) > 0 /\ Head(chain) = chain[1] /\ chain[1] \in Rungs
  BY <1>1, EmptySeq
<1>3. attempts = << >> /\ Len(attempts) = 0 /\ DOMAIN attempts = {}
  BY DEF LaunchInit
<1>4. rung \in Rungs /\ (chain # << >> => rung = chain[1])
  BY <1>1, <1>2 DEF LaunchInit
<1>5. LaunchTypeOK
  <2>1. attempts \in Seq([rung : Rungs, fault : FaultClass \cup {"none", "PhaseBudgetExceeded"}])
    BY <1>3
  <2> QED BY <1>1, <1>4, <2>1, LaunchAssumption DEF LaunchInit, LaunchTypeOK
<1>6. Walk
  BY <1>2, <1>3, <1>4, LaunchAssumption DEF Walk, OnChain, LaunchInit
<1>7. AttemptsFollowChain
  BY <1>1, <1>2, <1>3 DEF AttemptsFollowChain
<1> QED BY <1>5, <1>6, <1>7 DEF LaunchInv, LagIsOfOneRung, LaunchInit

-----------------------------------------------------------------------------
(* The invariant is inductive.                                              *)

\* The invariant is inductive: one step per action.
LEMMA LaunchStepInv == LaunchInv /\ [LaunchNext]_launchVars => LaunchInv'
<1> SUFFICES ASSUME LaunchInv, [LaunchNext]_launchVars PROVE LaunchInv'
  OBVIOUS
<1> USE DEF LaunchInv
<1>1. /\ MaxConsistencyRetries \in Nat /\ consistencyAttempt \in Nat /\ lags \in [Rungs -> Nat]
      /\ chain \in Seq(Rungs) /\ rung \in Rungs /\ attempts \in Seq(Attempt)
      /\ DOMAIN chain = 1..Len(chain) /\ Len(chain) \in Nat
      /\ DOMAIN attempts = 1..Len(attempts) /\ Len(attempts) \in Nat
  BY LaunchAssumption, LenProperties DEF LaunchTypeOK, Attempt
<1>2. CASE Cancel \/ Deadline \/ UNCHANGED launchVars
  <2>1. UNCHANGED <<at, chain, rung, consistencyAttempt, attempts, instance, lags>>
    BY <1>2 DEF Cancel, Deadline, launchVars
  <2>2. LaunchTypeOK'
    BY <1>2, <2>1 DEF Cancel, Deadline, launchVars, LaunchTypeOK
  <2> QED BY <2>1, <2>2 DEF Walk, Running, OnChain, AttemptsFollowChain, Tried, Distinct,
                            LagIsOfOneRung
<1>3. CASE at' \in {"loop", "call", "cancelled"} /\ UNCHANGED <<chain, rung, attempts>>
           /\ consistencyAttempt' \in 0..MaxConsistencyRetries
           /\ consistencyAttempt' <= lags'[rung] /\ lags' \in [Rungs -> Nat]
           /\ Running /\ UNCHANGED <<phaseErr, parentErr, instance>>
  <2>1. LaunchTypeOK'
    BY <1>1, <1>3 DEF LaunchTypeOK
  <2> QED BY <1>1, <1>3, <2>1 DEF Walk, Running, OnChain, AttemptsFollowChain, Tried, Distinct,
                                  LagIsOfOneRung
<1>4. ASSUME NEW f \in FaultClass \cup {"none", "PhaseBudgetExceeded"}, addAttempt(f),
             at' \in {"launched", "terminal"}, UNCHANGED <<chain, rung, phaseErr, parentErr>>, Running,
             consistencyAttempt' \in 0..(MaxConsistencyRetries + 1),
             instance' \in {"absent", "live"}, lags' \in [Rungs -> Nat],
             f = "RetryableConsistency" => lags'[rung] > MaxConsistencyRetries
      PROVE  LaunchInv'
  <2>1. /\ AttemptsFollowChain' /\ attempts' \in Seq(Attempt)
        /\ Len(attempts') > 0 /\ attempts'[Len(attempts')].fault = f
    BY <1>4, LastAttempt
  <2>2. LaunchTypeOK'
    BY <1>4, <2>1 DEF LaunchTypeOK, Attempt
  <2>3. Walk'
    BY <1>4 DEF Walk, Running
  <2>4. LagIsOfOneRung'
    BY <1>4, <2>1 DEF LagIsOfOneRung
  <2> QED BY <2>1, <2>2, <2>3, <2>4
<1>5. CASE LoopHead
  <2>1. Running
    BY <1>5 DEF LoopHead, Running
  <2>2. CASE GiveUp("PhaseBudgetExceeded")
    <3>1. consistencyAttempt' \in 0..(MaxConsistencyRetries + 1)
      BY <1>5 DEF LoopHead, LaunchTypeOK
    <3> QED BY <1>4, <1>5, <2>1, <2>2, <3>1 DEF LoopHead, GiveUp, LaunchTypeOK, FaultClass
  <2>3. CASE at' \in {"call", "cancelled"} /\ UNCHANGED attempts
    <3>1. consistencyAttempt \in 0..MaxConsistencyRetries /\ consistencyAttempt <= lags[rung]
      BY <1>1, <2>1 DEF Walk
    <3> QED BY <1>1, <1>3, <1>5, <2>1, <2>3, <3>1 DEF LoopHead
  <2> QED BY <1>5, <2>2, <2>3 DEF LoopHead
<1>6. CASE Acked
  BY <1>1, <1>4, <1>6 DEF Acked, Running, LaunchTypeOK, FaultClass
<1>7. CASE ConsistencyFault
  <2>1. /\ Running /\ consistencyAttempt <= MaxConsistencyRetries
        /\ consistencyAttempt <= lags[rung]
    BY <1>7 DEF ConsistencyFault, Running, Walk
  <2>2. /\ consistencyAttempt' = consistencyAttempt + 1 /\ lags' \in [Rungs -> Nat]
        /\ lags'[rung] = lags[rung] + 1
    BY <1>1, <1>7 DEF ConsistencyFault
  <2>3. CASE consistencyAttempt' > MaxConsistencyRetries
    <3>1. lags'[rung] > MaxConsistencyRetries /\ consistencyAttempt' \in 0..(MaxConsistencyRetries + 1)
      BY <1>1, <2>1, <2>2, <2>3
    <3> QED BY <1>4, <1>7, <2>1, <2>2, <2>3, <3>1 DEF ConsistencyFault, GiveUp, LaunchTypeOK, FaultClass
  <2>4. CASE ~(consistencyAttempt' > MaxConsistencyRetries)
    <3>1. consistencyAttempt' <= lags'[rung] /\ consistencyAttempt' \in 0..MaxConsistencyRetries
      BY <1>1, <2>1, <2>2, <2>4
    <3> QED BY <1>3, <1>7, <2>1, <2>2, <2>4, <3>1 DEF ConsistencyFault
  <2> QED BY <2>3, <2>4
<1>8. CASE ThrottleFault
  <2>1. Running /\ consistencyAttempt \in 0..MaxConsistencyRetries /\ consistencyAttempt <= lags[rung]
    BY <1>1, <1>8 DEF ThrottleFault, Running, Walk
  <2> QED BY <1>1, <1>3, <1>8, <2>1 DEF ThrottleFault
<1>9. CASE CapacityFault
  <2>1. Running /\ addAttempt("CapacityExhausted") /\ "CapacityExhausted" \in FaultClass
    BY <1>9 DEF CapacityFault, Running, FaultClass
  <2>2. CASE Places = {}
    BY <1>1, <1>4, <1>9, <2>1, <2>2 DEF CapacityFault, LaunchTypeOK
  <2>3. CASE Places # {}
    <3>1. First \in Places
      BY <2>3, FirstPlace
    <3>2. First \in 1..Len(chain) /\ First < Len(chain) /\ chain[First] = rung
      BY <1>1, <3>1 DEF Places
    <3>3. /\ rung' = chain[First + 1] /\ consistencyAttempt' = 0 /\ at' = "loop"
          /\ UNCHANGED <<chain, phaseErr, parentErr, instance, lags>>
      BY <1>9, <2>3 DEF CapacityFault
    <3> DEFINE a == [rung |-> rung, fault |-> "CapacityExhausted"]
    <3>4. attempts' = Append(attempts, a) /\ a \in Attempt
      BY <1>1, <2>1 DEF addAttempt, Attempt
    <3>5. /\ attempts' \in Seq(Attempt) /\ Len(attempts') = Len(attempts) + 1
          /\ DOMAIN attempts' = 1..(Len(attempts) + 1)
          /\ attempts'[Len(attempts')] = a /\ \A i \in DOMAIN attempts : attempts'[i] = attempts[i]
      BY <1>1, <3>4, Appended
    <3>6. rung' \in Rungs
      BY <1>1, <3>2, <3>3
    <3>7. LaunchTypeOK'
      BY <3>3, <3>5, <3>6, <1>1 DEF LaunchTypeOK, Attempt
    <3>8. \A i \in DOMAIN attempts' : attempts'[i].fault = "CapacityExhausted"
      <4>1. \A i \in DOMAIN attempts : attempts[i].fault = "CapacityExhausted"
        BY <2>1 DEF Walk
      <4>2. DOMAIN attempts = 1..Len(attempts)
        BY <1>1 DEF LaunchTypeOK
      <4> QED BY <3>5, <4>1, <4>2
    <3>9. ASSUME chain # << >> /\ Distinct
          PROVE  /\ Len(attempts') < Len(chain) /\ rung' = chain[Len(attempts') + 1]
                 /\ \A i \in DOMAIN attempts' : attempts'[i].rung = chain[i]
      <4>1. /\ Len(attempts) < Len(chain) /\ rung = chain[Len(attempts) + 1]
            /\ \A i \in DOMAIN attempts : attempts[i].rung = chain[i]
        BY <2>1, <3>9 DEF Walk, OnChain
      <4>2. First = Len(attempts) + 1
        BY <1>1, <3>2, <3>9, <4>1 DEF Distinct
      <4>3. Len(attempts') < Len(chain) /\ rung' = chain[Len(attempts') + 1]
        BY <1>1, <3>2, <3>3, <3>5, <4>2
      <4>4. attempts'[Len(attempts) + 1].rung = chain[Len(attempts) + 1]
        BY <3>5, <4>1
      <4>5. \A i \in DOMAIN attempts : attempts'[i].rung = chain[i]
        BY <3>5, <4>1
      <4>6. \A i \in DOMAIN attempts' : i \in DOMAIN attempts \/ i = Len(attempts) + 1
        BY <1>1, <3>5
      <4> QED BY <4>3, <4>4, <4>5, <4>6
    <3>10. OnChain'
      BY <3>3, <3>9 DEF OnChain, Distinct
    <3>11. Walk'
      BY <1>1, <3>3, <3>6, <3>8, <3>10 DEF Walk
    <3>12. AttemptsFollowChain'
      BY <1>1, <3>3, <3>5, <3>8, <3>9 DEF AttemptsFollowChain, Tried, Distinct
    <3>13. LagIsOfOneRung'
      BY <3>3 DEF LagIsOfOneRung
    <3> QED BY <3>7, <3>11, <3>12, <3>13
  <2> QED BY <2>2, <2>3
<1>10. CASE TerminalFault
  <2>1. PICK f \in {"Terminal", "Ambiguous"} : GiveUp(f)
    BY <1>10 DEF TerminalFault
  <2>2. instance' \in {"absent", "live"} /\ Running
    BY <1>10 DEF TerminalFault, LaunchTypeOK, Running
  <2> QED BY <1>1, <1>4, <1>10, <2>1, <2>2 DEF TerminalFault, GiveUp, LaunchTypeOK, FaultClass
<1> QED BY <1>2, <1>5, <1>6, <1>7, <1>8, <1>9, <1>10 DEF LaunchNext, CallReturns

-----------------------------------------------------------------------------
\* The strengthened invariant holds in every reachable state.
THEOREM LaunchInvariance == LaunchSpec => []LaunchInv
BY LaunchInitInv, LaunchStepInv, PTL DEF LaunchSpec

\* The Attempts of a Record tell the walk down the chain as it was.
THEOREM AttemptsFollow == LaunchSpec => []AttemptsFollowChain
BY LaunchInvariance, PTL DEF LaunchInv

\* A rung is only given up for its own lags.
THEOREM LagOfOneRung == LaunchSpec => []LagIsOfOneRung
BY LaunchInvariance, PTL DEF LaunchInv

-----------------------------------------------------------------------------
(* EntityLaunch implements the launch phase of Cohort.                      *)

\* What Cohort's variables are of a cohort of one.
LEMMA OfOne ==
  /\ \A v : ToMe(v)[me] = v /\ DOMAIN ToMe(v) = {me} /\ ToMe(v) = [e \in {me} |-> v]
  /\ \A v, w : [ToMe(v) EXCEPT ![me] = w] = ToMe(w)
BY DEF ToMe

\* Where Cohort is in doLaunch.
LEMMA Positions ==
  /\ CohortPC["loop"] = "launch" /\ CohortPC["call"] = "launching"
  /\ CohortPC["launched"] = "poll" /\ CohortPC["cancelled"] = "exit"
  /\ CohortPC["terminal"] = "exit"
BY DEF CohortPC

\* A fresh launch is a fresh cohort.
LEMMA FreshLaunch == LaunchInit => LaunchPhase!Init
<1> SUFFICES ASSUME LaunchInit PROVE LaunchPhase!Init
  OBVIOUS
<1>1. at = "loop" /\ phaseErr = "none" /\ parentErr = "none" /\ instance = "absent"
  BY DEF LaunchInit
<1>2. FaultCodeOf = "none"
  BY <1>1 DEF FaultCodeOf
<1> QED BY <1>1, <1>2, Positions DEF LaunchPhase!Init, ToMe, LaunchPhase!NoObs,
        LaunchPhase!NoCulprit, NoCulpritYet

\* A retry, on the same rung or the next, is one of Cohort's.
LEMMA Retries ==
  ASSUME at = "call", at' = "loop", UNCHANGED <<phaseErr, parentErr, instance>>
  PROVE  LaunchPhase!LaunchRetries(me)
<1>1. FaultCodeOf = "none" /\ FaultCodeOf' = "none"
  BY DEF FaultCodeOf
<1> QED BY <1>1, Positions, OfOne DEF LaunchPhase!LaunchRetries, LaunchPhase!tracker,
        LaunchPhase!shared, LaunchPhase!result

\* What doLaunch gives up on, short of its deadline, is a launch fault.
LEMMA Failures ==
  ASSUME at = "call", at' = "terminal", UNCHANGED <<phaseErr, parentErr>>,
         instance' \in {instance, "live"}, attempts'[Len(attempts')].fault # "PhaseBudgetExceeded"
  PROVE  LaunchPhase!LaunchFails(me)
<1>1. FaultCodeOf = "none" /\ FaultCodeOf' = "LaunchFault"
  BY DEF FaultCodeOf
<1>2. LaunchPhase!Fail(me, "LaunchAcked", "LaunchFault")
  BY <1>1, Positions, OfOne DEF LaunchPhase!Fail
<1>3. \E i \in {ToMe(instance)[me], "live"} : ToMe(instance)' = [ToMe(instance) EXCEPT ![me] = i]
  BY OfOne
<1> QED BY <1>1, <1>2, <1>3, Positions, OfOne DEF LaunchPhase!LaunchFails, LaunchPhase!tracker,
        LaunchPhase!shared, LaunchPhase!result

\* Every step of doLaunch is a step of Cohort's launch phase, or stutters.
LEMMA PhaseStep == LaunchInv /\ [LaunchNext]_launchVars => [LaunchPhase!Next]_(LaunchPhase!vars)
<1> SUFFICES ASSUME LaunchInv, [LaunchNext]_launchVars PROVE [LaunchPhase!Next]_(LaunchPhase!vars)
  OBVIOUS
<1>1. CASE Cancel
  <2>1. at' = at /\ FaultCodeOf = "none" /\ FaultCodeOf' = "none" /\ Running /\ at # "launched"
    BY <1>1 DEF Cancel, FaultCodeOf, Running
  <2>2. LaunchPhase!CancelBelow("Canceled")
    BY <1>1, <2>1, Positions, OfOne DEF Cancel, Running, ToMe, LaunchPhase!CancelBelow,
         LaunchPhase!InPhase
  <2>3. LaunchPhase!ParentDone
    BY <1>1, <2>1, <2>2 DEF Cancel, LaunchPhase!ParentDone, LaunchPhase!tracker, LaunchPhase!result
  <2> QED BY <2>3 DEF LaunchPhase!Next
<1>2. CASE Deadline
  <2>1. at' = at /\ FaultCodeOf = "none" /\ FaultCodeOf' = "none" /\ Running /\ at # "launched"
    BY <1>2 DEF Deadline, FaultCodeOf, Running
  <2>2. LaunchPhase!PhaseDeadline(me)
    BY <1>2, <2>1, Positions, OfOne DEF Deadline, Running, LaunchPhase!PhaseDeadline,
         LaunchPhase!InPhase, LaunchPhase!tracker, LaunchPhase!shared, LaunchPhase!result
  <2> QED BY <2>2 DEF LaunchPhase!Next
<1>3. CASE LoopHead
  <2>1. at = "loop" /\ FaultCodeOf = "none" /\ UNCHANGED <<phaseErr, parentErr, instance>>
    BY <1>3 DEF LoopHead, FaultCodeOf
  <2> USE DEF LaunchPhase!CallOf, LaunchPhase!tracker, LaunchPhase!shared, LaunchPhase!result
  <2>2. CASE phaseErr = "none" /\ at' = "call"
    <3>1. FaultCodeOf' = "none"
      BY <2>2 DEF FaultCodeOf
    <3>2. LaunchPhase!Call(me)
      BY <2>1, <2>2, <3>1, Positions, OfOne DEF LaunchPhase!Call
    <3> QED BY <3>2 DEF LaunchPhase!Next, LaunchPhase!LoopHead
  <2>3. CASE phaseErr = "Canceled" /\ at' = "cancelled"
    <3>1. FaultCodeOf' = "none"
      BY <2>3 DEF FaultCodeOf
    <3>2. LaunchPhase!StopCancelled(me)
      BY <2>1, <2>3, <3>1, Positions, OfOne DEF LaunchPhase!StopCancelled
    <3> QED BY <3>2 DEF LaunchPhase!Next, LaunchPhase!LoopHead
  <2>4. CASE phaseErr = "Deadline" /\ GiveUp("PhaseBudgetExceeded")
    <3>1. UNCHANGED <<chain, rung>> /\ Running
      BY <1>3 DEF LoopHead, Running
    <3>2. attempts'[Len(attempts')].fault = "PhaseBudgetExceeded" /\ at' = "terminal"
      BY <2>4, <3>1, LastAttempt DEF GiveUp, LaunchInv
    <3>3. FaultCodeOf' = "PhaseBudgetExceeded"
      BY <3>2 DEF FaultCodeOf
    <3>4. LaunchPhase!Fail(me, "LaunchAcked", "PhaseBudgetExceeded")
      BY <2>1, <3>2, <3>3, Positions, OfOne DEF LaunchPhase!Fail
    <3>5. LaunchPhase!RecordDeadline(me)
      BY <2>1, <2>4, <3>2, <3>4, Positions, OfOne DEF LaunchPhase!RecordDeadline
    <3> QED BY <3>5 DEF LaunchPhase!Next, LaunchPhase!LoopHead
  <2> QED BY <1>3, <2>2, <2>3, <2>4 DEF LoopHead
<1>4. ASSUME LaunchPhase!LaunchRetries(me) \/ LaunchPhase!LaunchFails(me) \/ LaunchPhase!LaunchAcked(me)
      PROVE  LaunchPhase!Next
  BY <1>4 DEF LaunchPhase!Next, LaunchPhase!PortReturns
<1>5. CASE Acked
  <2>1. FaultCodeOf = "none" /\ FaultCodeOf' = "none" /\ at = "call" /\ at' = "launched"
    BY <1>5 DEF Acked, FaultCodeOf
  <2>2. LaunchPhase!Enter(me, "Running", "poll")
    BY <1>5, <2>1, Positions, OfOne DEF Acked, LaunchPhase!Enter
  <2>3. LaunchPhase!LaunchAcked(me)
    BY <1>5, <2>1, <2>2, Positions, OfOne DEF Acked, LaunchPhase!LaunchAcked, LaunchPhase!shared,
       LaunchPhase!result
  <2> QED BY <1>4, <2>3
<1>6. ASSUME NEW f \in FaultClass, addAttempt(f), at = "call", at' = "terminal",
             UNCHANGED <<chain, rung, phaseErr, parentErr>>, instance' \in {instance, "live"}
      PROVE  LaunchPhase!Next
  <2>1. attempts'[Len(attempts')].fault = f
    BY <1>6, LastAttempt DEF LaunchInv, Running
  <2> QED BY <1>4, <1>6, <2>1, Failures DEF FaultClass
<1>7. CASE ConsistencyFault
  BY <1>4, <1>6, <1>7, Retries DEF ConsistencyFault, GiveUp, FaultClass
<1>8. CASE ThrottleFault
  BY <1>4, <1>8, Retries DEF ThrottleFault
<1>9. CASE CapacityFault
  BY <1>4, <1>6, <1>9, Retries DEF CapacityFault, FaultClass
<1>10. CASE TerminalFault
  BY <1>6, <1>10 DEF TerminalFault, GiveUp, FaultClass
<1>11. CASE UNCHANGED launchVars
  <2>1. FaultCodeOf' = FaultCodeOf
    BY <1>11 DEF launchVars, FaultCodeOf
  <2> QED BY <1>11, <2>1 DEF launchVars, LaunchPhase!vars, LaunchPhase!tracker, LaunchPhase!shared,
             LaunchPhase!result
<1> QED BY <1>1, <1>2, <1>3, <1>5, <1>7, <1>8, <1>9, <1>10, <1>11 DEF LaunchNext, CallReturns

\* doLaunch, with its retries and its walk down any chain, does nothing that the
\* launch phase of a member of Cohort does not allow.
THEOREM PhaseImplementation == LaunchSpec => ImplementsLaunchPhase
BY FreshLaunch, PhaseStep, LaunchInvariance, PTL DEF LaunchSpec, ImplementsLaunchPhase, LaunchPhase!Spec
=============================================================================
